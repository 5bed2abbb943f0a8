----------------------- MODULE PartialExecutionProofs -----------------------
(***************************************************************************)
(* Proofs about PartialExecution, for every set of requests.               *)
(***************************************************************************)
EXTENDS PartialExecution, FiniteSetTheorems, SequenceTheorems, WellFoundedInduction, TLAPS

-----------------------------------------------------------------------------
(***************************************************************************)
(* Induction over sets of numbers, and functions defined by recursion      *)
(***************************************************************************)

\* Less-than on the naturals is well founded.
LEMMA LessIsWellFounded == IsWellFoundedOn({ss \in Nat \X Nat : ss[1] < ss[2]}, Nat)
BY NatLessThanWellFounded DEF OpToRel

\* Induction, for what a set can say.
LEMMA NatSetInduction ==
  ASSUME NEW S, 0 \in S, \A n \in Nat : n \in S => n + 1 \in S
  PROVE  Nat \subseteq S
<1> DEFINE T == {n \in Nat : n \notin S}
           R == {ss \in Nat \X Nat : ss[1] < ss[2]}
<1> SUFFICES ASSUME T # {} PROVE FALSE
  OBVIOUS
<1>1. PICK x \in T : \A y \in T : <<y, x>> \notin R
  <2>1. T \subseteq Nat
    OBVIOUS
  <2>2. IsWellFoundedOn(R, Nat)
    BY LessIsWellFounded
  <2> HIDE DEF T, R
  <2> QED
    BY <2>1, <2>2, WFMin
<1>2. \A y \in T : ~(y < x)
  BY <1>1
<1>3. x # 0 /\ x \in Nat
  OBVIOUS
<1>4. x - 1 \in Nat /\ x - 1 < x /\ (x - 1) + 1 = x
  BY <1>3
<1> QED
  BY <1>2, <1>3, <1>4

\* A function on the naturals is defined by its first value and a step that
\* stays in a set.
LEMMA Recursion ==
  ASSUME NEW D, NEW base \in D, NEW succ \in [D -> D]
  PROVE  \E v \in [Nat -> D] : v[0] = base /\ \A k \in Nat : v[k + 1] = succ[v[k]]
<1> DEFINE Runs(n) == {u \in [0..n -> D] :
                         u[0] = base /\ \A k \in 0..(n - 1) : u[k + 1] = succ[u[k]]}
           S == {n \in Nat : Runs(n) # {}}
<1>1. 0 \in S
  <2>1. [k \in 0..0 |-> base] \in Runs(0)
    OBVIOUS
  <2> QED
    BY <2>1
<1>2. ASSUME NEW n \in Nat, n \in S PROVE n + 1 \in S
  <2>1. PICK u \in [0..n -> D] : u[0] = base /\ \A k \in 0..(n - 1) : u[k + 1] = succ[u[k]]
    BY <1>2
  <2> DEFINE w == [k \in 0..(n + 1) |-> IF k = n + 1 THEN succ[u[n]] ELSE u[k]]
  <2>2. w \in [0..(n + 1) -> D]
    OBVIOUS
  <2>3. w[0] = base
    BY <2>1
  <2>4. ASSUME NEW k \in 0..n PROVE w[k + 1] = succ[w[k]]
    <3>1. CASE k = n
      BY <3>1
    <3>2. CASE k # n
      <4>1. k \in 0..(n - 1) /\ k + 1 \in 0..n /\ k + 1 # n + 1
        BY <3>2
      <4> QED
        BY <2>1, <4>1
    <3> QED
      BY <3>1, <3>2
  <2>5. (n + 1) - 1 = n
    OBVIOUS
  <2> HIDE DEF w
  <2>6. w \in Runs(n + 1)
    BY <2>2, <2>3, <2>4, <2>5
  <2> QED
    BY <2>6
<1>3. Nat \subseteq S
  <2> HIDE DEF S
  <2> QED
    BY <1>1, <1>2, NatSetInduction
<1>4. ASSUME NEW n \in Nat, NEW m \in Nat, n <= m, NEW u \in Runs(n), NEW w \in Runs(m)
      PROVE  u[n] = w[n]
  <2> DEFINE A == {k \in Nat : k <= n => u[k] = w[k]}
  <2>1. 0 \in A
    OBVIOUS
  <2>2. ASSUME NEW k \in Nat, k \in A PROVE k + 1 \in A
    <3> SUFFICES ASSUME k + 1 <= n PROVE u[k + 1] = w[k + 1]
      OBVIOUS
    <3>1. k \in 0..(n - 1) /\ k \in 0..(m - 1) /\ u[k] = w[k]
      BY <1>4, <2>2
    <3> QED
      BY <3>1
  <2>3. Nat \subseteq A
    <3> HIDE DEF A
    <3> QED
      BY <2>1, <2>2, NatSetInduction
  <2> QED
    BY <2>3
<1> DEFINE r(n) == CHOOSE u : u \in Runs(n)
           v == [n \in Nat |-> r(n)[n]]
<1>5. ASSUME NEW n \in Nat PROVE r(n) \in Runs(n)
  BY <1>3
<1>6. v \in [Nat -> D]
  <2> SUFFICES ASSUME NEW n \in Nat PROVE r(n)[n] \in D
    OBVIOUS
  <2>1. r(n) \in [0..n -> D]
    BY <1>5
  <2> HIDE DEF r
  <2> QED
    BY <2>1
<1>7. v[0] = base
  <2>1. r(0)[0] = base
    BY <1>5
  <2> HIDE DEF r
  <2> QED
    BY <2>1
<1>8. ASSUME NEW k \in Nat PROVE v[k + 1] = succ[v[k]]
  <2>1. r(k) \in Runs(k) /\ r(k + 1) \in Runs(k + 1) /\ k + 1 \in Nat /\ k <= k + 1
    <3> HIDE DEF r, Runs
    <3> QED
      BY <1>5
  <2>2. r(k)[k] = r(k + 1)[k]
    <3> HIDE DEF r, Runs
    <3> QED
      BY <1>4, <2>1
  <2>3. r(k + 1)[k + 1] = succ[r(k + 1)[k]]
    <3>1. k \in 0..((k + 1) - 1)
      OBVIOUS
    <3> HIDE DEF r
    <3> QED
      BY <2>1, <3>1
  <2> HIDE DEF r, Runs
  <2> QED
    BY <2>2, <2>3
<1> HIDE DEF v
<1> QED
  BY <1>6, <1>7, <1>8

-----------------------------------------------------------------------------
(***************************************************************************)
(* Folds                                                                   *)
(***************************************************************************)

Iterates(v, D, base, next) ==
  v \in [Nat -> D] /\ v[0] = base /\ \A k \in Nat : v[k + 1] = next[v[k]]

LEMMA Iteration ==
  ASSUME NEW D, NEW base \in D, NEW next \in [D -> D]
  PROVE  \E v : Iterates(v, D, base, next)
BY Recursion DEF Iterates

\* What Fold goes through.
LEMMA FoldRun ==
  ASSUME NEW f, NEW base, NEW s, Len(s) \in Nat
  PROVE  \E u : /\ u[0] = base
                /\ \A k \in 1..Len(s) : u[k] = f[u[k - 1]][s[k]]
                /\ Fold(f, base, s) = u[Len(s)]
<1> DEFINE Is(u, n) == u = [k \in 0..n |-> IF k = 0 THEN base ELSE f[u[k - 1]][s[k]]]
           S == {n \in Nat : \E u : Is(u, n)}
<1>1. 0 \in S
  <2>1. Is([k \in 0..0 |-> base], 0)
    OBVIOUS
  <2> QED
    BY <2>1
<1>2. ASSUME NEW n \in Nat, n \in S PROVE n + 1 \in S
  <2>1. PICK u : Is(u, n)
    BY <1>2
  <2> DEFINE w == [k \in 0..(n + 1) |-> IF k = n + 1 THEN f[u[n]][s[n + 1]] ELSE u[k]]
  <2>2. ASSUME NEW k \in 0..(n + 1) PROVE w[k] = IF k = 0 THEN base ELSE f[w[k - 1]][s[k]]
    <3>1. CASE k = n + 1
      <4>1. k - 1 = n /\ k - 1 \in 0..(n + 1) /\ k - 1 # n + 1 /\ k # 0
        BY <3>1
      <4>2. w[k - 1] = u[n]
        BY <4>1
      <4>3. w[k] = f[u[n]][s[n + 1]]
        BY <3>1
      <4> HIDE DEF w, Is
      <4> QED
        BY <3>1, <4>1, <4>2, <4>3
    <3>2. CASE k # n + 1
      <4>1. k \in 0..n /\ (k # 0 => k - 1 \in 0..(n + 1) /\ k - 1 # n + 1)
        BY <3>2
      <4>2. w[k] = u[k] /\ (k # 0 => w[k - 1] = u[k - 1])
        BY <3>2, <4>1
      <4>3. u[k] = IF k = 0 THEN base ELSE f[u[k - 1]][s[k]]
        BY <2>1, <4>1
      <4> HIDE DEF w, Is
      <4> QED
        BY <4>2, <4>3
    <3> QED
      BY <3>1, <3>2
  <2>3. w = [k \in 0..(n + 1) |-> w[k]]
    OBVIOUS
  <2>4. Is(w, n + 1)
    <3> HIDE DEF w
    <3> QED
      BY <2>2, <2>3
  <2> HIDE DEF w, Is
  <2> QED
    BY <2>4
<1>3. Nat \subseteq S
  <2> HIDE DEF S
  <2> QED
    BY <1>1, <1>2, NatSetInduction
<1> DEFINE after == CHOOSE u : Is(u, Len(s))
<1>4. Is(after, Len(s))
  <2>1. \E u : Is(u, Len(s))
    BY <1>3
  <2> HIDE DEF Is
  <2> QED
    BY <2>1
<1>5. Fold(f, base, s) = after[Len(s)]
  BY DEF Fold
<1> HIDE DEF after
<1>6. after[0] = base /\ \A k \in 1..Len(s) : after[k] = f[after[k - 1]][s[k]]
  BY <1>4
<1> QED
  BY <1>5, <1>6

\* A fold stays where its base is and its steps stay.
LEMMA FoldIn ==
  ASSUME NEW T, NEW f, NEW base \in T, NEW s, Len(s) \in Nat,
         \A x \in T : \A k \in 1..Len(s) : f[x][s[k]] \in T
  PROVE  Fold(f, base, s) \in T
<1>1. PICK u : /\ u[0] = base
               /\ \A k \in 1..Len(s) : u[k] = f[u[k - 1]][s[k]]
               /\ Fold(f, base, s) = u[Len(s)]
  BY FoldRun
<1> DEFINE S == {k \in Nat : k <= Len(s) => u[k] \in T}
<1>2. 0 \in S
  BY <1>1
<1>3. ASSUME NEW k \in Nat, k \in S PROVE k + 1 \in S
  <2> SUFFICES ASSUME k + 1 <= Len(s) PROVE u[k + 1] \in T
    OBVIOUS
  <2>1. u[k] \in T /\ k + 1 \in 1..Len(s) /\ (k + 1) - 1 = k
    BY <1>3
  <2> QED
    BY <1>1, <2>1
<1>4. Nat \subseteq S
  <2> HIDE DEF S
  <2> QED
    BY <1>2, <1>3, NatSetInduction
<1> QED
  BY <1>1, <1>4

\* What holds of the base at 0, and is carried from each index to the next.
LEMMA FoldUpTo ==
  ASSUME NEW P, NEW f, NEW base, NEW s, Len(s) \in Nat,
         <<0, base>> \in P,
         \A k \in 1..Len(s) : \A x : <<k - 1, x>> \in P => <<k, f[x][s[k]]>> \in P
  PROVE  <<Len(s), Fold(f, base, s)>> \in P
<1>1. PICK u : /\ u[0] = base
               /\ \A k \in 1..Len(s) : u[k] = f[u[k - 1]][s[k]]
               /\ Fold(f, base, s) = u[Len(s)]
  BY FoldRun
<1> DEFINE S == {k \in Nat : k <= Len(s) => <<k, u[k]>> \in P}
<1>2. 0 \in S
  BY <1>1
<1>3. ASSUME NEW k \in Nat, k \in S PROVE k + 1 \in S
  <2> SUFFICES ASSUME k + 1 <= Len(s) PROVE <<k + 1, u[k + 1]>> \in P
    OBVIOUS
  <2>1. <<k, u[k]>> \in P /\ k + 1 \in 1..Len(s) /\ (k + 1) - 1 = k
    BY <1>3
  <2> QED
    BY <1>1, <2>1
<1>4. Nat \subseteq S
  <2> HIDE DEF S
  <2> QED
    BY <1>2, <1>3, NatSetInduction
<1> QED
  BY <1>1, <1>4

\* What one element brings about and the others leave is so in the end.
LEMMA FoldReaches ==
  ASSUME NEW T, NEW K, NEW f, NEW base \in T, NEW s, Len(s) \in Nat,
         \A x \in T : \A k \in 1..Len(s) : f[x][s[k]] \in T,
         NEW j \in 1..Len(s),
         \A x \in T : f[x][s[j]] \in K,
         \A x \in T : \A k \in 1..Len(s) : x \in K => f[x][s[k]] \in K
  PROVE  Fold(f, base, s) \in K
<1> DEFINE P == {p \in Nat \X T : p[1] >= j => p[2] \in K}
<1>1. <<0, base>> \in P
  OBVIOUS
<1>2. ASSUME NEW k \in 1..Len(s), NEW x, <<k - 1, x>> \in P PROVE <<k, f[x][s[k]]>> \in P
  <2>1. x \in T /\ k \in Nat /\ f[x][s[k]] \in T /\ (k - 1 >= j => x \in K)
    BY <1>2
  <2>2. CASE k - 1 >= j
    BY <2>1, <2>2
  <2>3. CASE k = j
    BY <2>1, <2>3
  <2>4. CASE k < j
    BY <2>1, <2>4
  <2> QED
    BY <2>2, <2>3, <2>4
<1>3. <<Len(s), Fold(f, base, s)>> \in P
  <2> HIDE DEF P
  <2> QED
    BY <1>1, <1>2, FoldUpTo
<1> QED
  BY <1>3

-----------------------------------------------------------------------------
(***************************************************************************)
(* Sequences                                                               *)
(***************************************************************************)

LEMMA ToSetIs ==
  ASSUME NEW E, NEW s \in Seq(E)
  PROVE  /\ Len(s) \in Nat /\ DOMAIN s = 1..Len(s)
         /\ ToSet(s) = {s[i] : i \in 1..Len(s)}
         /\ ToSet(s) \subseteq E
         /\ \A i \in 1..Len(s) : s[i] \in E /\ s[i] \in ToSet(s)
         /\ \A x : Contains(s, x) <=> x \in ToSet(s)
         /\ s \in Seq(ToSet(s))
BY DEF ToSet, Contains

LEMMA NothingIs ==
  /\ \A E : <<>> \in Seq(E)
  /\ Len(<<>>) = 0
  /\ ToSet(<<>>) = {}
  /\ IsInjective(<<>>)
  /\ \A E : \A s \in Seq(E) : s = <<>> <=> ToSet(s) = {}
<1>1. \A E : \A s \in Seq(E) : s = <<>> <=> ToSet(s) = {}
  <2> SUFFICES ASSUME NEW E, NEW s \in Seq(E), ToSet(s) = {} PROVE s = <<>>
    BY DEF ToSet
  <2>1. Len(s) = 0
    <3>1. \A i \in 1..Len(s) : FALSE
      BY ToSetIs
    <3> QED
      BY <3>1
  <2> QED
    BY <2>1
<1> QED
  BY <1>1 DEF ToSet, IsInjective

LEMMA AppendIs ==
  ASSUME NEW E, NEW s \in Seq(E), NEW x \in E
  PROVE  /\ Append(s, x) \in Seq(E)
         /\ Len(Append(s, x)) = Len(s) + 1
         /\ \A i \in 1..Len(s) : Append(s, x)[i] = s[i]
         /\ Append(s, x)[Len(s) + 1] = x
         /\ ToSet(Append(s, x)) = ToSet(s) \cup {x}
         /\ IsInjective(s) /\ x \notin ToSet(s) => IsInjective(Append(s, x))
<1>1. /\ Append(s, x) \in Seq(E)
      /\ Len(Append(s, x)) = Len(s) + 1
      /\ \A i \in 1..Len(s) : Append(s, x)[i] = s[i]
      /\ Append(s, x)[Len(s) + 1] = x
  OBVIOUS
<1>2. Len(s) \in Nat /\ ToSet(s) = {s[i] : i \in 1..Len(s)} /\ DOMAIN s = 1..Len(s)
  BY ToSetIs
<1> DEFINE t == Append(s, x)
<1>3. ToSet(t) = {t[i] : i \in 1..(Len(s) + 1)} /\ DOMAIN t = 1..(Len(s) + 1)
  BY <1>1, ToSetIs
<1> HIDE DEF t
<1>4. ToSet(t) = ToSet(s) \cup {x}
  <2>1. 1..(Len(s) + 1) = 1..Len(s) \cup {Len(s) + 1}
    BY <1>2
  <2>2. \A i \in 1..Len(s) : t[i] = s[i]
    BY <1>1 DEF t
  <2>3. t[Len(s) + 1] = x
    BY <1>1 DEF t
  <2> QED
    BY <1>2, <1>3, <2>1, <2>2, <2>3
<1>5. ASSUME IsInjective(s), x \notin ToSet(s) PROVE IsInjective(t)
  <2> SUFFICES ASSUME NEW i \in 1..(Len(s) + 1), NEW j \in 1..(Len(s) + 1), t[i] = t[j]
               PROVE  i = j
    BY <1>3 DEF IsInjective
  <2>1. \A k \in 1..Len(s) : t[k] = s[k] /\ s[k] \in ToSet(s)
    BY <1>1, <1>2 DEF t
  <2>2. t[Len(s) + 1] = x
    BY <1>1 DEF t
  <2>3. i = Len(s) + 1 \/ i \in 1..Len(s)
    BY <1>2
  <2>4. j = Len(s) + 1 \/ j \in 1..Len(s)
    BY <1>2
  <2> QED
    BY <1>2, <1>5, <2>1, <2>2, <2>3, <2>4 DEF IsInjective
<1> QED
  BY <1>1, <1>4, <1>5 DEF t

LEMMA AddIs ==
  ASSUME NEW E, NEW s \in Seq(E), NEW x \in E
  PROVE  /\ Add(s, x) \in Seq(E)
         /\ ToSet(Add(s, x)) = ToSet(s) \cup {x}
         /\ IsInjective(s) => IsInjective(Add(s, x))
<1>1. Contains(s, x) <=> x \in ToSet(s)
  BY ToSetIs
<1>2. CASE x \in ToSet(s)
  BY <1>1, <1>2 DEF Add
<1>3. CASE x \notin ToSet(s)
  BY <1>1, <1>3, AppendIs DEF Add
<1> QED
  BY <1>2, <1>3

LEMMA AddAllIs ==
  ASSUME NEW E, NEW s \in Seq(E), NEW t \in Seq(E)
  PROVE  AddAll(s, t) \in Seq(E) /\ ToSet(AddAll(s, t)) = ToSet(s) \cup ToSet(t)
<1> DEFINE B == ToSet(s) \cup ToSet(t)
           f == [r \in Seq(B) |-> [x \in ToSet(t) |-> Add(r, x)]]
           P == {p \in Nat \X Seq(B) : ToSet(p[2]) = ToSet(s) \cup {t[i] : i \in 1..p[1]}}
<1>1. s \in Seq(B) /\ Len(t) \in Nat /\ ToSet(t) = {t[i] : i \in 1..Len(t)} /\ B \subseteq E
  <2>1. s \in Seq(ToSet(s))
    BY ToSetIs
  <2>2. s \in Seq(B)
    BY <2>1
  <2> QED
    BY <2>2, ToSetIs
<1>2. <<0, s>> \in P
  BY <1>1
<1>3. ASSUME NEW k \in 1..Len(t), NEW r, <<k - 1, r>> \in P PROVE <<k, f[r][t[k]]>> \in P
  <2>1. r \in Seq(B) /\ ToSet(r) = ToSet(s) \cup {t[i] : i \in 1..(k - 1)} /\ t[k] \in ToSet(t)
    BY <1>1, <1>3
  <2>2. f[r][t[k]] = Add(r, t[k])
    BY <2>1
  <2>3. Add(r, t[k]) \in Seq(B) /\ ToSet(Add(r, t[k])) = ToSet(r) \cup {t[k]}
    <3> DEFINE x == t[k]
    <3>1. r \in Seq(B) /\ x \in B
      BY <2>1
    <3> HIDE DEF x, B
    <3>2. Add(r, x) \in Seq(B) /\ ToSet(Add(r, x)) = ToSet(r) \cup {x}
      BY <3>1, AddIs
    <3> QED
      BY <3>2 DEF x
  <2>4. {t[i] : i \in 1..k} = {t[i] : i \in 1..(k - 1)} \cup {t[k]} /\ k \in Nat
    BY <1>1
  <2> QED
    BY <2>1, <2>2, <2>3, <2>4
<1>4. <<Len(t), Fold(f, s, t)>> \in P
  <2> HIDE DEF f, P
  <2> QED
    BY <1>1, <1>2, <1>3, FoldUpTo
<1>5. AddAll(s, t) = Fold(f, s, t)
  BY DEF AddAll
<1> HIDE DEF f
<1>6. /\ AddAll(s, t) \in Seq(B)
      /\ ToSet(AddAll(s, t)) = ToSet(s) \cup {t[i] : i \in 1..Len(t)}
  BY <1>4, <1>5
<1> HIDE DEF B
<1>7. AddAll(s, t) \in Seq(E)
  BY <1>1, <1>6
<1> QED
  BY <1>1, <1>6, <1>7

\* h says where each element of r stands in s.
Picks(h, r, s) ==
  /\ h \in [1..Len(r) -> 1..Len(s)]
  /\ \A p, q \in 1..Len(r) : h[p] = h[q] => p = q
  /\ \A p \in 1..Len(r) : r[p] = s[h[p]]

LEMMA OnlyIs ==
  ASSUME NEW E, NEW s \in Seq(E), NEW S
  PROVE  /\ Only(s, S) \in Seq(E) /\ Only(s, S) \in Seq(S)
         /\ ToSet(Only(s, S)) = ToSet(s) \cap S
         /\ \E h : Picks(h, Only(s, S), s)
<1> DEFINE B == E \cap S
           f == [r \in Seq(S) |-> [x \in ToSet(s) |-> IF x \in S THEN Append(r, x) ELSE r]]
           Maps(h, r, k) == /\ h \in [1..Len(r) -> 1..k]
                            /\ \A p, q \in 1..Len(r) : h[p] = h[q] => p = q
                            /\ \A p \in 1..Len(r) : r[p] = s[h[p]]
           P == {p \in Nat \X Seq(B) : /\ ToSet(p[2]) = {s[i] : i \in 1..p[1]} \cap S
                                       /\ \E h : Maps(h, p[2], p[1])}
<1>1. Len(s) \in Nat /\ ToSet(s) = {s[i] : i \in 1..Len(s)} /\ ToSet(s) \subseteq E
  BY ToSetIs
<1>2. <<0, <<>>>> \in P
  <2>1. <<>> \in Seq(B) /\ ToSet(<<>>) = {} /\ Len(<<>>) = 0
    BY NothingIs
  <2>2. Maps([i \in 1..0 |-> 0], <<>>, 0)
    BY <2>1
  <2>3. {s[i] : i \in 1..0} \cap S = {}
    OBVIOUS
  <2> HIDE DEF Maps, B
  <2> DEFINE e == <<>>
  <2>4. e \in Seq(B) /\ ToSet(e) = {s[i] : i \in 1..0} \cap S
    BY <2>1, <2>3
  <2>5. \E h : Maps(h, e, 0)
    BY <2>2
  <2> HIDE DEF e
  <2>6. <<0, e>> \in P
    BY <2>4, <2>5
  <2> QED
    BY <2>6 DEF e
<1>3. ASSUME NEW k \in 1..Len(s), NEW r, <<k - 1, r>> \in P PROVE <<k, f[r][s[k]]>> \in P
  <2>1. /\ r \in Seq(B) /\ ToSet(r) = {s[i] : i \in 1..(k - 1)} \cap S /\ s[k] \in ToSet(s)
        /\ \E h : Maps(h, r, k - 1)
    <3> HIDE DEF Maps, f
    <3> QED
      BY <1>1, <1>3
  <2>2. PICK h : Maps(h, r, k - 1)
    BY <2>1
  <2>3. k \in Nat /\ {s[i] : i \in 1..k} = {s[i] : i \in 1..(k - 1)} \cup {s[k]} /\ r \in Seq(S)
        /\ Len(r) \in Nat
    BY <1>1, <2>1
  <2>4. CASE s[k] \in S
    <3>1. f[r][s[k]] = Append(r, s[k])
      BY <2>1, <2>3, <2>4
    <3> DEFINE t == Append(r, s[k])
               g == [i \in 1..(Len(r) + 1) |-> IF i = Len(r) + 1 THEN k ELSE h[i]]
    <3>2. /\ t \in Seq(B) /\ Len(t) = Len(r) + 1 /\ t[Len(r) + 1] = s[k]
          /\ \A i \in 1..Len(r) : t[i] = r[i]
          /\ ToSet(t) = ToSet(r) \cup {s[k]}
      <4>1. s[k] \in B
        BY <1>1, <2>1, <2>4
      <4> QED
        BY <2>1, <4>1, AppendIs
    <3> HIDE DEF t
    <3>3. h \in [1..Len(r) -> 1..(k - 1)]
      BY <2>2
    <3>4. \A i \in 1..(Len(r) + 1) : i = Len(r) + 1 \/ i \in 1..Len(r)
      BY <2>3
    <3>5. \A i \in 1..Len(r) : g[i] = h[i] /\ i # Len(r) + 1 /\ i \in 1..(Len(r) + 1)
      BY <2>3
    <3>6. g[Len(r) + 1] = k
      BY <2>3
    <3>10. DOMAIN g = 1..(Len(r) + 1) /\ g = [i \in 1..(Len(r) + 1) |-> g[i]]
      OBVIOUS
    <3> HIDE DEF g
    <3>7. \A i \in 1..Len(r) : h[i] \in 1..(k - 1) /\ h[i] # k /\ h[i] \in 1..k
      BY <3>3, <2>3
    <3>8. g \in [1..Len(t) -> 1..k]
      <4>1. \A i \in 1..(Len(r) + 1) : g[i] \in 1..k
        BY <2>3, <3>4, <3>5, <3>6, <3>7
      <4> QED
        BY <3>2, <3>10, <4>1
    <3>9. Maps(g, t, k)
      <4>1. ASSUME NEW p \in 1..Len(t), NEW q \in 1..Len(t), g[p] = g[q] PROVE p = q
        <5>1. (p = Len(r) + 1 \/ p \in 1..Len(r)) /\ (q = Len(r) + 1 \/ q \in 1..Len(r))
          BY <3>2, <3>4
        <5> QED
          BY <2>2, <3>5, <3>6, <3>7, <4>1, <5>1
      <4>2. ASSUME NEW p \in 1..Len(t) PROVE t[p] = s[g[p]]
        <5>1. p = Len(r) + 1 \/ p \in 1..Len(r)
          BY <3>2, <3>4
        <5> QED
          BY <2>2, <3>2, <3>5, <3>6, <5>1
      <4> QED
        BY <3>8, <4>1, <4>2
    <3> HIDE DEF Maps
    <3> QED
      BY <2>1, <2>3, <2>4, <3>1, <3>2, <3>9 DEF t
  <2>5. CASE s[k] \notin S
    <3>1. f[r][s[k]] = r
      BY <2>1, <2>3, <2>5
    <3>2. Maps(h, r, k)
      <4>1. \A i \in 1..(k - 1) : i \in 1..k
        BY <2>3
      <4> QED
        BY <2>2, <4>1
    <3> HIDE DEF Maps
    <3> QED
      BY <2>1, <2>3, <2>5, <3>1, <3>2
  <2> QED
    BY <2>4, <2>5
<1>4. <<Len(s), Fold(f, <<>>, s)>> \in P
  <2> HIDE DEF f, P
  <2> QED
    BY <1>1, <1>2, <1>3, FoldUpTo
<1>5. Only(s, S) = Fold(f, <<>>, s)
  BY DEF Only
<1> DEFINE r == Only(s, S)
<1>6. /\ r \in Seq(B) /\ ToSet(r) = ToSet(s) \cap S
      /\ \E h : Maps(h, r, Len(s))
  <2> HIDE DEF f, Maps
  <2> QED
    BY <1>1, <1>4, <1>5
<1> HIDE DEF r
<1>7. r \in Seq(E) /\ r \in Seq(S)
  BY <1>6
<1>8. PICK h : Maps(h, r, Len(s))
  BY <1>6
<1> HIDE DEF f, P
<1> QED
  BY <1>6, <1>7, <1>8 DEF r, Picks

\* Nothing that stands once in a sequence stands twice in a part of it.
LEMMA OnlyInjective ==
  ASSUME NEW E, NEW s \in Seq(E), NEW S, IsInjective(s)
  PROVE  IsInjective(Only(s, S))
<1>1. PICK h : Picks(h, Only(s, S), s)
  BY OnlyIs
<1>2. Only(s, S) \in Seq(E)
  BY OnlyIs
<1>3. DOMAIN Only(s, S) = 1..Len(Only(s, S)) /\ DOMAIN s = 1..Len(s)
  BY <1>2
<1> QED
  BY <1>1, <1>3 DEF IsInjective, Picks

\* a and b say where each element of f stands in the first n sequences of ss.
Flattens(a, b, f, ss, n) ==
  /\ a \in [1..Len(f) -> 1..n] /\ b \in [1..Len(f) -> Nat]
  /\ \A p \in 1..Len(f) : b[p] \in 1..Len(ss[a[p]]) /\ f[p] = ss[a[p]][b[p]]
  /\ \A p, q \in 1..Len(f) : a[p] = a[q] /\ b[p] = b[q] => p = q
  /\ \A i \in 1..n : \A j \in 1..Len(ss[i]) : \E p \in 1..Len(f) : a[p] = i /\ b[p] = j

\* One more sequence at the end.
LEMMA FlattenOneMore ==
  ASSUME NEW E, NEW ss \in Seq(Seq(E)), NEW n \in Nat, n + 1 \in 1..Len(ss),
         NEW f \in Seq(E), NEW a, NEW b, Flattens(a, b, f, ss, n)
  PROVE  /\ f \o ss[n + 1] \in Seq(E)
         /\ \E c, d : Flattens(c, d, f \o ss[n + 1], ss, n + 1)
<1> DEFINE t == ss[n + 1]
           g == f \o t
           L == Len(f)
           M == Len(t)
           c == [p \in 1..(L + M) |-> IF p <= L THEN a[p] ELSE n + 1]
           d == [p \in 1..(L + M) |-> IF p <= L THEN b[p] ELSE p - L]
<1>1. t \in Seq(E) /\ L \in Nat /\ M \in Nat
  BY ToSetIs
<1>2. /\ g \in Seq(E) /\ Len(g) = L + M
      /\ \A i \in 1..(L + M) : g[i] = IF i <= L THEN f[i] ELSE t[i - L]
  BY <1>1, ConcatProperties
<1>3. ASSUME NEW p \in 1..(L + M), p <= L
      PROVE  p \in 1..L /\ c[p] = a[p] /\ d[p] = b[p] /\ g[p] = f[p] /\ a[p] \in 1..n /\ b[p] \in Nat
  <2>1. p \in 1..L
    BY <1>1, <1>3
  <2>2. g[p] = f[p]
    BY <1>2, <1>3
  <2> HIDE DEF g, L, M
  <2> QED
    BY <1>3, <2>1, <2>2 DEF Flattens, L
<1>4. ASSUME NEW p \in 1..(L + M), ~(p <= L)
      PROVE  p - L \in 1..M /\ c[p] = n + 1 /\ d[p] = p - L /\ g[p] = t[p - L]
  <2>1. p - L \in 1..M
    BY <1>1, <1>4
  <2>2. g[p] = t[p - L]
    BY <1>2, <1>4
  <2> HIDE DEF g, L, M, t
  <2> QED
    BY <1>4, <2>1, <2>2
<1>5. c \in [1..(L + M) -> 1..(n + 1)] /\ d \in [1..(L + M) -> Nat]
  <2>1. DOMAIN c = 1..(L + M) /\ c = [p \in 1..(L + M) |-> c[p]]
        /\ DOMAIN d = 1..(L + M) /\ d = [p \in 1..(L + M) |-> d[p]]
    OBVIOUS
  <2> HIDE DEF c, d, g, L, M, t
  <2>2. ASSUME NEW p \in 1..(L + M) PROVE c[p] \in 1..(n + 1) /\ d[p] \in Nat
    <3>1. CASE p <= L
      <4>1. c[p] \in 1..n /\ d[p] \in Nat
        BY <1>3, <3>1
      <4> QED
        BY <4>1
    <3>2. CASE ~(p <= L)
      <4>1. c[p] = n + 1 /\ d[p] = p - L /\ p - L \in 1..M
        BY <1>4, <3>2
      <4> QED
        BY <4>1
    <3> QED
      BY <3>1, <3>2
  <2> QED
    BY <2>1, <2>2
<1> HIDE DEF c, d, g, L, M
<1>6. ASSUME NEW p \in 1..(L + M)
      PROVE  d[p] \in 1..Len(ss[c[p]]) /\ g[p] = ss[c[p]][d[p]]
  <2>1. CASE p <= L
    BY <1>3, <2>1 DEF Flattens, L
  <2>2. CASE ~(p <= L)
    BY <1>4, <2>2 DEF M
  <2> QED
    BY <2>1, <2>2
<1>7. ASSUME NEW p \in 1..(L + M), NEW q \in 1..(L + M), c[p] = c[q], d[p] = d[q]
      PROVE  p = q
  <2>1. CASE p <= L /\ q <= L
    BY <1>3, <1>7, <2>1 DEF Flattens, L
  <2>2. CASE ~(p <= L) /\ ~(q <= L)
    <3>1. d[p] = p - L /\ d[q] = q - L
      BY <1>4, <2>2
    <3>2. p = (p - L) + L /\ q = (q - L) + L
      BY <1>1
    <3> QED
      BY <1>7, <3>1, <3>2
  <2>3. CASE p <= L /\ ~(q <= L)
    <3>1. c[p] \in 1..n /\ c[q] = n + 1
      BY <1>3, <1>4, <2>3
    <3> QED
      BY <1>7, <3>1
  <2>4. CASE ~(p <= L) /\ q <= L
    <3>1. c[q] \in 1..n /\ c[p] = n + 1
      BY <1>3, <1>4, <2>4
    <3> QED
      BY <1>7, <3>1
  <2> QED
    BY <2>1, <2>2, <2>3, <2>4
<1>8. ASSUME NEW i \in 1..(n + 1), NEW j \in 1..Len(ss[i])
      PROVE  \E p \in 1..(L + M) : c[p] = i /\ d[p] = j
  <2>1. CASE i = n + 1
    <3>1. L + j \in 1..(L + M) /\ ~(L + j <= L) /\ (L + j) - L = j
      BY <1>1, <2>1 DEF M
    <3> QED
      BY <1>4, <2>1, <3>1
  <2>2. CASE i # n + 1
    <3>1. i \in 1..n
      BY <2>2
    <3>2. PICK p \in 1..L : a[p] = i /\ b[p] = j
      BY <3>1 DEF Flattens, L
    <3>3. p \in 1..(L + M) /\ p <= L
      BY <1>1, <3>2
    <3> QED
      BY <1>3, <3>2, <3>3
  <2> QED
    BY <2>1, <2>2
<1>9. Flattens(c, d, g, ss, n + 1)
  BY <1>2, <1>5, <1>6, <1>7, <1>8 DEF Flattens
<1> QED
  BY <1>2, <1>9 DEF g

LEMMA FlattenIs ==
  ASSUME NEW E, NEW ss \in Seq(Seq(E))
  PROVE  /\ FlattenSeq(ss) \in Seq(E)
         /\ \E a, b : Flattens(a, b, FlattenSeq(ss), ss, Len(ss))
<1>1. Len(ss) \in Nat /\ \A k \in 1..Len(ss) : ss[k] \in Seq(E)
  BY ToSetIs
<1>2. \E a, b : Flattens(a, b, <<>>, ss, 0)
  <2>1. Len(<<>>) = 0
    OBVIOUS
  <2>2. Flattens([p \in 1..0 |-> 0], [p \in 1..0 |-> 0], <<>>, ss, 0)
    BY <2>1 DEF Flattens
  <2> QED
    BY <2>2
<1>3. CASE Len(ss) = 0
  <2>1. ss = <<>>
    BY <1>3
  <2>2. FlattenSeq(ss) = <<>>
    BY <1>3, <2>1 DEF FlattenSeq
  <2> QED
    BY <1>2, <1>3, <2>2
<1>4. CASE Len(ss) # 0
  <2> DEFINE Is(u, n) == u = [i \in 1..n |-> IF i = 1 THEN ss[i] ELSE u[i - 1] \o ss[i]]
             S == {n \in Nat : \E u : Is(u, n)}
  <2>1. 0 \in S
    <3>1. Is([i \in 1..0 |-> ss], 0)
      OBVIOUS
    <3> QED
      BY <3>1
  <2>2. ASSUME NEW n \in Nat, n \in S PROVE n + 1 \in S
    <3>1. PICK u : Is(u, n)
      BY <2>2
    <3> DEFINE w == [i \in 1..(n + 1) |-> IF i # n + 1 THEN u[i]
                                          ELSE IF i = 1 THEN ss[i] ELSE u[n] \o ss[i]]
    <3>2. ASSUME NEW i \in 1..(n + 1)
          PROVE  w[i] = IF i = 1 THEN ss[i] ELSE w[i - 1] \o ss[i]
      <4>1. CASE i = 1
        <5>1. i = n + 1 \/ (i \in 1..n /\ i # n + 1)
          BY <4>1
        <5>2. i \in 1..n => u[i] = ss[i]
          BY <3>1, <4>1
        <5> QED
          BY <4>1, <5>1, <5>2
      <4>2. CASE i # 1 /\ i = n + 1
        <5>1. i - 1 = n /\ n \in 1..(n + 1) /\ n # n + 1
          BY <4>2
        <5>2. w[n] = u[n]
          BY <5>1
        <5>3. w[i] = u[n] \o ss[i]
          BY <4>2
        <5> HIDE DEF w, Is
        <5> QED
          BY <4>2, <5>1, <5>2, <5>3
      <4>3. CASE i # 1 /\ i # n + 1
        <5>1. i \in 1..n /\ i - 1 \in 1..(n + 1) /\ i - 1 # n + 1
          BY <4>3
        <5>2. w[i] = u[i] /\ w[i - 1] = u[i - 1]
          BY <4>3, <5>1
        <5>3. u[i] = u[i - 1] \o ss[i]
          BY <3>1, <4>3, <5>1
        <5> HIDE DEF w, Is
        <5> QED
          BY <4>3, <5>2, <5>3
      <4> QED
        BY <4>1, <4>2, <4>3
    <3>3. w = [i \in 1..(n + 1) |-> w[i]]
      OBVIOUS
    <3>4. Is(w, n + 1)
      <4> HIDE DEF w
      <4> QED
        BY <3>2, <3>3
    <3> HIDE DEF w, Is
    <3> QED
      BY <3>4
  <2>3. Nat \subseteq S
    <3> HIDE DEF S
    <3> QED
      BY <2>1, <2>2, NatSetInduction
  <2> DEFINE flatten == CHOOSE u : Is(u, Len(ss))
  <2>4. Is(flatten, Len(ss))
    <3>1. \E u : Is(u, Len(ss))
      BY <1>1, <2>3
    <3> HIDE DEF Is
    <3> QED
      BY <3>1
  <2>5. FlattenSeq(ss) = flatten[Len(ss)]
    BY <1>4 DEF FlattenSeq
  <2> HIDE DEF flatten
  <2> DEFINE Upto(k) == /\ flatten[k] \in Seq(E)
                        /\ \E a, b : Flattens(a, b, flatten[k], ss, k)
             Q == {k \in Nat : k + 1 \in 1..Len(ss) => Upto(k + 1)}
  <2>6. 0 \in Q
    <3>1. 1 \in 1..Len(ss) /\ 0 + 1 = 1
      BY <1>1, <1>4
    <3>2. flatten[1] = ss[1]
      BY <2>4, <3>1
    <3>3. PICK a, b : Flattens(a, b, <<>>, ss, 0)
      BY <1>2
    <3>4. /\ <<>> \o ss[0 + 1] \in Seq(E)
          /\ \E c, d : Flattens(c, d, <<>> \o ss[0 + 1], ss, 0 + 1)
      BY <3>1, <3>3, NothingIs, FlattenOneMore
    <3>5. <<>> \o ss[1] = ss[1]
      BY <1>1, <3>1
    <3>6. Upto(0 + 1)
      BY <3>1, <3>2, <3>4, <3>5
    <3> HIDE DEF Upto
    <3> QED
      BY <3>6
  <2>7. ASSUME NEW k \in Nat, k \in Q PROVE k + 1 \in Q
    <3> SUFFICES ASSUME (k + 1) + 1 \in 1..Len(ss) PROVE Upto((k + 1) + 1)
      <4> HIDE DEF Upto
      <4> QED
        OBVIOUS
    <3>1. k + 1 \in 1..Len(ss) /\ (k + 1) + 1 # 1 /\ ((k + 1) + 1) - 1 = k + 1 /\ k + 1 \in Nat
      BY <1>1
    <3>2. Upto(k + 1)
      <4> HIDE DEF Upto
      <4> QED
        BY <2>7, <3>1
    <3>3. flatten[(k + 1) + 1] = flatten[k + 1] \o ss[(k + 1) + 1]
      BY <2>4, <3>1
    <3>4. PICK a, b : Flattens(a, b, flatten[k + 1], ss, k + 1)
      BY <3>2
    <3>5. /\ flatten[k + 1] \o ss[(k + 1) + 1] \in Seq(E)
          /\ \E c, d : Flattens(c, d, flatten[k + 1] \o ss[(k + 1) + 1], ss, (k + 1) + 1)
      BY <3>1, <3>2, <3>4, FlattenOneMore
    <3> QED
      BY <3>3, <3>5
  <2>8. Nat \subseteq Q
    <3> HIDE DEF Q
    <3> QED
      BY <2>6, <2>7, NatSetInduction
  <2>9. Len(ss) - 1 \in Nat /\ (Len(ss) - 1) + 1 = Len(ss) /\ Len(ss) \in 1..Len(ss)
    BY <1>1, <1>4
  <2>10. Upto(Len(ss))
    <3> HIDE DEF Upto
    <3> QED
      BY <2>8, <2>9
  <2> QED
    BY <2>5, <2>10
<1> QED
  BY <1>3, <1>4

-----------------------------------------------------------------------------
(***************************************************************************)
(* Closures                                                                *)
(***************************************************************************)

LEMMA FiniteImage ==
  ASSUME NEW S, IsFiniteSet(S), NEW f
  PROVE  LET T == {f[x] : x \in S} IN
         IsFiniteSet(T) /\ Cardinality(T) \in Nat /\ Cardinality(T) <= Cardinality(S)
<1> DEFINE T == {f[x] : x \in S}
           g == [x \in S |-> f[x]]
<1>1. g \in Surjection(S, T)
  BY DEF Surjection
<1> HIDE DEF g, T
<1>2. IsFiniteSet(T) /\ Cardinality(T) <= Cardinality(S)
  BY <1>1, FS_Surjection
<1> QED
  BY <1>2, FS_CardinalityType DEF T

LEMMA ToSetFinite ==
  ASSUME NEW E, NEW s \in Seq(E)
  PROVE  IsFiniteSet(ToSet(s)) /\ Cardinality(ToSet(s)) \in Nat /\ Cardinality(ToSet(s)) <= Len(s)
<1>1. Len(s) \in Nat /\ ToSet(s) = {s[i] : i \in 1..Len(s)}
  BY ToSetIs
<1>2. IsFiniteSet(1..Len(s)) /\ Cardinality(1..Len(s)) = Len(s)
  BY <1>1, FS_Interval, SMTT(30)
<1> QED
  BY <1>1, <1>2, FiniteImage

\* ReachedBy is the least set that holds N and that no pair leads out of.
LEMMA ReachedByIs ==
  ASSUME NEW R, IsFiniteSet(R), NEW N
  PROVE  /\ N \subseteq ReachedBy(R, N)
         /\ \A p \in R : p[1] \in ReachedBy(R, N) => p[2] \in ReachedBy(R, N)
         /\ \A S : N \subseteq S /\ (\A p \in R : p[1] \in S => p[2] \in S) => ReachedBy(R, N) \subseteq S
<1> DEFINE All == {p[2] : p \in R}
           D == SUBSET (N \cup All)
           Beyond(M) == {p[2] : p \in {q \in R : q[1] \in M}}
           further == [M \in D |-> M \cup Beyond(M)]
           Is(u) == u = [k \in Nat |-> IF k = 0 THEN N ELSE further[u[k - 1]]]
           after == CHOOSE u : Is(u)
<1>1. further \in [D -> D]
  OBVIOUS
<1>2. \E u : Is(u)
  <2>1. N \in D
    OBVIOUS
  <2>2. PICK v \in [Nat -> D] : v[0] = N /\ \A k \in Nat : v[k + 1] = further[v[k]]
    <3> HIDE DEF D, further
    <3> QED
      BY <1>1, <2>1, Recursion
  <2> HIDE DEF D, further
  <2>3. ASSUME NEW k \in Nat PROVE v[k] = IF k = 0 THEN N ELSE further[v[k - 1]]
    <3>1. CASE k = 0
      BY <2>2, <3>1
    <3>2. CASE k # 0
      <4>1. k - 1 \in Nat /\ (k - 1) + 1 = k
        BY <3>2
      <4> QED
        BY <2>2, <3>2, <4>1
    <3> QED
      BY <3>1, <3>2
  <2>4. Is(v)
    BY <2>2, <2>3
  <2> HIDE DEF Is
  <2> QED
    BY <2>4
<1>3. Is(after)
  <2> HIDE DEF Is
  <2> QED
    BY <1>2
<1>4. ReachedBy(R, N) = after[Cardinality(R)]
  BY DEF ReachedBy
<1> HIDE DEF after
<1>5. after[0] = N /\ \A k \in Nat : after[k + 1] = further[after[k]]
  <2> HIDE DEF further, D
  <2> QED
    BY <1>3
<1>6. ASSUME NEW k \in Nat PROVE after[k] \in D
  <2> DEFINE A == {j \in Nat : after[j] \in D}
  <2>1. 0 \in A
    BY <1>5
  <2>2. ASSUME NEW j \in Nat, j \in A PROVE j + 1 \in A
    <3> HIDE DEF D, further
    <3> QED
      BY <1>1, <1>5, <2>2
  <2>3. Nat \subseteq A
    <3> HIDE DEF A
    <3> QED
      BY <2>1, <2>2, NatSetInduction
  <2> QED
    BY <2>3
<1>7. ASSUME NEW k \in Nat PROVE after[k + 1] = after[k] \cup Beyond(after[k])
  <2> HIDE DEF D, Beyond
  <2> QED
    BY <1>5, <1>6
<1> HIDE DEF further, Beyond
<1>8. ASSUME NEW k \in Nat PROVE N \subseteq after[k]
  <2> DEFINE A == {j \in Nat : N \subseteq after[j]}
  <2>1. 0 \in A
    BY <1>5
  <2>2. ASSUME NEW j \in Nat, j \in A PROVE j + 1 \in A
    BY <1>7, <2>2
  <2>3. Nat \subseteq A
    <3> HIDE DEF A
    <3> QED
      BY <2>1, <2>2, NatSetInduction
  <2> QED
    BY <2>3
<1>9. ASSUME NEW S, N \subseteq S, \A p \in R : p[1] \in S => p[2] \in S, NEW k \in Nat
      PROVE  after[k] \subseteq S
  <2> DEFINE A == {j \in Nat : after[j] \subseteq S}
  <2>1. 0 \in A
    BY <1>5, <1>9
  <2>2. ASSUME NEW j \in Nat, j \in A PROVE j + 1 \in A
    <3>1. Beyond(after[j]) \subseteq S
      BY <1>9, <2>2 DEF Beyond
    <3> QED
      BY <1>7, <2>2, <3>1
  <2>3. Nat \subseteq A
    <3> HIDE DEF A
    <3> QED
      BY <2>1, <2>2, NatSetInduction
  <2> QED
    BY <2>3
<1>10. IsFiniteSet(All) /\ Cardinality(All) <= Cardinality(R) /\ Cardinality(R) \in Nat
       /\ Cardinality(All) \in Nat
  <2> DEFINE f == [p \in R |-> p[2]]
  <2>1. All = {f[p] : p \in R}
    OBVIOUS
  <2> HIDE DEF f, All
  <2> QED
    BY <2>1, FiniteImage, FS_CardinalityType
<1> DEFINE New(k) == after[k] \ N
           Rest == All \ N
<1>11. /\ IsFiniteSet(Rest) /\ Cardinality(Rest) \in Nat
       /\ Cardinality(Rest) <= Cardinality(All)
  <2>1. Rest \in SUBSET All
    OBVIOUS
  <2> HIDE DEF Rest, All
  <2> QED
    BY <1>10, <2>1, FS_Subset, FS_CardinalityType
<1>12. ASSUME NEW k \in Nat
       PROVE  /\ New(k) \in SUBSET Rest
              /\ IsFiniteSet(New(k)) /\ Cardinality(New(k)) \in Nat
  <2>1. New(k) \in SUBSET Rest
    <3> HIDE DEF All
    <3> QED
      BY <1>6
  <2> HIDE DEF Rest, New
  <2> QED
    BY <1>11, <2>1, FS_Subset, FS_CardinalityType
<1> DEFINE Stable(k) == after[k + 1] = after[k]
           A == {k \in Nat : Stable(k) \/ Cardinality(New(k)) >= k}
<1>13. 0 \in A
  <2> HIDE DEF New
  <2> QED
    BY <1>12
<1>14. ASSUME NEW k \in Nat, k \in A PROVE k + 1 \in A
  <2>1. CASE Stable(k)
    <3>1. after[(k + 1) + 1] = after[k + 1] \cup Beyond(after[k + 1])
      BY <1>7
    <3>2. after[k + 1] = after[k] \cup Beyond(after[k])
      BY <1>7
    <3>3. Stable(k + 1)
      BY <2>1, <3>1, <3>2
    <3> HIDE DEF Stable, New
    <3> QED
      BY <3>3
  <2>2. CASE ~Stable(k)
    <3>1. PICK x \in after[k + 1] : x \notin after[k]
      BY <1>7, <2>2
    <3>2. after[k] \subseteq after[k + 1] /\ x \notin N
      BY <1>7, <1>8, <3>1
    <3>3. (New(k) \cup {x}) \in SUBSET New(k + 1) /\ x \notin New(k)
      BY <3>1, <3>2
    <3>4. Cardinality(New(k)) >= k
      BY <1>14, <2>2
    <3> HIDE DEF New, Stable
    <3>5. Cardinality(New(k) \cup {x}) = Cardinality(New(k)) + 1
      BY <1>12, <3>3, FS_AddElement
    <3>6. IsFiniteSet(New(k + 1)) /\ Cardinality(New(k + 1)) \in Nat
      BY <1>12
    <3>7. Cardinality(New(k) \cup {x}) <= Cardinality(New(k + 1))
      BY <3>3, <3>6, FS_Subset
    <3>8. Cardinality(New(k + 1)) >= k + 1
      BY <1>12, <3>4, <3>5, <3>6, <3>7
    <3> QED
      BY <3>8
  <2> QED
    BY <2>1, <2>2
<1>15. Nat \subseteq A
  <2> HIDE DEF A
  <2> QED
    BY <1>13, <1>14, NatSetInduction
<1> DEFINE r == Cardinality(R)
<1>16. r \in Nat
  BY <1>10
<1> HIDE DEF r
<1>17. Beyond(after[r]) \subseteq after[r]
  <2>1. CASE Stable(r)
    BY <1>7, <1>16, <2>1
  <2>2. CASE Cardinality(New(r)) >= r
    <3>1. New(r) = Rest
      <4>1. Cardinality(Rest) <= r
        <5> HIDE DEF Rest, All
        <5> QED
          BY <1>10, <1>11 DEF r
      <4> HIDE DEF New, Rest, All
      <4>2. Cardinality(New(r)) <= Cardinality(Rest)
        BY <1>11, <1>12, <1>16, FS_Subset
      <4>3. Cardinality(New(r)) = Cardinality(Rest)
        BY <1>11, <1>12, <1>16, <2>2, <4>1, <4>2
      <4> QED
        BY <1>11, <1>12, <1>16, <4>3, FS_Subset
    <3>2. Beyond(after[r]) \subseteq All
      BY DEF Beyond
    <3>3. N \subseteq after[r]
      BY <1>8, <1>16
    <3> HIDE DEF All
    <3> QED
      BY <3>1, <3>2, <3>3
  <2>3. r \in A
    BY <1>15, <1>16
  <2> QED
    BY <2>1, <2>2, <2>3
<1>18. ReachedBy(R, N) = after[r]
  BY <1>4 DEF r
<1>19. \A p \in R : p[1] \in after[r] => p[2] \in after[r]
  BY <1>17 DEF Beyond
<1> HIDE DEF Is
<1> QED
  BY <1>8, <1>9, <1>16, <1>18, <1>19

LEMMA DownstreamIs ==
  ASSUME NEW C, IsFiniteSet(C), NEW N
  PROVE  /\ N \subseteq Downstream(C, N)
         /\ \A c \in C : c.from \in Downstream(C, N) => c.to \in Downstream(C, N)
         /\ \A S : N \subseteq S /\ (\A c \in C : c.from \in S => c.to \in S)
              => Downstream(C, N) \subseteq S
<1> DEFINE R == {<<c.from, c.to>> : c \in C}
           f == [c \in C |-> <<c.from, c.to>>]
<1>1. R = {f[c] : c \in C}
  OBVIOUS
<1>2. IsFiniteSet(R)
  <2> HIDE DEF R, f
  <2> QED
    BY <1>1, FiniteImage
<1>3. ASSUME NEW c \in C PROVE \E p \in R : p[1] = c.from /\ p[2] = c.to
  <2>1. <<c.from, c.to>> \in R /\ <<c.from, c.to>>[1] = c.from /\ <<c.from, c.to>>[2] = c.to
    OBVIOUS
  <2> HIDE DEF R
  <2> QED
    BY <2>1
<1>4. \A p \in R : \E c \in C : p[1] = c.from /\ p[2] = c.to
  OBVIOUS
<1>5. Downstream(C, N) = ReachedBy(R, N)
  BY DEF Downstream
<1> HIDE DEF R, f
<1>6. /\ N \subseteq ReachedBy(R, N)
      /\ \A p \in R : p[1] \in ReachedBy(R, N) => p[2] \in ReachedBy(R, N)
      /\ \A S : N \subseteq S /\ (\A p \in R : p[1] \in S => p[2] \in S) => ReachedBy(R, N) \subseteq S
  BY <1>2, ReachedByIs
<1>7. \A S : (\A c \in C : c.from \in S => c.to \in S) => (\A p \in R : p[1] \in S => p[2] \in S)
  BY <1>4
<1>8. \A c \in C : c.from \in ReachedBy(R, N) => c.to \in ReachedBy(R, N)
  BY <1>3, <1>6
<1> QED
  BY <1>5, <1>6, <1>7, <1>8

LEMMA UpstreamIs ==
  ASSUME NEW C, IsFiniteSet(C), NEW N
  PROVE  /\ N \subseteq Upstream(C, N)
         /\ \A c \in C : c.to \in Upstream(C, N) => c.from \in Upstream(C, N)
         /\ \A S : N \subseteq S /\ (\A c \in C : c.to \in S => c.from \in S)
              => Upstream(C, N) \subseteq S
<1> DEFINE R == {<<c.to, c.from>> : c \in C}
           f == [c \in C |-> <<c.to, c.from>>]
<1>1. R = {f[c] : c \in C}
  OBVIOUS
<1>2. IsFiniteSet(R)
  <2> HIDE DEF R, f
  <2> QED
    BY <1>1, FiniteImage
<1>3. ASSUME NEW c \in C PROVE \E p \in R : p[1] = c.to /\ p[2] = c.from
  <2>1. <<c.to, c.from>> \in R /\ <<c.to, c.from>>[1] = c.to /\ <<c.to, c.from>>[2] = c.from
    OBVIOUS
  <2> HIDE DEF R
  <2> QED
    BY <2>1
<1>4. \A p \in R : \E c \in C : p[1] = c.to /\ p[2] = c.from
  OBVIOUS
<1>5. Upstream(C, N) = ReachedBy(R, N)
  BY DEF Upstream
<1> HIDE DEF R, f
<1>6. /\ N \subseteq ReachedBy(R, N)
      /\ \A p \in R : p[1] \in ReachedBy(R, N) => p[2] \in ReachedBy(R, N)
      /\ \A S : N \subseteq S /\ (\A p \in R : p[1] \in S => p[2] \in S) => ReachedBy(R, N) \subseteq S
  BY <1>2, ReachedByIs
<1>7. \A S : (\A c \in C : c.to \in S => c.from \in S) => (\A p \in R : p[1] \in S => p[2] \in S)
  BY <1>4
<1>8. \A c \in C : c.to \in ReachedBy(R, N) => c.from \in ReachedBy(R, N)
  BY <1>3, <1>6
<1> QED
  BY <1>5, <1>6, <1>7, <1>8

-----------------------------------------------------------------------------
(***************************************************************************)
(* Least and greatest numbers                                              *)
(***************************************************************************)

LEMMA LeastNumber ==
  ASSUME NEW S \in SUBSET Nat, S # {}
  PROVE  \E x \in S : \A y \in S : x <= y
<1> DEFINE R == {ss \in Nat \X Nat : ss[1] < ss[2]}
<1>1. PICK x \in S : \A y \in S : <<y, x>> \notin R
  <2>1. IsWellFoundedOn(R, Nat) /\ S \subseteq Nat
    BY LessIsWellFounded
  <2> HIDE DEF R
  <2> QED
    BY <2>1, WFMin
<1>2. ASSUME NEW y \in S PROVE x <= y
  <2>1. <<y, x>> \in Nat \X Nat /\ <<y, x>>[1] = y /\ <<y, x>>[2] = x
    OBVIOUS
  <2>2. ~(y < x)
    BY <1>1, <2>1
  <2> QED
    BY <2>2
<1> QED
  BY <1>2

LEMMA MinIs ==
  ASSUME NEW S \in SUBSET Nat, S # {}
  PROVE  Min(S) \in S /\ \A y \in S : Min(S) <= y
BY LeastNumber DEF Min

LEMMA GreatestNumber ==
  ASSUME NEW S \in SUBSET Nat, S # {}, IsFiniteSet(S)
  PROVE  \E x \in S : \A y \in S : x >= y
<1> DEFINE n == Cardinality(S)
<1>1. n \in Nat /\ ExistsBijection(1..n, S)
  BY FS_CardinalityType
<1> HIDE DEF n
<1>2. PICK f \in [1..n -> S] : \A x \in S : \E i \in 1..n : f[i] = x
  BY <1>1 DEF ExistsBijection, Bijection, Surjection
<1>20. \A j \in 1..n : f[j] \in S /\ f[j] \in Nat
  BY <1>2
<1> DEFINE A == {k \in Nat : k + 1 <= n => \E i \in 1..(k + 1) : \A j \in 1..(k + 1) : f[i] >= f[j]}
<1>3. 0 \in A
  <2>1. 1 <= n => f[1] \in Nat
    BY <1>1, <1>20
  <2> QED
    BY <2>1
<1>4. ASSUME NEW k \in Nat, k \in A PROVE k + 1 \in A
  <2> SUFFICES ASSUME (k + 1) + 1 <= n
               PROVE  \E i \in 1..((k + 1) + 1) : \A j \in 1..((k + 1) + 1) : f[i] >= f[j]
    OBVIOUS
  <2>1. PICK i \in 1..(k + 1) : \A j \in 1..(k + 1) : f[i] >= f[j]
    BY <1>1, <1>4
  <2> DEFINE m == (k + 1) + 1
  <2>2. m \in 1..n /\ i \in 1..n /\ \A j \in 1..m : j = m \/ j \in 1..(k + 1)
    BY <1>1
  <2>3. f[m] \in Nat /\ f[i] \in Nat /\ \A j \in 1..(k + 1) : f[j] \in Nat
    <3>1. \A j \in 1..(k + 1) : j \in 1..n
      BY <1>1
    <3> QED
      BY <1>20, <2>2, <3>1
  <2>20. m \in 1..m /\ i \in 1..m
    BY <2>1
  <2>4. CASE f[m] >= f[i]
    <3> HIDE DEF m
    <3>1. \A j \in 1..m : f[m] >= f[j]
      BY <2>1, <2>2, <2>3, <2>4
    <3>2. \E i1 \in 1..m : \A j \in 1..m : f[i1] >= f[j]
      BY <3>1, <2>20
    <3> QED
      BY <3>2 DEF m
  <2>5. CASE ~(f[m] >= f[i])
    <3> HIDE DEF m
    <3>1. \A j \in 1..m : f[i] >= f[j]
      BY <2>1, <2>2, <2>3, <2>5
    <3>2. \E i1 \in 1..m : \A j \in 1..m : f[i1] >= f[j]
      BY <3>1, <2>20
    <3> QED
      BY <3>2 DEF m
  <2> QED
    BY <2>4, <2>5
<1>5. Nat \subseteq A
  <2> HIDE DEF A
  <2> QED
    BY <1>3, <1>4, NatSetInduction
<1>6. n - 1 \in Nat /\ (n - 1) + 1 = n
  <2>1. PICK x \in S : TRUE
    OBVIOUS
  <2>2. PICK i \in 1..n : f[i] = x
    BY <1>2, <2>1
  <2> QED
    BY <1>1, <2>2
<1>7. PICK i \in 1..n : \A j \in 1..n : f[i] >= f[j]
  <2>1. n - 1 \in A
    <3> HIDE DEF A
    <3> QED
      BY <1>5, <1>6
  <2>2. (n - 1) + 1 = n /\ (n - 1) + 1 <= n
    BY <1>1
  <2> QED
    BY <2>1, <2>2
<1> QED
  BY <1>2, <1>7, <1>20

LEMMA MaxIs ==
  ASSUME NEW S \in SUBSET Nat, S # {}, IsFiniteSet(S)
  PROVE  Max(S) \in S /\ \A y \in S : Max(S) >= y
BY GreatestNumber DEF Max

-----------------------------------------------------------------------------
(***************************************************************************)
(* The groups of the connections of a start node                           *)
(***************************************************************************)

\* Connections of type main into one input of a node.
SameInput(C, n, i) == \A c \in C : c \in Conns /\ Main(c) /\ c.to = n /\ c.in = i

HasFirst(C) == \E c \in C : \A d \in C \ {c} : Before(c, d)

\* Of the connections of one input there is a first.
LEMMA FirstExists ==
  ASSUME NEW n, NEW i, NEW C, C # {}, SameInput(C, n, i)
  PROVE  HasFirst(C)
<1>0. \A c \in C : c \in Conns /\ Main(c) /\ c.to = n /\ c.in = i
  BY DEF SameInput
<1>1. PICK c1 \in C : \A d \in C : c1.from <= d.from
  <2> DEFINE S == {c.from : c \in C}
  <2>1. S \in SUBSET Nat /\ S # {}
    BY <1>0 DEF Conns
  <2>2. PICK x \in S : \A y \in S : x <= y
    <3> HIDE DEF S
    <3> QED
      BY <2>1, LeastNumber
  <2> QED
    BY <2>2
<1> DEFINE B == {c \in C : c.from = c1.from}
<1>2. PICK c \in B : \A d \in B : c.out <= d.out
  <2> DEFINE S == {c.out : c \in B}
  <2>1. S \in SUBSET Nat /\ S # {}
    BY <1>0 DEF Conns
  <2>2. PICK x \in S : \A y \in S : x <= y
    <3> HIDE DEF S, B
    <3> QED
      BY <2>1, LeastNumber
  <2> QED
    BY <2>2
<1>3. ASSUME NEW d \in C \ {c} PROVE Before(c, d)
  <2>1. /\ c \in Conns /\ d \in Conns /\ c.in = d.in /\ c.to = d.to /\ c.type = d.type
        /\ c.from <= d.from
    BY <1>0, <1>1, <1>2, <1>3 DEF Main
  <2>2. CASE c.from = d.from
    <3>1. d \in B
      BY <1>2, <2>2
    <3>2. c.out <= d.out
      BY <1>2, <3>1
    <3>3. c.out # d.out
      BY <1>3, <2>1, <2>2 DEF Conns
    <3>4. c.out < d.out
      BY <2>1, <3>2, <3>3 DEF Conns
    <3> QED
      BY <2>1, <2>2, <3>4 DEF Before
  <2>3. CASE c.from # d.from
    <3>1. c.from < d.from
      BY <2>1, <2>3 DEF Conns
    <3> QED
      BY <2>1, <3>1 DEF Before
  <2> QED
    BY <2>2, <2>3
<1> QED
  BY <1>2, <1>3 DEF HasFirst

\* What the groups of a node are made of.
Into(C, n) == IsFiniteSet(C) /\ \A c \in C : c \in Conns /\ Main(c) /\ c.to = n

\* A group takes connections that are there, and takes one at least.
LEMMA FirstGroupIs ==
  ASSUME NEW n, NEW with, NEW without, Into(with \cup without, n), with \cup without # {}
  PROVE  /\ FirstGroup(with, without).conns \in Seq(with \cup without)
         /\ ToSet(FirstGroup(with, without).conns) # {}
         /\ FirstGroup(with, without).complete \in BOOLEAN
<1> DEFINE all      == with \cup without
           inputs   == {c.in : c \in all}
           lowest   == Min(inputs)
           reach    == {i \in inputs : lowest .. i \subseteq inputs}
           highest  == Max(reach)
           Of(C, i) == {c \in C : c.in = i}
           First(C) == CHOOSE c \in C : \A d \in C \ {c} : Before(c, d)
           Pick(i)  == First(IF Of(with, i) # {} THEN Of(with, i) ELSE Of(without, i))
           conns    == [k \in 1 .. highest - lowest + 1 |-> Pick(lowest + k - 1)]
<1>1. FirstGroup(with, without) = [complete |-> ToSet(conns) \subseteq with, conns |-> conns]
  BY DEF FirstGroup
<1>2. inputs \in SUBSET Nat /\ inputs # {}
  BY DEF Into, Conns
<1>3. IsFiniteSet(inputs)
  <2> DEFINE f == [c \in all |-> c.in]
  <2>1. inputs = {f[c] : c \in all}
    OBVIOUS
  <2> HIDE DEF f, inputs
  <2> QED
    BY <2>1, FiniteImage DEF Into
<1> HIDE DEF inputs
<1>4. lowest \in inputs /\ \A y \in inputs : lowest <= y
  BY <1>2, MinIs
<1> HIDE DEF lowest
<1>5. highest \in reach /\ highest >= lowest
  <2>1. lowest \in reach
    BY <1>2, <1>4
  <2>2. reach \in SUBSET Nat /\ reach # {} /\ IsFiniteSet(reach)
    <3>1. reach \in SUBSET inputs
      OBVIOUS
    <3> HIDE DEF reach
    <3> QED
      BY <1>2, <1>3, <2>1, <3>1, FS_Subset
  <2> HIDE DEF reach
  <2> QED
    BY <2>1, <2>2, MaxIs
<1>6. lowest \in Nat /\ highest \in Nat /\ lowest .. highest \subseteq inputs
  BY <1>2, <1>4, <1>5
<1> HIDE DEF reach, highest
<1>7. ASSUME NEW i \in lowest .. highest PROVE Pick(i) \in all
  <2> DEFINE C == IF Of(with, i) # {} THEN Of(with, i) ELSE Of(without, i)
  <2>1. PICK c \in all : c.in = i
    BY <1>6, <1>7 DEF inputs
  <2>2. C # {} /\ C \subseteq all /\ \A d \in C : d.in = i
    BY <2>1
  <2>3. SameInput(C, n, i)
    <3> HIDE DEF C
    <3> QED
      BY <2>2 DEF Into, SameInput
  <2>4. HasFirst(C)
    <3> HIDE DEF C
    <3> QED
      BY <2>2, <2>3, FirstExists
  <2>5. First(C) \in C
    <3> HIDE DEF C
    <3> QED
      BY <2>4 DEF HasFirst
  <2>6. Pick(i) = First(C)
    OBVIOUS
  <2> HIDE DEF C, First, Pick
  <2> QED
    BY <2>2, <2>5, <2>6
<1> DEFINE L == highest - lowest + 1
<1>8. L \in Nat /\ L >= 1 /\ \A k \in 1..L : lowest + k - 1 \in lowest .. highest
  BY <1>5, <1>6
<1>9. conns = [k \in 1..L |-> conns[k]] /\ \A k \in 1..L : conns[k] = Pick(lowest + k - 1)
  OBVIOUS
<1> HIDE DEF L, conns, Pick
<1>10. \A k \in 1..L : conns[k] \in all
  BY <1>7, <1>8, <1>9
<1>11. conns \in [1..L -> all]
  <2> HIDE DEF all
  <2> QED
    BY <1>9, <1>10
<1>12. conns \in Seq(all) /\ Len(conns) = L
  <2> HIDE DEF all
  <2> QED
    BY <1>8, <1>11
<1>13. ToSet(conns) # {}
  <2>1. 1 \in 1..Len(conns)
    BY <1>8, <1>12
  <2> HIDE DEF all
  <2> QED
    BY <1>12, <2>1, ToSetIs
<1> QED
  BY <1>1, <1>12, <1>13

\* Taking away from a finite set, some of it each time, ends.
TakesSome(all, T) == \A S \in SUBSET all : S # {} => T[S] \cap S # {}

TakenApart(u, all, G, T) ==
  u = [S \in SUBSET all |-> IF S = {} THEN <<>> ELSE <<G[S]>> \o u[S \ T[S]]]

LEMMA TakingEnds ==
  ASSUME NEW all, IsFiniteSet(all), NEW G, NEW T, TakesSome(all, T)
  PROVE  \E u : TakenApart(u, all, G, T)
<1> DEFINE Gs  == {G[S] : S \in SUBSET all}
           D   == [SUBSET all -> Seq(Gs)]
           base == [S \in SUBSET all |-> <<>>]
           more == [v \in D |-> [S \in SUBSET all |->
                      IF S = {} THEN <<>> ELSE <<G[S]>> \o v[S \ T[S]]]]
           C(S) == Cardinality(S)
<1>1. base \in D
  <2>1. <<>> \in Seq(Gs)
    BY NothingIs
  <2> QED
    BY <2>1
<1>2. more \in [D -> D]
  <2> SUFFICES ASSUME NEW v \in D, NEW S \in SUBSET all
               PROVE  (IF S = {} THEN <<>> ELSE <<G[S]>> \o v[S \ T[S]]) \in Seq(Gs)
    OBVIOUS
  <2>1. <<>> \in Seq(Gs)
    BY NothingIs
  <2>2. G[S] \in Gs /\ S \ T[S] \in SUBSET all
    OBVIOUS
  <2>3. v[S \ T[S]] \in Seq(Gs)
    <3> HIDE DEF Gs
    <3> QED
      BY <2>2
  <2> HIDE DEF Gs
  <2> QED
    BY <2>1, <2>2, <2>3
<1>3. PICK v \in [Nat -> D] : v[0] = base /\ \A k \in Nat : v[k + 1] = more[v[k]]
  <2> HIDE DEF D, base, more
  <2> QED
    BY <1>1, <1>2, Recursion
<1>4. \A k \in Nat : v[k] \in D
  <2> HIDE DEF D
  <2> QED
    BY <1>3
<1>5. ASSUME NEW k \in Nat, NEW S \in SUBSET all
      PROVE  v[k + 1][S] = IF S = {} THEN <<>> ELSE <<G[S]>> \o v[k][S \ T[S]]
  <2>1. v[k + 1] = more[v[k]] /\ v[k] \in D
    BY <1>3, <1>4
  <2>2. more[v[k]] = [S1 \in SUBSET all |->
                        IF S1 = {} THEN <<>> ELSE <<G[S1]>> \o v[k][S1 \ T[S1]]]
    BY <2>1
  <2> QED
    BY <2>1, <2>2
<1>6. \A k \in Nat : v[k][{}] = <<>>
  <2>1. v[0][{}] = <<>>
    BY <1>3
  <2>2. \A k \in Nat : v[k + 1][{}] = <<>>
    BY <1>5
  <2>3. \A k \in Nat : k = 0 \/ (k - 1 \in Nat /\ (k - 1) + 1 = k)
    OBVIOUS
  <2> QED
    BY <2>1, <2>2, <2>3
<1>7. ASSUME NEW S \in SUBSET all
      PROVE  /\ C(S) \in Nat /\ (S = {} <=> C(S) = 0)
             /\ S # {} => S \ T[S] \in SUBSET all /\ C(S \ T[S]) \in Nat /\ C(S \ T[S]) < C(S)
  <2>1. IsFiniteSet(S)
    BY FS_Subset
  <2>2. C(S) \in Nat /\ (S = {} <=> C(S) = 0)
    BY <2>1, FS_CardinalityType, FS_EmptySet
  <2>3. ASSUME S # {} PROVE C(S \ T[S]) \in Nat /\ C(S \ T[S]) < C(S)
    <3>1. PICK x \in S : x \in T[S]
      BY <2>3 DEF TakesSome
    <3>2. IsFiniteSet(S \ {x}) /\ C(S \ {x}) = C(S) - 1
      BY <2>1, <3>1, FS_RemoveElement
    <3>3. S \ T[S] \in SUBSET (S \ {x})
      BY <3>1
    <3>4. IsFiniteSet(S \ T[S]) /\ C(S \ T[S]) <= C(S \ {x})
      BY <3>2, <3>3, FS_Subset
    <3>5. C(S \ T[S]) \in Nat
      BY <3>4, FS_CardinalityType
    <3> QED
      BY <2>2, <3>2, <3>4, <3>5
  <2> QED
    BY <2>2, <2>3
<1>70. \A S \in SUBSET all : C(S) \in Nat /\ (S = {} <=> C(S) = 0)
  BY <1>7
<1> HIDE DEF C, D, base, more
<1> DEFINE Same(k) == \A S \in SUBSET all : C(S) <= k => v[k][S] = v[C(S)][S]
           A == {k \in Nat : \A j \in 0..k : Same(j)}
<1>8. 0 \in A
  <2>1. ASSUME NEW S \in SUBSET all, C(S) <= 0 PROVE v[0][S] = v[C(S)][S]
    <3>1. C(S) = 0
      BY <1>70, <2>1
    <3> QED
      BY <3>1
  <2>2. \A j \in 0..0 : j = 0
    OBVIOUS
  <2> QED
    BY <2>1, <2>2
<1>9. ASSUME NEW k \in Nat, k \in A PROVE k + 1 \in A
  <2>1. \A j \in 0..k : Same(j)
    BY <1>9
  <2>2. ASSUME NEW S \in SUBSET all, C(S) <= k + 1 PROVE v[k + 1][S] = v[C(S)][S]
    <3>1. CASE C(S) = k + 1
      BY <3>1
    <3>2. CASE S = {}
      BY <1>6, <1>7, <3>2
    <3>3. CASE C(S) <= k /\ S # {}
      <4> DEFINE U == S \ T[S]
                 c == C(S)
                 d == C(U)
      <4>1. c \in Nat /\ d \in Nat /\ d < c /\ U \in SUBSET all
        BY <1>7, <3>3
      <4>2. v[k + 1][S] = <<G[S]>> \o v[k][U]
        BY <1>5, <3>3
      <4>3. c - 1 \in 0..k /\ c - 1 \in Nat /\ (c - 1) + 1 = c /\ d <= c - 1 /\ d <= k /\ k \in 0..k
        BY <3>3, <4>1
      <4>4. v[c][S] = <<G[S]>> \o v[c - 1][U]
        BY <1>5, <3>3, <4>3
      <4>5. v[k][U] = v[d][U] /\ v[c - 1][U] = v[d][U]
        BY <2>1, <4>1, <4>3
      <4> QED
        BY <4>2, <4>4, <4>5
    <3>4. C(S) \in Nat /\ (C(S) = k + 1 \/ C(S) <= k)
      BY <1>70, <2>2
    <3> QED
      BY <1>70, <3>1, <3>2, <3>3, <3>4
  <2> QED
    BY <2>1, <2>2
<1>10. \A k \in Nat : Same(k)
  <2>1. Nat \subseteq A
    <3> HIDE DEF A
    <3> QED
      BY <1>8, <1>9, NatSetInduction
  <2> QED
    BY <2>1
<1> DEFINE u == [S \in SUBSET all |-> v[C(S)][S]]
<1>11. ASSUME NEW S \in SUBSET all
       PROVE  v[C(S)][S] = IF S = {} THEN <<>> ELSE <<G[S]>> \o u[S \ T[S]]
  <2>1. CASE S = {}
    BY <1>6, <1>7, <2>1
  <2>2. CASE S # {}
    <3> DEFINE U == S \ T[S]
               c == C(S)
               d == C(U)
    <3>1. c \in Nat /\ d \in Nat /\ d < c /\ U \in SUBSET all
      BY <1>7, <2>2
    <3>2. c - 1 \in Nat /\ (c - 1) + 1 = c /\ d <= c - 1
      BY <3>1
    <3>3. v[c][S] = <<G[S]>> \o v[c - 1][U]
      BY <1>5, <2>2, <3>2
    <3>4. v[c - 1][U] = v[d][U]
      BY <1>10, <3>1, <3>2
    <3>5. u[U] = v[d][U]
      BY <3>1
    <3> QED
      BY <2>2, <3>3, <3>4, <3>5
  <2> QED
    BY <2>1, <2>2
<1>12. u = [S \in SUBSET all |-> IF S = {} THEN <<>> ELSE <<G[S]>> \o u[S \ T[S]]]
  BY <1>11
<1> HIDE DEF u
<1> QED
  BY <1>12 DEF TakenApart

\* Groups share the connections of S out among them.
Groups == [complete : BOOLEAN, conns : Seq(Conns)]

Shares(gs, S) ==
  /\ gs \in Seq(Groups)
  /\ \A k \in 1..Len(gs) : ToSet(gs[k].conns) \subseteq S
  /\ \A c \in S : \E k \in 1..Len(gs) : c \in ToSet(gs[k].conns)
  /\ \A j, k \in 1..Len(gs) : ToSet(gs[j].conns) \cap ToSet(gs[k].conns) # {} => j = k

LEMMA SharesOneMore ==
  ASSUME NEW S, NEW first \in Groups, ToSet(first.conns) \subseteq S,
         NEW gs, Shares(gs, S \ ToSet(first.conns))
  PROVE  Shares(<<first>> \o gs, S)
<1> DEFINE all == <<first>> \o gs
<1>1. gs \in Seq(Groups) /\ Len(gs) \in Nat
  BY DEF Shares
<1>2. /\ all \in Seq(Groups) /\ Len(all) = Len(gs) + 1 /\ all[1] = first
      /\ \A k \in 1..Len(gs) : all[k + 1] = gs[k]
  <2> HIDE DEF Groups
  <2> QED
    BY <1>1
<1>3. \A k \in 1..Len(all) : k = 1 \/ (k - 1 \in 1..Len(gs) /\ all[k] = gs[k - 1])
  <2>1. ASSUME NEW k \in 1..Len(all), k # 1 PROVE k - 1 \in 1..Len(gs) /\ all[k] = gs[k - 1]
    <3>1. k - 1 \in 1..Len(gs) /\ (k - 1) + 1 = k
      BY <1>1, <1>2, <2>1
    <3> QED
      BY <1>2, <3>1
  <2> QED
    BY <2>1
<1> HIDE DEF all
<1> DEFINE F == ToSet(first.conns)
           X(k) == ToSet(all[k].conns)
           Y(k) == ToSet(gs[k].conns)
<1>4. X(1) = F /\ \A k \in 1..Len(all) : k # 1 => k - 1 \in 1..Len(gs) /\ X(k) = Y(k - 1)
  BY <1>2, <1>3
<1>5. /\ \A k \in 1..Len(gs) : Y(k) \subseteq S \ F
      /\ \A c \in S \ F : \E k \in 1..Len(gs) : c \in Y(k)
      /\ \A j, k \in 1..Len(gs) : Y(j) \cap Y(k) # {} => j = k
  BY DEF Shares
<1>6. \A k \in 1..Len(gs) : k + 1 \in 1..Len(all) /\ X(k + 1) = Y(k)
  BY <1>1, <1>2
<1>7. 1 \in 1..Len(all) /\ F \subseteq S
  BY <1>1, <1>2
<1> HIDE DEF X, Y, F
<1>8. \A k \in 1..Len(all) : X(k) \subseteq S
  BY <1>4, <1>5, <1>7
<1>9. ASSUME NEW c \in S PROVE \E k \in 1..Len(all) : c \in X(k)
  <2>1. CASE c \in F
    BY <1>4, <1>7, <2>1
  <2>2. CASE c \notin F
    BY <1>5, <1>6, <2>2
  <2> QED
    BY <2>1, <2>2
<1>10. ASSUME NEW j \in 1..Len(all), NEW k \in 1..Len(all), X(j) \cap X(k) # {} PROVE j = k
  <2>1. CASE j = 1 /\ k = 1
    BY <2>1
  <2>2. CASE j = 1 /\ k # 1
    BY <1>4, <1>5, <1>10, <2>2
  <2>3. CASE j # 1 /\ k = 1
    BY <1>4, <1>5, <1>10, <2>3
  <2>4. CASE j # 1 /\ k # 1
    <3>1. j - 1 \in 1..Len(gs) /\ k - 1 \in 1..Len(gs) /\ Y(j - 1) \cap Y(k - 1) # {}
      BY <1>4, <1>10, <2>4
    <3>2. j - 1 = k - 1
      BY <1>5, <3>1
    <3> QED
      BY <1>1, <1>2, <3>2
  <2> QED
    BY <2>1, <2>2, <2>3, <2>4
<1> QED
  BY <1>2, <1>8, <1>9, <1>10 DEF Shares, X, all

\* getSourceDataGroups puts each connection in one group.
LEMMA SplitIs ==
  ASSUME NEW n, NEW with, NEW without, Into(with \cup without, n)
  PROVE  Shares(SplitIntoGroups(with, without), with \cup without)
<1> DEFINE all == with \cup without
           G == [S \in SUBSET all |-> FirstGroup(with \cap S, without \cap S)]
           T == [S \in SUBSET all |-> ToSet(G[S].conns)]
           Is(u) == TakenApart(u, all, G, T)
           split == CHOOSE u : u = [left \in SUBSET all |->
                      LET group == FirstGroup(with \cap left, without \cap left)
                      IN  IF left = {} THEN <<>> ELSE <<group>> \o u[left \ ToSet(group.conns)]]
<1>1. IsFiniteSet(all) /\ \A c \in all : c \in Conns /\ Main(c) /\ c.to = n
  BY DEF Into
<1>2. ASSUME NEW S \in SUBSET all, S # {}
      PROVE  G[S] \in Groups /\ T[S] \subseteq S /\ T[S] # {}
  <2>1. (with \cap S) \cup (without \cap S) = S
    OBVIOUS
  <2>2. Into(S, n)
    BY <1>1, <1>2, FS_Subset DEF Into
  <2>3. G[S] = FirstGroup(with \cap S, without \cap S) /\ T[S] = ToSet(G[S].conns)
    OBVIOUS
  <2> HIDE DEF G, T
  <2>4. /\ G[S].conns \in Seq(S) /\ ToSet(G[S].conns) # {} /\ G[S].complete \in BOOLEAN
    <3> DEFINE w == with \cap S
               o == without \cap S
    <3>1. w \cup o = S /\ G[S] = FirstGroup(w, o)
      BY <2>1, <2>3
    <3> HIDE DEF w, o
    <3>2. Into(w \cup o, n) /\ w \cup o # {}
      BY <1>2, <2>2, <3>1
    <3>3. /\ FirstGroup(w, o).conns \in Seq(w \cup o) /\ ToSet(FirstGroup(w, o).conns) # {}
          /\ FirstGroup(w, o).complete \in BOOLEAN
      BY <3>2, FirstGroupIs
    <3> QED
      BY <3>1, <3>3
  <2>5. ToSet(G[S].conns) \subseteq S
    BY <2>4, ToSetIs
  <2>6. G[S].conns \in Seq(Conns)
    <3>1. S \subseteq Conns
      BY <1>1
    <3> QED
      BY <2>4, <3>1
  <2>7. G[S] = [complete |-> G[S].complete, conns |-> G[S].conns]
    BY <2>3 DEF FirstGroup
  <2> QED
    BY <2>3, <2>4, <2>5, <2>6, <2>7 DEF Groups
<1>3. \E u : Is(u)
  <2>1. TakesSome(all, T)
    <3> HIDE DEF T, G, all
    <3> QED
      BY <1>2 DEF TakesSome
  <2> HIDE DEF T, G, all
  <2> QED
    BY <1>1, <2>1, TakingEnds
<1>4. ASSUME NEW u
      PROVE  Is(u) <=> u = [left \in SUBSET all |->
                      LET group == FirstGroup(with \cap left, without \cap left)
                      IN  IF left = {} THEN <<>> ELSE <<group>> \o u[left \ ToSet(group.conns)]]
  BY DEF TakenApart
<1>5. Is(split)
  <2>1. \E u : u = [left \in SUBSET all |->
                      LET group == FirstGroup(with \cap left, without \cap left)
                      IN  IF left = {} THEN <<>> ELSE <<group>> \o u[left \ ToSet(group.conns)]]
    <3> HIDE DEF Is
    <3> QED
      BY <1>3, <1>4, ZenonT(40)
  <2>2. split = [left \in SUBSET all |->
                      LET group == FirstGroup(with \cap left, without \cap left)
                      IN  IF left = {} THEN <<>> ELSE <<group>> \o split[left \ ToSet(group.conns)]]
    BY <2>1, ZenonT(40)
  <2> HIDE DEF split, Is
  <2> QED
    BY <2>2, <1>4
<1>6. SplitIntoGroups(with, without) = split[all]
  BY DEF SplitIntoGroups
<1>7. ASSUME NEW S \in SUBSET all
      PROVE  split[S] = IF S = {} THEN <<>> ELSE <<G[S]>> \o split[S \ T[S]]
  <2> HIDE DEF split, G, T, all
  <2> QED
    BY <1>5 DEF TakenApart
<1> HIDE DEF Is, split, G
<1>8. \A S \in SUBSET all : S # {} => T[S] = ToSet(G[S].conns)
  OBVIOUS
<1> HIDE DEF T
<1> DEFINE A == {k \in Nat : \A S \in SUBSET all : Cardinality(S) <= k => Shares(split[S], S)}
<1>9. \A S \in SUBSET all : IsFiniteSet(S) /\ Cardinality(S) \in Nat /\ (S = {} <=> Cardinality(S) = 0)
  BY <1>1, FS_Subset, FS_CardinalityType, FS_EmptySet
<1>10. Shares(split[{}], {})
  <2>1. split[{}] = <<>>
    BY <1>7
  <2>2. <<>> \in Seq(Groups) /\ Len(<<>>) = 0
    BY NothingIs
  <2> QED
    BY <2>1, <2>2 DEF Shares
<1>11. 0 \in A
  <2>1. ASSUME NEW S \in SUBSET all, Cardinality(S) <= 0 PROVE S = {}
    BY <1>9, <2>1
  <2> QED
    BY <1>10, <2>1
<1>12. ASSUME NEW k \in Nat, k \in A PROVE k + 1 \in A
  <2>1. ASSUME NEW S \in SUBSET all, Cardinality(S) <= k + 1, S # {} PROVE Shares(split[S], S)
    <3>1. G[S] \in Groups /\ T[S] \subseteq S /\ T[S] # {} /\ T[S] = ToSet(G[S].conns)
      BY <1>2, <1>8, <2>1
    <3>2. PICK x \in S : x \in T[S]
      BY <3>1
    <3>3. IsFiniteSet(S \ {x}) /\ Cardinality(S \ {x}) = Cardinality(S) - 1
      BY <1>9, <3>2, FS_RemoveElement
    <3>4. S \ T[S] \in SUBSET (S \ {x}) /\ S \ T[S] \in SUBSET all
      BY <3>2
    <3>5. Cardinality(S \ T[S]) <= Cardinality(S \ {x})
      BY <3>3, <3>4, FS_Subset
    <3>6. Cardinality(S \ T[S]) <= k
      BY <1>9, <2>1, <3>3, <3>4, <3>5
    <3>7. Shares(split[S \ T[S]], S \ T[S])
      BY <1>12, <3>4, <3>6
    <3>8. split[S] = <<G[S]>> \o split[S \ T[S]]
      BY <1>7, <2>1
    <3> QED
      BY <3>1, <3>7, <3>8, SharesOneMore
  <2> QED
    BY <1>10, <2>1
<1>13. Nat \subseteq A
  <2> HIDE DEF A
  <2> QED
    BY <1>11, <1>12, NatSetInduction
<1>14. all \in SUBSET all /\ Cardinality(all) \in Nat /\ Cardinality(all) <= Cardinality(all)
  BY <1>9
<1>15. Shares(split[all], all)
  <2>1. Cardinality(all) \in A
    <3> HIDE DEF A, all
    <3> QED
      BY <1>13, <1>14
  <2> HIDE DEF all
  <2> QED
    BY <1>14, <2>1
<1> QED
  BY <1>6, <1>15

\* The data of earlier runs.
Kept(data) == \A n \in DOMAIN data : data[n] \in Seq(SUBSET Nat) /\ data[n] # <<>>

LEMMA FirstRunIs ==
  ASSUME NEW data, Kept(data), NEW n, NEW out
  PROVE  FirstRun(data, n, out) \in Nat /\ (FirstRun(data, n, out) > 0 => n \in DOMAIN data)
<1>1. CASE n \notin DOMAIN data
  <2>1. FirstRun(data, n, out) = 0
    BY <1>1 DEF FirstRun
  <2> QED
    BY <2>1
<1>2. CASE n \in DOMAIN data
  <2> DEFINE I == {i \in 1..Len(data[n]) : out \in data[n][i]}
  <2>1. Len(data[n]) \in Nat
    BY <1>2 DEF Kept
  <2>2. I \in SUBSET Nat
    BY <2>1
  <2>3. FirstRun(data, n, out) = IF I # {} THEN Min(I) ELSE 0
    BY <1>2 DEF FirstRun, SelectInSeq
  <2>4. I # {} => Min(I) \in I
    BY <2>2, MinIs
  <2> HIDE DEF I
  <2>5. CASE I = {}
    BY <1>2, <2>3, <2>5
  <2>6. CASE I # {}
    <3>1. Min(I) \in Nat
      BY <2>2, <2>4, <2>6
    <3>2. FirstRun(data, n, out) = Min(I)
      BY <2>3, <2>6
    <3> QED
      BY <1>2, <3>1, <3>2
  <2> QED
    BY <2>5, <2>6
<1> QED
  BY <1>1, <1>2

ItemSources == [from : Nat \cup {None}, out : Nat, run : Nat]

LEMMA ItemsIs ==
  ASSUME NEW data, Kept(data), NEW pinned, NEW c \in Conns
  PROVE  Items(c, data, pinned) \in Seq(ItemSources)
<1>1. FirstRun(data, c.from, c.out) \in Nat
  BY FirstRunIs
<1>2. <<>> \in Seq(ItemSources)
  BY NothingIs
<1> DEFINE run == IF c.from \in pinned THEN 0 ELSE FirstRun(data, c.from, c.out)
           item == [from |-> c.from, out |-> c.out, run |-> run]
<1>3. item \in ItemSources
  BY <1>1 DEF ItemSources, Conns
<1>4. <<item>> \in Seq(ItemSources)
  <2> HIDE DEF item
  <2> QED
    BY <1>3
<1> QED
  BY <1>2, <1>4 DEF Items
\* The connections of sub-nodes into N are of nodes without data.
SubsHaveNone(g, N, data, pinned) ==
  \A c \in ToSet(g.conns) : c.to \in N /\ ~Main(c) => c.from \notin DOMAIN data /\ c.from \notin pinned

Entries == [node : Nat, source : Seq(Conns), data : Seq(ItemSources)]

Waits == [node : Nat, source : Seq(Conns)]

\* The positions of es, a sequence of such, whose sources have c.
Sourced(es, c) == {i \in 1..Len(es) : c \in ToSet(es[i].source)}

\* c is a source of at most one of es and ws; of one, for the nodes N, when an
\* earlier run left items for it.
UsedOnce(es, ws, c, N, data) ==
  /\ \A i, j \in Sourced(es, c) : i = j
  /\ \A i, j \in Sourced(ws, c) : i = j
  /\ Sourced(es, c) = {} \/ Sourced(ws, c) = {}
  /\ Sourced(es, c) # {} \/ Sourced(ws, c) # {} => c.to \in N /\ Main(c)
  /\ c.to \in N /\ Main(c) /\ FirstRun(data, c.from, c.out) > 0
       => Sourced(es, c) # {} \/ Sourced(ws, c) # {}

LEMMA GraphIs ==
  ASSUME NEW g \in DirectedGraphs
  PROVE  /\ g.nodes \in Seq(Nat) /\ g.conns \in Seq(Conns)
         /\ Nodes(g) \subseteq Nat /\ IsFiniteSet(Nodes(g))
         /\ ToSet(g.conns) \subseteq Conns /\ IsFiniteSet(ToSet(g.conns))
<1>1. g.nodes \in Seq(Nat) /\ g.conns \in Seq(Conns)
  BY DEF DirectedGraphs
<1> QED
  BY <1>1, ToSetIs, ToSetFinite DEF Nodes

\* Connections of type main into n, all that have items of an earlier run among
\* them.
Inputs(all, g, n, data) ==
  /\ \A c \in all : c \in ToSet(g.conns) /\ c.to = n /\ Main(c)
  /\ \A c \in ToSet(g.conns) :
       c.to = n /\ Main(c) /\ FirstRun(data, c.from, c.out) > 0 => c \in all

\* The groups of a start node share such connections out.
LEMMA GroupsAre ==
  ASSUME NEW g \in DirectedGraphs, NEW n, NEW data, Kept(data), NEW pinned,
         SubsHaveNone(g, {n}, data, pinned)
  PROVE  \E all : Shares(SourceDataGroups(g, n, data, pinned), all) /\ Inputs(all, g, n, data)
<1> DEFINE conns   == {c \in ToSet(g.conns) : c.to = n}
           with    == {c \in conns : ~IsDirty(c.from, data, pinned)}
           without == {c \in conns \ with : Main(c)}
           all     == with \cup without
<1>1. ToSet(g.conns) \subseteq Conns /\ IsFiniteSet(ToSet(g.conns))
  BY GraphIs
<1>2. \A c \in all : c \in ToSet(g.conns) /\ c.to = n /\ Main(c)
  <2>1. \A c \in with : Main(c)
    BY DEF IsDirty, SubsHaveNone
  <2> QED
    BY <2>1
<1>3. IsFiniteSet(all)
  <2>1. all \in SUBSET ToSet(g.conns)
    OBVIOUS
  <2> HIDE DEF all
  <2> QED
    BY <1>1, <2>1, FS_Subset
<1>4. SourceDataGroups(g, n, data, pinned) = SplitIntoGroups(with, without)
  BY DEF SourceDataGroups
<1>5. ASSUME NEW c \in ToSet(g.conns), c.to = n, Main(c), FirstRun(data, c.from, c.out) > 0
      PROVE  c \in all
  <2>1. c.from \in DOMAIN data
    BY <1>5, FirstRunIs
  <2> QED
    BY <1>5, <2>1 DEF IsDirty
<1>6. Into(with \cup without, n)
  <2> HIDE DEF with, without
  <2> QED
    BY <1>1, <1>2, <1>3 DEF Into
<1> HIDE DEF with, without
<1>7. Shares(SplitIntoGroups(with, without), with \cup without)
  BY <1>6, SplitIs
<1>8. Shares(SourceDataGroups(g, n, data, pinned), all)
  BY <1>4, <1>7
<1> HIDE DEF all
<1>9. Inputs(all, g, n, data)
  BY <1>2, <1>5 DEF Inputs
<1> QED
  BY <1>8, <1>9

\* The complete groups of a start node, and those with items of a run.
CompleteOf(groups) == Only(groups, {group \in ToSet(groups) : group.complete})

RanOf(conns, data) == Only(conns, {c \in ToSet(conns) : FirstRun(data, c.from, c.out) > 0})

PartOf(groups, data) ==
  Only(groups, {group \in ToSet(groups) : ~group.complete /\ RanOf(group.conns, data) # <<>>})

LEMMA EntriesAre ==
  ASSUME NEW g \in DirectedGraphs, NEW n \in Nat, NEW data, Kept(data), NEW pinned,
         SubsHaveNone(g, {n}, data, pinned)
  PROVE  EntriesOf(g, n, data, pinned) \in Seq(Entries)
<1>1. PICK all : Shares(SourceDataGroups(g, n, data, pinned), all)
  BY GroupsAre
<1> DEFINE groups   == SourceDataGroups(g, n, data, pinned)
           complete == CompleteOf(groups)
           Entry(conns) == [node |-> n, source |-> conns,
                            data |-> FlattenSeq([i \in DOMAIN conns |->
                                                   Items(conns[i], data, pinned)])]
<1>2. groups \in Seq(Groups)
  BY <1>1 DEF Shares
<1>3. complete \in Seq(Groups)
  <2> HIDE DEF groups
  <2> QED
    BY <1>2, OnlyIs DEF CompleteOf
<1>4. ASSUME NEW conns \in Seq(Conns) PROVE Entry(conns) \in Entries
  <2> DEFINE items == [i \in DOMAIN conns |-> Items(conns[i], data, pinned)]
  <2>1. \A i \in 1..Len(conns) : items[i] \in Seq(ItemSources)
    BY ItemsIs
  <2>2. items \in Seq(Seq(ItemSources))
    <3>1. items = [i \in 1..Len(conns) |-> items[i]] /\ Len(conns) \in Nat
      OBVIOUS
    <3> HIDE DEF items
    <3> QED
      BY <2>1, <3>1
  <2> HIDE DEF items
  <2>3. FlattenSeq(items) \in Seq(ItemSources)
    BY <2>2, FlattenIs
  <2> QED
    BY <2>3 DEF Entries, items
<1>5. NoParents(g, n) \/
        EntriesOf(g, n, data, pinned) = [i \in DOMAIN complete |-> Entry(complete[i].conns)]
  BY DEF EntriesOf, CompleteOf
<1> HIDE DEF Entry
<1>6. [i \in DOMAIN complete |-> Entry(complete[i].conns)] \in Seq(Entries)
  <2> HIDE DEF complete
  <2> DEFINE es == [i \in DOMAIN complete |-> Entry(complete[i].conns)]
  <2>1. DOMAIN complete = 1..Len(complete) /\ Len(complete) \in Nat
    BY <1>3
  <2>2. \A i \in 1..Len(complete) : complete[i].conns \in Seq(Conns)
    <3>1. \A i \in 1..Len(complete) : complete[i] \in Groups
      BY <1>3, ToSetIs
    <3> QED
      BY <3>1 DEF Groups
  <2>3. \A i \in 1..Len(complete) : es[i] \in Entries
    BY <1>4, <2>1, <2>2
  <2>4. es = [i \in 1..Len(complete) |-> es[i]]
    BY <2>1
  <2> HIDE DEF es
  <2>5. es \in Seq(Entries)
    BY <2>1, <2>3, <2>4
  <2> QED
    BY <2>5 DEF es
<1>7. NoParents(g, n) => EntriesOf(g, n, data, pinned) \in Seq(Entries)
  <2> DEFINE e == [node |-> n, source |-> <<>>, data |-> <<EmptyItem>>]
  <2>1. EmptyItem \in ItemSources
    BY DEF EmptyItem, ItemSources
  <2>2. <<EmptyItem>> \in Seq(ItemSources) /\ <<>> \in Seq(Conns)
    BY <2>1, NothingIs
  <2>3. e \in Entries
    BY <2>2 DEF Entries
  <2>4. NoParents(g, n) => EntriesOf(g, n, data, pinned) = <<e>>
    BY DEF EntriesOf
  <2> HIDE DEF e
  <2>5. <<e>> \in Seq(Entries)
    BY <2>3
  <2> QED
    BY <2>4, <2>5
<1> QED
  BY <1>5, <1>6, <1>7

LEMMA WaitsAre ==
  ASSUME NEW g \in DirectedGraphs, NEW n \in Nat, NEW data, Kept(data), NEW pinned,
         SubsHaveNone(g, {n}, data, pinned)
  PROVE  WaitingOf(g, n, data, pinned) \in Seq(Waits)
<1>1. PICK all : Shares(SourceDataGroups(g, n, data, pinned), all)
  BY GroupsAre
<1> DEFINE groups == SourceDataGroups(g, n, data, pinned)
           part   == PartOf(groups, data)
           Wait(conns) == [node |-> n, source |-> RanOf(conns, data)]
<1>2. groups \in Seq(Groups)
  BY <1>1 DEF Shares
<1>3. part \in Seq(Groups)
  <2> HIDE DEF groups
  <2> QED
    BY <1>2, OnlyIs DEF PartOf
<1>4. ASSUME NEW conns \in Seq(Conns) PROVE Wait(conns) \in Waits
  BY OnlyIs DEF Waits, RanOf
<1>5. WaitingOf(g, n, data, pinned) =
        IF NoParents(g, n) THEN <<>> ELSE [i \in DOMAIN part |-> Wait(part[i].conns)]
  BY DEF WaitingOf, PartOf, RanOf
<1> HIDE DEF Wait
<1>6. [i \in DOMAIN part |-> Wait(part[i].conns)] \in Seq(Waits)
  <2> HIDE DEF part
  <2> DEFINE ws == [i \in DOMAIN part |-> Wait(part[i].conns)]
  <2>1. DOMAIN part = 1..Len(part) /\ Len(part) \in Nat
    BY <1>3
  <2>2. \A i \in 1..Len(part) : part[i].conns \in Seq(Conns)
    <3>1. \A i \in 1..Len(part) : part[i] \in Groups
      BY <1>3, ToSetIs
    <3> QED
      BY <3>1 DEF Groups
  <2>3. \A i \in 1..Len(part) : ws[i] \in Waits
    BY <1>4, <2>1, <2>2
  <2>4. ws = [i \in 1..Len(part) |-> ws[i]]
    BY <2>1
  <2> HIDE DEF ws
  <2>5. ws \in Seq(Waits)
    BY <2>1, <2>3, <2>4
  <2> QED
    BY <2>5 DEF ws
<1>7. <<>> \in Seq(Waits)
  BY NothingIs
<1> QED
  BY <1>5, <1>6, <1>7
LEMMA EntrySources ==
  ASSUME NEW g, NEW n, NEW data, NEW pinned, ~NoParents(g, n)
  PROVE  LET groups   == SourceDataGroups(g, n, data, pinned)
             complete == CompleteOf(groups)
             part     == PartOf(groups, data)
             es       == EntriesOf(g, n, data, pinned)
             ws       == WaitingOf(g, n, data, pinned)
         IN  /\ DOMAIN es = DOMAIN complete
             /\ \A i \in DOMAIN complete : es[i].source = complete[i].conns
             /\ DOMAIN ws = DOMAIN part
             /\ \A i \in DOMAIN part : ws[i].source = RanOf(part[i].conns, data)
BY DEF EntriesOf, WaitingOf, CompleteOf, PartOf, RanOf

\* A start node uses the items that wait for it once.
LEMMA NodeUsesOnce ==
  ASSUME NEW g \in DirectedGraphs, NEW n \in Nat, NEW data, Kept(data), NEW pinned,
         SubsHaveNone(g, {n}, data, pinned), NEW c \in ToSet(g.conns)
  PROVE  UsedOnce(EntriesOf(g, n, data, pinned), WaitingOf(g, n, data, pinned), c, {n}, data)
<1> DEFINE es == EntriesOf(g, n, data, pinned)
           ws == WaitingOf(g, n, data, pinned)
<1>1. CASE NoParents(g, n)
  <2>1. es = <<[node |-> n, source |-> <<>>, data |-> <<EmptyItem>>]>> /\ ws = <<>>
    BY <1>1 DEF EntriesOf, WaitingOf
  <2>2. Len(es) = 1 /\ es[1].source = <<>> /\ Len(ws) = 0
    BY <2>1
  <2> HIDE DEF es, ws
  <2>3. ToSet(<<>>) = {}
    BY NothingIs
  <2>4. Sourced(es, c) = {}
    BY <2>2, <2>3 DEF Sourced
  <2>5. Sourced(ws, c) = {}
    BY <2>2 DEF Sourced
  <2>6. ~(c.to = n /\ Main(c))
    BY <1>1 DEF NoParents
  <2> QED
    BY <2>4, <2>5, <2>6 DEF UsedOnce, es, ws
<1>2. CASE ~NoParents(g, n)
  <2> DEFINE groups   == SourceDataGroups(g, n, data, pinned)
             complete == CompleteOf(groups)
             part     == PartOf(groups, data)
             In(k)    == c \in ToSet(groups[k].conns)
             ran      == FirstRun(data, c.from, c.out) > 0
  <2>1. PICK all : Shares(groups, all) /\ Inputs(all, g, n, data)
    BY GroupsAre
  <2>2. es \in Seq(Entries) /\ ws \in Seq(Waits)
    BY EntriesAre, WaitsAre
  <2>3. /\ DOMAIN es = DOMAIN complete /\ DOMAIN ws = DOMAIN part
        /\ \A i \in DOMAIN complete : es[i].source = complete[i].conns
        /\ \A i \in DOMAIN part : ws[i].source = RanOf(part[i].conns, data)
    BY <1>2, EntrySources
  <2> HIDE DEF es, ws, groups
  <2>4. groups \in Seq(Groups) /\ Len(groups) \in Nat
    BY <2>1 DEF Shares
  <2>5. \A k \in 1..Len(groups) : groups[k] \in ToSet(groups) /\ groups[k].conns \in Seq(Conns)
    <3>1. \A k \in 1..Len(groups) : groups[k] \in ToSet(groups) /\ groups[k] \in Groups
      BY <2>4, ToSetIs
    <3> QED
      BY <3>1 DEF Groups
  <2>6. /\ complete \in Seq(Groups)
        /\ ToSet(complete) = {group \in ToSet(groups) : group.complete}
        /\ \E h : Picks(h, complete, groups)
    <3> DEFINE S == {group \in ToSet(groups) : group.complete}
    <3>1. complete = Only(groups, S)
      BY DEF CompleteOf
    <3>2. S \subseteq ToSet(groups)
      OBVIOUS
    <3> HIDE DEF S, complete
    <3>3. /\ complete \in Seq(Groups)
          /\ ToSet(complete) = ToSet(groups) \cap S
          /\ \E h : Picks(h, complete, groups)
      BY <2>4, <3>1, OnlyIs
    <3>4. ToSet(complete) = S
      BY <3>2, <3>3
    <3> QED
      BY <3>3, <3>4 DEF S
  <2>7. /\ part \in Seq(Groups)
        /\ ToSet(part) = {group \in ToSet(groups) :
                            ~group.complete /\ RanOf(group.conns, data) # <<>>}
        /\ \E h : Picks(h, part, groups)
    <3> DEFINE S == {group \in ToSet(groups) :
                       ~group.complete /\ RanOf(group.conns, data) # <<>>}
    <3>1. part = Only(groups, S)
      BY DEF PartOf
    <3>2. S \subseteq ToSet(groups)
      OBVIOUS
    <3> HIDE DEF S, part
    <3>3. /\ part \in Seq(Groups)
          /\ ToSet(part) = ToSet(groups) \cap S
          /\ \E h : Picks(h, part, groups)
      BY <2>4, <3>1, OnlyIs
    <3>4. ToSet(part) = S
      BY <3>2, <3>3
    <3> QED
      BY <3>3, <3>4 DEF S
  <2> HIDE DEF complete, part
  <2>8. PICK h : Picks(h, complete, groups)
    BY <2>6
  <2>9. PICK j : Picks(j, part, groups)
    BY <2>7
  <2>10. DOMAIN es = 1..Len(es) /\ DOMAIN ws = 1..Len(ws)
         /\ DOMAIN complete = 1..Len(complete) /\ DOMAIN part = 1..Len(part)
    BY <2>2, <2>6, <2>7
  <2>11. /\ 1..Len(es) = 1..Len(complete) /\ 1..Len(ws) = 1..Len(part)
    BY <2>3, <2>10, ZenonT(40)
  <2>12. ASSUME NEW p \in Sourced(es, c)
         PROVE  p \in 1..Len(complete) /\ h[p] \in 1..Len(groups) /\ In(h[p]) /\ groups[h[p]].complete
    <3>1. p \in 1..Len(complete) /\ c \in ToSet(es[p].source)
      BY <2>11 DEF Sourced
    <3>2. es[p].source = complete[p].conns /\ complete[p] = groups[h[p]] /\ h[p] \in 1..Len(groups)
      BY <2>3, <2>8, <2>10, <3>1 DEF Picks
    <3>3. complete[p] \in ToSet(complete)
      BY <2>6, <3>1, ToSetIs
    <3> QED
      BY <2>6, <3>1, <3>2, <3>3
  <2>13. ASSUME NEW p \in 1..Len(groups) PROVE
           LET r == RanOf(groups[p].conns, data) IN
           /\ c \in ToSet(r) <=> In(p) /\ ran
           /\ r # <<>> <=> ToSet(r) # {}
    <3> DEFINE conns == groups[p].conns
               S == {d \in ToSet(conns) : FirstRun(data, d.from, d.out) > 0}
               r == RanOf(conns, data)
    <3>1. conns \in Seq(Conns)
      BY <2>5
    <3>2. r = Only(conns, S)
      BY DEF RanOf
    <3>3. c \in S <=> In(p) /\ ran
      OBVIOUS
    <3>4. c \in S => c \in ToSet(conns)
      OBVIOUS
    <3> HIDE DEF S, r, conns
    <3>5. r \in Seq(Conns) /\ ToSet(r) = ToSet(conns) \cap S
      BY <3>1, <3>2, OnlyIs
    <3>6. r # <<>> <=> ToSet(r) # {}
      BY <3>5, NothingIs
    <3>7. c \in ToSet(r) <=> In(p) /\ ran
      <4> HIDE DEF In, ran
      <4> QED
        BY <3>3, <3>4, <3>5
    <3> QED
      BY <3>6, <3>7 DEF r, conns
  <2>14. ASSUME NEW p \in Sourced(ws, c)
         PROVE  /\ p \in 1..Len(part) /\ j[p] \in 1..Len(groups) /\ In(j[p])
                /\ ~groups[j[p]].complete /\ ran
    <3>1. p \in 1..Len(part) /\ c \in ToSet(ws[p].source)
      BY <2>11 DEF Sourced
    <3>2. /\ ws[p].source = RanOf(part[p].conns, data) /\ part[p] = groups[j[p]]
          /\ j[p] \in 1..Len(groups)
      BY <2>3, <2>9, <2>10, <3>1 DEF Picks
    <3>3. part[p] \in ToSet(part)
      BY <2>7, <3>1, ToSetIs
    <3> QED
      BY <2>7, <2>13, <3>1, <3>2, <3>3
  <2>15. \A p, q \in 1..Len(groups) : In(p) /\ In(q) => p = q
    BY <2>1 DEF Shares
  <2>16. \A p \in 1..Len(groups) : In(p) => c \in all
    BY <2>1 DEF Shares
  <2> HIDE DEF In, ran
  <2>17. \A p, q \in Sourced(es, c) : p = q
    BY <2>8, <2>12, <2>15 DEF Picks
  <2>18. \A p, q \in Sourced(ws, c) : p = q
    BY <2>9, <2>14, <2>15 DEF Picks
  <2>19. Sourced(es, c) = {} \/ Sourced(ws, c) = {}
    BY <2>12, <2>14, <2>15
  <2>20. Sourced(es, c) # {} \/ Sourced(ws, c) # {} => c.to = n /\ Main(c)
    BY <2>1, <2>12, <2>14, <2>16 DEF Inputs
  <2>21. ASSUME c.to = n, Main(c), ran PROVE Sourced(es, c) # {} \/ Sourced(ws, c) # {}
    <3>1. c \in all
      BY <2>1, <2>21 DEF ran, Inputs
    <3>2. PICK k \in 1..Len(groups) : In(k)
      BY <2>1, <3>1 DEF Shares, In
    <3>3. CASE groups[k].complete
      <4>1. groups[k] \in ToSet(complete)
        BY <2>5, <2>6, <3>2, <3>3
      <4>2. PICK p \in 1..Len(complete) : complete[p] = groups[k]
        <5>1. ToSet(complete) = {complete[p] : p \in 1..Len(complete)}
          BY <2>6, ToSetIs, SMTT(30)
        <5> QED
          BY <4>1, <5>1
      <4>3. p \in 1..Len(es) /\ es[p].source = groups[k].conns
        BY <2>3, <2>10, <2>11, <4>2, ZenonT(40)
      <4> QED
        BY <3>2, <4>3 DEF Sourced, In
    <3>4. CASE ~groups[k].complete
      <4>1. c \in ToSet(RanOf(groups[k].conns, data)) /\ RanOf(groups[k].conns, data) # <<>>
        BY <2>13, <2>21, <3>2
      <4>2. groups[k] \in ToSet(part)
        BY <2>5, <2>7, <3>2, <3>4, <4>1
      <4>3. PICK p \in 1..Len(part) : part[p] = groups[k]
        <5>1. ToSet(part) = {part[p] : p \in 1..Len(part)}
          BY <2>7, ToSetIs, SMTT(30)
        <5> QED
          BY <4>2, <5>1
      <4>4. p \in 1..Len(ws) /\ ws[p].source = RanOf(groups[k].conns, data)
        BY <2>3, <2>10, <2>11, <4>3, ZenonT(40)
      <4> QED
        BY <4>1, <4>4 DEF Sourced
    <3> QED
      BY <3>3, <3>4
  <2> QED
    BY <2>17, <2>18, <2>19, <2>20, <2>21 DEF UsedOnce, es, ws, ran
<1> QED
  BY <1>1, <1>2
\* a and b say where those of f whose sources have c stand in ss.
Gathers(a, b, f, ss, c) ==
  /\ \A p \in Sourced(f, c) : a[p] \in 1..Len(ss) /\ b[p] \in Sourced(ss[a[p]], c)
  /\ \A p, q \in Sourced(f, c) : a[p] = a[q] /\ b[p] = b[q] => p = q
  /\ \A k \in 1..Len(ss) : Sourced(ss[k], c) # {} => Sourced(f, c) # {}

LEMMA FlattenGathers ==
  ASSUME NEW E, NEW ss \in Seq(Seq(E)), NEW c
  PROVE  \E a, b : Gathers(a, b, FlattenSeq(ss), ss, c)
<1> DEFINE f == FlattenSeq(ss)
<1>1. \E a, b : Flattens(a, b, f, ss, Len(ss))
  BY FlattenIs
<1> HIDE DEF f
<1>2. PICK a, b : Flattens(a, b, f, ss, Len(ss))
  BY <1>1
<1>3. ASSUME NEW p \in Sourced(f, c) PROVE a[p] \in 1..Len(ss) /\ b[p] \in Sourced(ss[a[p]], c)
  <2>1. p \in 1..Len(f) /\ c \in ToSet(f[p].source)
    BY DEF Sourced
  <2>2. a[p] \in 1..Len(ss) /\ b[p] \in 1..Len(ss[a[p]]) /\ f[p] = ss[a[p]][b[p]]
    BY <1>2, <2>1 DEF Flattens
  <2> QED
    BY <2>1, <2>2 DEF Sourced
<1>4. \A p, q \in Sourced(f, c) : a[p] = a[q] /\ b[p] = b[q] => p = q
  BY <1>2 DEF Flattens, Sourced
<1>5. ASSUME NEW k \in 1..Len(ss), Sourced(ss[k], c) # {} PROVE Sourced(f, c) # {}
  <2>1. PICK i \in 1..Len(ss[k]) : c \in ToSet(ss[k][i].source)
    BY <1>5 DEF Sourced
  <2>2. PICK p \in 1..Len(f) : a[p] = k /\ b[p] = i
    BY <1>2, <2>1 DEF Flattens
  <2>3. f[p] = ss[k][i]
    BY <1>2, <2>2 DEF Flattens
  <2> QED
    BY <2>1, <2>2, <2>3 DEF Sourced
<1>6. Gathers(a, b, f, ss, c)
  BY <1>3, <1>4, <1>5 DEF Gathers
<1> QED
  BY <1>6 DEF f

\* What recreateNodeExecutionStack makes.
EntriesByNode(g, starts, data, pinned) ==
  [k \in DOMAIN starts |-> EntriesOf(g, starts[k], data, pinned)]

WaitingByNode(g, starts, data, pinned) ==
  [k \in DOMAIN starts |-> WaitingOf(g, starts[k], data, pinned)]

LEMMA FunctionIsSeq ==
  ASSUME NEW E, NEW n \in Nat, NEW f \in [1..n -> E]
  PROVE  f \in Seq(E) /\ Len(f) = n
OBVIOUS

LEMMA StackIs ==
  ASSUME NEW g \in DirectedGraphs, NEW starts \in Seq(Nat), NEW data, Kept(data), NEW pinned,
         SubsHaveNone(g, ToSet(starts), data, pinned)
  PROVE  LET made == RecreateNodeExecutionStack(g, starts, data, pinned)
             es   == EntriesByNode(g, starts, data, pinned)
             ws   == WaitingByNode(g, starts, data, pinned)
         IN  /\ made.stack = FlattenSeq(es) /\ made.waiting = FlattenSeq(ws)
             /\ es \in Seq(Seq(Entries)) /\ ws \in Seq(Seq(Waits))
             /\ Len(es) = Len(starts) /\ Len(ws) = Len(starts)
             /\ made.stack \in Seq(Entries) /\ made.waiting \in Seq(Waits)
<1> DEFINE made == RecreateNodeExecutionStack(g, starts, data, pinned)
           es   == EntriesByNode(g, starts, data, pinned)
           ws   == WaitingByNode(g, starts, data, pinned)
<1>1. made.stack = FlattenSeq(es) /\ made.waiting = FlattenSeq(ws)
  BY DEF RecreateNodeExecutionStack, EntriesByNode, WaitingByNode
<1>2. DOMAIN starts = 1..Len(starts) /\ Len(starts) \in Nat
      /\ \A k \in 1..Len(starts) : starts[k] \in Nat /\ starts[k] \in ToSet(starts)
  BY ToSetIs
<1>3. ASSUME NEW k \in 1..Len(starts) PROVE es[k] \in Seq(Entries) /\ ws[k] \in Seq(Waits)
  <2>1. SubsHaveNone(g, {starts[k]}, data, pinned) /\ starts[k] \in Nat
    BY <1>2 DEF SubsHaveNone
  <2>2. /\ es[k] = EntriesOf(g, starts[k], data, pinned)
        /\ ws[k] = WaitingOf(g, starts[k], data, pinned)
    BY <1>2 DEF EntriesByNode, WaitingByNode
  <2> HIDE DEF es, ws
  <2> QED
    BY <2>1, <2>2, EntriesAre, WaitsAre
<1>4. es = [k \in 1..Len(starts) |-> es[k]] /\ ws = [k \in 1..Len(starts) |-> ws[k]]
  BY <1>2 DEF EntriesByNode, WaitingByNode
<1> HIDE DEF es, ws
<1>5. es \in [1..Len(starts) -> Seq(Entries)] /\ ws \in [1..Len(starts) -> Seq(Waits)]
  BY <1>3, <1>4
<1>6. /\ es \in Seq(Seq(Entries)) /\ ws \in Seq(Seq(Waits))
      /\ Len(es) = Len(starts) /\ Len(ws) = Len(starts)
  BY <1>2, <1>5, FunctionIsSeq
<1>7. FlattenSeq(es) \in Seq(Entries) /\ FlattenSeq(ws) \in Seq(Waits)
  BY <1>6, FlattenIs
<1> QED
  BY <1>1, <1>6, <1>7 DEF es, ws

LEMMA NumbersAre ==
  ASSUME NEW s \in Seq(Nat)
  PROVE  /\ DOMAIN s = 1..Len(s) /\ Len(s) \in Nat
         /\ \A k \in 1..Len(s) : s[k] \in Nat /\ s[k] \in ToSet(s)
         /\ \A x \in ToSet(s) : \E k \in 1..Len(s) : x = s[k]
<1>1. DOMAIN s = 1..Len(s) /\ Len(s) \in Nat /\ ToSet(s) = {s[i] : i \in 1..Len(s)}
  BY ToSetIs, ZenonT(40)
<1>2. \A k \in 1..Len(s) : s[k] \in Nat /\ s[k] \in ToSet(s)
  BY ToSetIs
<1> QED
  BY <1>1, <1>2

LEMMA StackUsesOnce ==
  ASSUME NEW g \in DirectedGraphs, NEW starts \in Seq(Nat), IsInjective(starts),
         NEW data, Kept(data), NEW pinned,
         SubsHaveNone(g, ToSet(starts), data, pinned), NEW c \in ToSet(g.conns)
  PROVE  LET made == RecreateNodeExecutionStack(g, starts, data, pinned) IN
         UsedOnce(made.stack, made.waiting, c, ToSet(starts), data)
<1> DEFINE made == RecreateNodeExecutionStack(g, starts, data, pinned)
           es   == EntriesByNode(g, starts, data, pinned)
           ws   == WaitingByNode(g, starts, data, pinned)
           fe   == FlattenSeq(es)
           fw   == FlattenSeq(ws)
           ran  == FirstRun(data, c.from, c.out) > 0
<1>1. /\ made.stack = fe /\ made.waiting = fw
      /\ es \in Seq(Seq(Entries)) /\ ws \in Seq(Seq(Waits))
      /\ Len(es) = Len(starts) /\ Len(ws) = Len(starts)
  BY StackIs
<1>2. /\ DOMAIN starts = 1..Len(starts) /\ Len(starts) \in Nat
      /\ \A k \in 1..Len(starts) : starts[k] \in Nat /\ starts[k] \in ToSet(starts)
      /\ \A x \in ToSet(starts) : \E k \in 1..Len(starts) : x = starts[k]
  BY NumbersAre
<1>3. ASSUME NEW k \in 1..Len(starts) PROVE UsedOnce(es[k], ws[k], c, {starts[k]}, data)
  <2>1. SubsHaveNone(g, {starts[k]}, data, pinned) /\ starts[k] \in Nat
    BY <1>2 DEF SubsHaveNone
  <2>2. /\ es[k] = EntriesOf(g, starts[k], data, pinned)
        /\ ws[k] = WaitingOf(g, starts[k], data, pinned)
    BY <1>2 DEF EntriesByNode, WaitingByNode
  <2> HIDE DEF es, ws
  <2> QED
    BY <2>1, <2>2, NodeUsesOnce
<1> HIDE DEF es, ws
<1>4. (\E a, b : Gathers(a, b, fe, es, c)) /\ (\E a, b : Gathers(a, b, fw, ws, c))
  BY <1>1, FlattenGathers
<1> HIDE DEF fe, fw, made
<1>5. PICK a, b : Gathers(a, b, fe, es, c)
  BY <1>4
<1>6. PICK d, e : Gathers(d, e, fw, ws, c)
  BY <1>4
<1>7. \A j, k \in 1..Len(starts) : starts[j] = starts[k] => j = k
  BY <1>2 DEF IsInjective
<1> HIDE DEF ran
<1>8. ASSUME NEW k \in 1..Len(starts)
      PROVE  /\ \A i, j \in Sourced(es[k], c) : i = j
             /\ \A i, j \in Sourced(ws[k], c) : i = j
             /\ Sourced(es[k], c) = {} \/ Sourced(ws[k], c) = {}
             /\ Sourced(es[k], c) # {} \/ Sourced(ws[k], c) # {} => c.to = starts[k] /\ Main(c)
             /\ c.to = starts[k] /\ Main(c) /\ ran
                  => Sourced(es[k], c) # {} \/ Sourced(ws[k], c) # {}
  BY <1>3 DEF UsedOnce, ran
<1>9. ASSUME NEW p \in Sourced(fe, c)
      PROVE  a[p] \in 1..Len(starts) /\ b[p] \in Sourced(es[a[p]], c) /\ c.to = starts[a[p]] /\ Main(c)
  BY <1>1, <1>5, <1>8 DEF Gathers
<1>10. ASSUME NEW p \in Sourced(fw, c)
       PROVE  d[p] \in 1..Len(starts) /\ e[p] \in Sourced(ws[d[p]], c) /\ c.to = starts[d[p]] /\ Main(c)
  BY <1>1, <1>6, <1>8 DEF Gathers
<1>11. ASSUME NEW p \in Sourced(fe, c), NEW q \in Sourced(fe, c) PROVE p = q
  <2>1. a[p] = a[q]
    BY <1>7, <1>9, SMTT(30)
  <2>2. b[p] = b[q]
    <3>1. a[p] \in 1..Len(starts) /\ b[p] \in Sourced(es[a[p]], c) /\ b[q] \in Sourced(es[a[p]], c)
      BY <1>9, <2>1
    <3> QED
      BY <1>8, <3>1, ZenonT(40)
  <2> QED
    BY <1>5, <2>1, <2>2 DEF Gathers
<1>12. ASSUME NEW p \in Sourced(fw, c), NEW q \in Sourced(fw, c) PROVE p = q
  <2>1. d[p] = d[q]
    BY <1>7, <1>10
  <2>2. e[p] = e[q]
    <3>1. d[p] \in 1..Len(starts) /\ e[p] \in Sourced(ws[d[p]], c) /\ e[q] \in Sourced(ws[d[p]], c)
      BY <1>10, <2>1
    <3> QED
      BY <1>8, <3>1, ZenonT(40)
  <2> QED
    BY <1>6, <2>1, <2>2 DEF Gathers
<1>13. Sourced(fe, c) = {} \/ Sourced(fw, c) = {}
  <2> SUFFICES ASSUME NEW p \in Sourced(fe, c), NEW q \in Sourced(fw, c) PROVE FALSE
    OBVIOUS
  <2>1. a[p] = d[q]
    BY <1>7, <1>9, <1>10
  <2> QED
    BY <1>8, <1>9, <1>10, <2>1
<1>14. Sourced(fe, c) # {} \/ Sourced(fw, c) # {} => c.to \in ToSet(starts) /\ Main(c)
  BY <1>2, <1>9, <1>10
<1>15. ASSUME c.to \in ToSet(starts), Main(c), ran
       PROVE  Sourced(fe, c) # {} \/ Sourced(fw, c) # {}
  <2>1. PICK k \in 1..Len(starts) : c.to = starts[k]
    BY <1>2, <1>15
  <2>2. Sourced(es[k], c) # {} \/ Sourced(ws[k], c) # {}
    BY <1>8, <1>15, <2>1
  <2> QED
    BY <1>1, <1>5, <1>6, <2>2 DEF Gathers
<1>16. UsedOnce(fe, fw, c, ToSet(starts), data)
  BY <1>11, <1>12, <1>13, <1>14, <1>15 DEF UsedOnce, ran
<1> QED
  BY <1>1, <1>16 DEF made

\* Uses counts them.
LEMMA UsesIs ==
  ASSUME NEW es, \/ es \in Seq(Entries) \/ es \in Seq(Waits), NEW c,
         \A i, j \in Sourced(es, c) : i = j
  PROVE  Uses(es, c) = IF Sourced(es, c) = {} THEN 0 ELSE 1
<1>1. DOMAIN es = 1..Len(es) /\ \A i \in 1..Len(es) : es[i].source \in Seq(Conns)
  <2>1. CASE es \in Seq(Entries)
    <3>1. \A i \in 1..Len(es) : es[i] \in Entries
      BY <2>1, ToSetIs
    <3> QED
      BY <2>1, <3>1 DEF Entries
  <2>2. CASE es \in Seq(Waits)
    <3>1. \A i \in 1..Len(es) : es[i] \in Waits
      BY <2>2, ToSetIs
    <3> QED
      BY <2>2, <3>1 DEF Waits
  <2> QED
    BY <2>1, <2>2
<1>2. \A i \in 1..Len(es) : Contains(es[i].source, c) <=> c \in ToSet(es[i].source)
  BY <1>1, ToSetIs
<1>3. Uses(es, c) = Cardinality(Sourced(es, c))
  <2>1. {i \in DOMAIN es : Contains(es[i].source, c)} = Sourced(es, c)
    BY <1>1, <1>2 DEF Sourced
  <2> QED
    BY <2>1 DEF Uses
<1>4. CASE Sourced(es, c) = {}
  BY <1>3, <1>4, FS_EmptySet
<1>5. CASE Sourced(es, c) # {}
  <2>1. PICK i : i \in Sourced(es, c)
    BY <1>5
  <2>2. Sourced(es, c) = {i}
    BY <2>1
  <2> QED
    BY <1>3, <1>5, <2>2, FS_Singleton
<1> QED
  BY <1>4, <1>5

LEMMA NatAddIs ==
  ASSUME NEW s \in Seq(Nat), NEW x \in Nat
  PROVE  /\ Add(s, x) \in Seq(Nat)
         /\ ToSet(Add(s, x)) = ToSet(s) \cup {x}
         /\ IsInjective(s) => IsInjective(Add(s, x))
<1>1. Contains(s, x) <=> x \in ToSet(s)
  BY ToSetIs
<1>2. CASE x \in ToSet(s)
  BY <1>1, <1>2 DEF Add
<1>3. CASE x \notin ToSet(s)
  <2>1. Add(s, x) = Append(s, x)
    BY <1>1, <1>3 DEF Add
  <2>2. /\ Append(s, x) \in Seq(Nat)
        /\ ToSet(Append(s, x)) = ToSet(s) \cup {x}
        /\ IsInjective(s) /\ x \notin ToSet(s) => IsInjective(Append(s, x))
    BY AppendIs
  <2> QED
    BY <1>3, <2>1, <2>2
<1> QED
  BY <1>2, <1>3
-----------------------------------------------------------------------------
(***************************************************************************)
(* Graphs: removing nodes, and the part that leads to the goal             *)
(***************************************************************************)

\* What the sequences of a sequence hold, put after one another.
LEMMA FlattenElements ==
  ASSUME NEW E, NEW ss \in Seq(Seq(E))
  PROVE  /\ FlattenSeq(ss) \in Seq(E)
         /\ \A x : x \in ToSet(FlattenSeq(ss)) <=>
                   \E i \in 1..Len(ss) : \E j \in 1..Len(ss[i]) : x = ss[i][j]
<1> DEFINE f == FlattenSeq(ss)
<1>1. f \in Seq(E) /\ \E a, b : Flattens(a, b, f, ss, Len(ss))
  BY FlattenIs
<1> HIDE DEF f
<1>2. PICK a, b : Flattens(a, b, f, ss, Len(ss))
  BY <1>1
<1>3. ToSet(f) = {f[p] : p \in 1..Len(f)}
  BY <1>1, ToSetIs
<1>4. ASSUME NEW p \in 1..Len(f)
      PROVE  \E i \in 1..Len(ss) : \E j \in 1..Len(ss[i]) : f[p] = ss[i][j]
  BY <1>2, SMTT(30) DEF Flattens
<1>5. ASSUME NEW i \in 1..Len(ss), NEW j \in 1..Len(ss[i]) PROVE \E p \in 1..Len(f) : f[p] = ss[i][j]
  <2>1. PICK p \in 1..Len(f) : a[p] = i /\ b[p] = j
    BY <1>2 DEF Flattens
  <2> QED
    BY <1>2, <2>1 DEF Flattens
<1>6. \A x : x \in ToSet(f) <=> \E i \in 1..Len(ss) : \E j \in 1..Len(ss[i]) : x = ss[i][j]
  <2>1. ASSUME NEW x \in ToSet(f)
        PROVE  \E i \in 1..Len(ss) : \E j \in 1..Len(ss[i]) : x = ss[i][j]
    <3>1. PICK p \in 1..Len(f) : x = f[p]
      BY <1>3
    <3> QED
      BY <1>4, <3>1
  <2>2. ASSUME NEW i \in 1..Len(ss), NEW j \in 1..Len(ss[i]) PROVE ss[i][j] \in ToSet(f)
    <3>1. PICK p \in 1..Len(f) : f[p] = ss[i][j]
      BY <1>5
    <3> QED
      BY <1>3, <3>1
  <2> QED
    BY <2>1, <2>2
<1> QED
  BY <1>1, <1>6 DEF f

MainIn(g, n) == {c \in ToSet(g.conns) : Main(c) /\ c.to = n}

MainOut(g, n) == {c \in ToSet(g.conns) : Main(c) /\ c.from = n}

Joined(c, d) == [c EXCEPT !.to = d.to, !.in = d.in]

LEMMA JoinedIs ==
  ASSUME NEW c \in Conns, NEW d \in Conns
  PROVE  /\ Joined(c, d) \in Conns
         /\ Joined(c, d).from = c.from /\ Joined(c, d).out = c.out /\ Joined(c, d).type = c.type
         /\ Joined(c, d).to = d.to /\ Joined(c, d).in = d.in
BY DEF Joined, Conns

LEMMA BridgesAre ==
  ASSUME NEW g \in DirectedGraphs, NEW n
  PROVE  /\ Bridges(g, n) \in Seq(Conns)
         /\ ToSet(Bridges(g, n)) = {Joined(c, d) : c \in MainIn(g, n), d \in MainOut(g, n)}
<1> DEFINE parents  == Only(g.conns, MainIn(g, n))
           children == Only(g.conns, MainOut(g, n))
           ss == [i \in DOMAIN parents |->
                    [j \in DOMAIN children |-> Joined(parents[i], children[j])]]
<1>1. Bridges(g, n) = FlattenSeq(ss)
  BY DEF Bridges, MainIn, MainOut, Joined
<1>2. g.conns \in Seq(Conns)
  BY GraphIs
<1>3. /\ MainIn(g, n) \subseteq ToSet(g.conns) /\ MainOut(g, n) \subseteq ToSet(g.conns)
      /\ ToSet(g.conns) \subseteq Conns
  BY <1>2, ToSetIs DEF MainIn, MainOut
<1>4. /\ parents \in Seq(Conns) /\ ToSet(parents) = MainIn(g, n)
      /\ children \in Seq(Conns) /\ ToSet(children) = MainOut(g, n)
  <2>1. parents \in Seq(Conns) /\ ToSet(parents) = ToSet(g.conns) \cap MainIn(g, n)
    BY <1>2, OnlyIs
  <2>2. children \in Seq(Conns) /\ ToSet(children) = ToSet(g.conns) \cap MainOut(g, n)
    BY <1>2, OnlyIs
  <2> QED
    BY <1>3, <2>1, <2>2
<1> HIDE DEF parents, children
<1>5. /\ DOMAIN parents = 1..Len(parents) /\ Len(parents) \in Nat
      /\ MainIn(g, n) = {parents[i] : i \in 1..Len(parents)}
  BY <1>4, ToSetIs
<1>6. /\ DOMAIN children = 1..Len(children) /\ Len(children) \in Nat
      /\ MainOut(g, n) = {children[i] : i \in 1..Len(children)}
  BY <1>4, ToSetIs
<1>7. ASSUME NEW i \in 1..Len(parents)
      PROVE  /\ ss[i] \in Seq(Conns) /\ Len(ss[i]) = Len(children)
             /\ \A j \in 1..Len(children) : ss[i][j] = Joined(parents[i], children[j])
  <2> DEFINE row == [j \in 1..Len(children) |-> Joined(parents[i], children[j])]
  <2>1. \A j \in 1..Len(children) : Joined(parents[i], children[j]) \in Conns
    BY <1>3, <1>5, <1>6, JoinedIs
  <2>2. row \in [1..Len(children) -> Conns]
    BY <2>1
  <2>3. ss[i] = row /\ \A j \in 1..Len(children) : row[j] = Joined(parents[i], children[j])
    BY <1>5, <1>6
  <2> HIDE DEF row, ss
  <2> QED
    BY <1>6, <2>2, <2>3, FunctionIsSeq
<1>8. ss = [i \in 1..Len(parents) |-> ss[i]]
  BY <1>5
<1> HIDE DEF ss
<1>9. ss \in Seq(Seq(Conns)) /\ Len(ss) = Len(parents)
  <2>1. ss \in [1..Len(parents) -> Seq(Conns)]
    BY <1>7, <1>8
  <2> QED
    BY <1>5, <2>1, FunctionIsSeq
<1>10. /\ FlattenSeq(ss) \in Seq(Conns)
       /\ \A x : x \in ToSet(FlattenSeq(ss)) <=>
                 \E i \in 1..Len(ss) : \E j \in 1..Len(ss[i]) : x = ss[i][j]
  BY <1>9, FlattenElements
<1>11. ASSUME NEW x
       PROVE  x \in ToSet(FlattenSeq(ss)) <=> \E c \in MainIn(g, n), d \in MainOut(g, n) : x = Joined(c, d)
  <2>1. ASSUME x \in ToSet(FlattenSeq(ss))
        PROVE  \E c \in MainIn(g, n), d \in MainOut(g, n) : x = Joined(c, d)
    <3>1. PICK i \in 1..Len(ss) : \E j \in 1..Len(ss[i]) : x = ss[i][j]
      BY <1>10, <2>1
    <3>2. PICK j \in 1..Len(ss[i]) : x = ss[i][j]
      BY <3>1
    <3>3. i \in 1..Len(parents) /\ j \in 1..Len(children)
      BY <1>7, <1>9, <3>2
    <3>4. x = Joined(parents[i], children[j])
      BY <1>7, <3>2, <3>3
    <3> QED
      BY <1>5, <1>6, <3>3, <3>4
  <2>2. ASSUME NEW c \in MainIn(g, n), NEW d \in MainOut(g, n), x = Joined(c, d)
        PROVE  x \in ToSet(FlattenSeq(ss))
    <3>1. PICK i \in 1..Len(parents) : c = parents[i]
      BY <1>5
    <3>2. PICK j \in 1..Len(children) : d = children[j]
      BY <1>6
    <3>3. i \in 1..Len(ss) /\ j \in 1..Len(ss[i]) /\ x = ss[i][j]
      BY <1>7, <1>9, <2>2, <3>1, <3>2
    <3> QED
      BY <1>10, <3>3
  <2> QED
    BY <2>1, <2>2
<1> QED
  BY <1>1, <1>10, <1>11

LEMMA RemoveNodeIs ==
  ASSUME NEW g \in DirectedGraphs, NEW n
  PROVE  /\ RemoveNode(g, n) \in DirectedGraphs
         /\ Nodes(RemoveNode(g, n)) = Nodes(g) \ {n}
         /\ ToSet(RemoveNode(g, n).conns) =
              {c \in ToSet(g.conns) : n \notin {c.from, c.to}}
                \cup {Joined(c, d) : c \in MainIn(g, n), d \in MainOut(g, n)}
<1> DEFINE S     == {c \in ToSet(g.conns) : n \notin {c.from, c.to}}
           rest  == Only(g.conns, S)
           nodes == Only(g.nodes, Nodes(g) \ {n})
<1>1. g.nodes \in Seq(Nat) /\ g.conns \in Seq(Conns)
  BY GraphIs
<1>2. RemoveNode(g, n) = [nodes |-> nodes, conns |-> AddAll(rest, Bridges(g, n))]
  BY DEF RemoveNode
<1>3. nodes \in Seq(Nat) /\ ToSet(nodes) = Nodes(g) \ {n}
  <2>1. nodes \in Seq(Nat) /\ ToSet(nodes) = ToSet(g.nodes) \cap (Nodes(g) \ {n})
    BY <1>1, OnlyIs, ZenonT(40)
  <2> QED
    BY <2>1 DEF Nodes
<1>4. S \subseteq ToSet(g.conns)
  OBVIOUS
<1> HIDE DEF S
<1>5. rest \in Seq(Conns) /\ ToSet(rest) = S
  <2>1. rest \in Seq(Conns) /\ ToSet(rest) = ToSet(g.conns) \cap S
    BY <1>1, OnlyIs
  <2> QED
    BY <1>4, <2>1
<1> HIDE DEF rest, nodes
<1>6. /\ Bridges(g, n) \in Seq(Conns)
      /\ ToSet(Bridges(g, n)) = {Joined(c, d) : c \in MainIn(g, n), d \in MainOut(g, n)}
  BY BridgesAre
<1>7. /\ AddAll(rest, Bridges(g, n)) \in Seq(Conns)
      /\ ToSet(AddAll(rest, Bridges(g, n))) = ToSet(rest) \cup ToSet(Bridges(g, n))
  BY <1>5, <1>6, AddAllIs
<1>8. RemoveNode(g, n) \in DirectedGraphs
  BY <1>2, <1>3, <1>7 DEF DirectedGraphs
<1>9. Nodes(RemoveNode(g, n)) = Nodes(g) \ {n}
  BY <1>2, <1>3 DEF Nodes
<1>10. RemoveNode(g, n).conns = AddAll(rest, Bridges(g, n))
  BY <1>2
<1> QED
  BY <1>5, <1>6, <1>7, <1>8, <1>9, <1>10 DEF S
\* What FilterDisabledNodes keeps of all that holds of graphs in T.
LEMMA FilterIn ==
  ASSUME NEW T, T \subseteq DirectedGraphs, NEW g \in T, NEW disabled,
         \A h \in T : \A n \in disabled : RemoveNode(h, n) \in T
  PROVE  FilterDisabledNodes(g, disabled) \in T
<1> DEFINE f == [h \in DirectedGraphs |-> [n \in Nat |->
                   IF n \in disabled THEN RemoveNode(h, n) ELSE h]]
<1>1. Len(g.nodes) \in Nat /\ \A k \in 1..Len(g.nodes) : g.nodes[k] \in Nat
  BY GraphIs, ToSetIs
<1>2. ASSUME NEW h \in T, NEW k \in 1..Len(g.nodes) PROVE f[h][g.nodes[k]] \in T
  <2>1. f[h][g.nodes[k]] = IF g.nodes[k] \in disabled THEN RemoveNode(h, g.nodes[k]) ELSE h
    BY <1>1
  <2> QED
    BY <2>1
<1>3. FilterDisabledNodes(g, disabled) = Fold(f, g, g.nodes)
  BY DEF FilterDisabledNodes
<1> HIDE DEF f
<1> QED
  BY <1>1, <1>2, <1>3, FoldIn, ZenonT(40)

\* No node is left that is disabled; connections of other types stay.
SubConnsOf(h, g) == \A c \in ToSet(h.conns) : ~Main(c) => c \in ToSet(g.conns)

LEMMA FilterIs ==
  ASSUME NEW g \in DirectedGraphs, NEW disabled
  PROVE  /\ FilterDisabledNodes(g, disabled) \in DirectedGraphs
         /\ Nodes(FilterDisabledNodes(g, disabled)) = Nodes(g) \ disabled
         /\ SubConnsOf(FilterDisabledNodes(g, disabled), g)
<1> DEFINE T == {h \in DirectedGraphs : SubConnsOf(h, g)}
<1>1. g \in T
  BY DEF SubConnsOf
<1>2. ASSUME NEW h \in T, NEW n PROVE RemoveNode(h, n) \in T
  <2>1. h \in DirectedGraphs /\ ToSet(h.conns) \subseteq Conns
    BY GraphIs
  <2>2. /\ RemoveNode(h, n) \in DirectedGraphs
        /\ ToSet(RemoveNode(h, n).conns) =
             {c \in ToSet(h.conns) : n \notin {c.from, c.to}}
               \cup {Joined(c, d) : c \in MainIn(h, n), d \in MainOut(h, n)}
    BY <2>1, RemoveNodeIs
  <2>3. ASSUME NEW c \in MainIn(h, n), NEW d \in MainOut(h, n) PROVE Main(Joined(c, d))
    <3>1. c \in Conns /\ d \in Conns /\ Main(c)
      BY <2>1 DEF MainIn, MainOut
    <3> QED
      BY <3>1, JoinedIs DEF Main
  <2>4. SubConnsOf(RemoveNode(h, n), h)
    BY <2>2, <2>3 DEF SubConnsOf
  <2> QED
    BY <2>2, <2>4 DEF SubConnsOf
<1>3. FilterDisabledNodes(g, disabled) \in T
  <2>1. T \subseteq DirectedGraphs
    OBVIOUS
  <2> HIDE DEF T
  <2> QED
    BY <1>1, <1>2, <2>1, FilterIn
<1> DEFINE f == [h \in DirectedGraphs |-> [n \in Nat |->
                   IF n \in disabled THEN RemoveNode(h, n) ELSE h]]
           P == {p \in Nat \X DirectedGraphs :
                   Nodes(p[2]) = Nodes(g) \ {x \in disabled : \E i \in 1..p[1] : x = g.nodes[i]}}
<1>4. /\ Len(g.nodes) \in Nat /\ \A x : x \in Nodes(g) <=> \E i \in 1..Len(g.nodes) : x = g.nodes[i]
      /\ \A k \in 1..Len(g.nodes) : g.nodes[k] \in Nat
  <2> DEFINE s == g.nodes
  <2>1. s \in Seq(Nat) /\ Nodes(g) = ToSet(s)
    BY GraphIs DEF Nodes
  <2> HIDE DEF s
  <2>2. /\ Len(s) \in Nat /\ \A x : x \in ToSet(s) <=> \E i \in 1..Len(s) : x = s[i]
        /\ \A k \in 1..Len(s) : s[k] \in Nat
    BY <2>1, NumbersAre
  <2> QED
    BY <2>1, <2>2 DEF s
<1>5. <<0, g>> \in P
  <2>1. <<0, g>> \in Nat \X DirectedGraphs /\ <<0, g>>[1] = 0 /\ <<0, g>>[2] = g
    OBVIOUS
  <2>2. {x \in disabled : \E i \in 1..0 : x = g.nodes[i]} = {}
    OBVIOUS
  <2> QED
    BY <2>1, <2>2
<1>6. ASSUME NEW k \in 1..Len(g.nodes), NEW h, <<k - 1, h>> \in P
      PROVE  <<k, f[h][g.nodes[k]]>> \in P
  <2> DEFINE X(n) == {x \in disabled : \E i \in 1..n : x = g.nodes[i]}
             y == f[h][g.nodes[k]]
  <2>1. h \in DirectedGraphs /\ Nodes(h) = Nodes(g) \ X(k - 1) /\ k \in Nat /\ k - 1 \in Nat
    BY <1>4, <1>6
  <2>2. y = IF g.nodes[k] \in disabled THEN RemoveNode(h, g.nodes[k]) ELSE h
    BY <1>4, <2>1
  <2>3. \A i : i \in 1..k <=> i \in 1..(k - 1) \/ i = k
    BY <2>1
  <2> HIDE DEF y
  <2>4. CASE g.nodes[k] \in disabled
    <3>1. y \in DirectedGraphs /\ Nodes(y) = Nodes(h) \ {g.nodes[k]}
      BY <2>1, <2>2, <2>4, RemoveNodeIs
    <3>2. X(k) = X(k - 1) \cup {g.nodes[k]}
      BY <2>3, <2>4
    <3> HIDE DEF X
    <3>3. Nodes(y) = Nodes(g) \ X(k)
      BY <2>1, <3>1, <3>2
    <3>4. <<k, y>> \in P
      <4>1. <<k, y>> \in Nat \X DirectedGraphs /\ <<k, y>>[1] = k /\ <<k, y>>[2] = y
        BY <2>1, <3>1
      <4> QED
        BY <3>3, <4>1 DEF X
    <3> QED
      BY <3>4 DEF y
  <2>5. CASE g.nodes[k] \notin disabled
    <3>1. X(k) = X(k - 1)
      BY <2>3, <2>5
    <3>2. y = h
      BY <2>2, <2>5
    <3> HIDE DEF X
    <3>3. Nodes(y) = Nodes(g) \ X(k)
      BY <2>1, <3>1, <3>2
    <3>4. <<k, y>> \in P
      <4>1. <<k, y>> \in Nat \X DirectedGraphs /\ <<k, y>>[1] = k /\ <<k, y>>[2] = y
        BY <2>1, <3>2
      <4> QED
        BY <3>3, <4>1 DEF X
    <3> QED
      BY <3>4 DEF y
  <2> QED
    BY <2>4, <2>5
<1>7. FilterDisabledNodes(g, disabled) = Fold(f, g, g.nodes)
  BY DEF FilterDisabledNodes
<1>8. <<Len(g.nodes), Fold(f, g, g.nodes)>> \in P
  <2> HIDE DEF f, P
  <2> QED
    BY <1>4, <1>5, <1>6, FoldUpTo
<1>9. Nodes(FilterDisabledNodes(g, disabled)) = Nodes(g) \ disabled
  <2> HIDE DEF f
  <2> DEFINE r == FilterDisabledNodes(g, disabled)
  <2>1. <<Len(g.nodes), r>> \in P
    BY <1>7, <1>8
  <2> HIDE DEF r
  <2>2. Nodes(r) = Nodes(g) \ {x \in disabled : \E i \in 1..Len(g.nodes) : x = g.nodes[i]}
    BY <2>1
  <2>3. Nodes(r) = Nodes(g) \ disabled
    BY <1>4, <2>2
  <2> QED
    BY <2>3 DEF r
<1> QED
  BY <1>3, <1>9

\* The nodes at the ends of connections.
Ends(C) == {c.from : c \in C} \cup {c.to : c \in C}

LEMMA AddConnsIs ==
  ASSUME NEW h \in Subgraphs, NEW conns \in Seq(Conns)
  PROVE  /\ AddConns(h, conns) \in Subgraphs
         /\ ToSet(AddConns(h, conns).conns) = ToSet(h.conns) \cup ToSet(conns)
         /\ ToSet(AddConns(h, conns).nodes) = ToSet(h.nodes) \cup Ends(ToSet(conns))
         /\ AddConns(h, conns).failed = h.failed
<1> DEFINE f == [r \in Subgraphs |-> [c \in Conns |-> AddConn(r, c)]]
           upto(n) == {conns[i] : i \in 1..n}
           P == {p \in Nat \X Subgraphs :
                   /\ ToSet(p[2].conns) = ToSet(h.conns) \cup upto(p[1])
                   /\ ToSet(p[2].nodes) = ToSet(h.nodes) \cup Ends(upto(p[1]))
                   /\ p[2].failed = h.failed}
<1>1. /\ Len(conns) \in Nat /\ ToSet(conns) = upto(Len(conns))
      /\ \A k \in 1..Len(conns) : conns[k] \in Conns
  BY ToSetIs
<1>2. <<0, h>> \in P
  <2>1. <<0, h>> \in Nat \X Subgraphs /\ <<0, h>>[1] = 0 /\ <<0, h>>[2] = h
    OBVIOUS
  <2>2. upto(0) = {} /\ Ends({}) = {}
    BY DEF Ends
  <2> HIDE DEF upto
  <2> QED
    BY <2>1, <2>2
<1>3. ASSUME NEW k \in 1..Len(conns), NEW r, <<k - 1, r>> \in P
      PROVE  <<k, f[r][conns[k]]>> \in P
  <2> DEFINE c == conns[k]
             y == f[r][conns[k]]
  <2>1. /\ r \in Subgraphs /\ c \in Conns /\ k \in Nat /\ k - 1 \in Nat
        /\ ToSet(r.conns) = ToSet(h.conns) \cup upto(k - 1)
        /\ ToSet(r.nodes) = ToSet(h.nodes) \cup Ends(upto(k - 1))
        /\ r.failed = h.failed
    <3>1. c \in Conns /\ k \in Nat /\ k - 1 \in Nat
      BY <1>1
    <3> HIDE DEF upto
    <3>2. <<k - 1, r>> \in Nat \X Subgraphs /\ <<k - 1, r>>[1] = k - 1 /\ <<k - 1, r>>[2] = r
      BY <1>3
    <3> QED
      BY <1>3, <3>1, <3>2
  <2>2. upto(k) = upto(k - 1) \cup {c}
    <3>1. \A i : i \in 1..k <=> i \in 1..(k - 1) \/ i = k
      BY <2>1
    <3> QED
      BY <3>1
  <2>3. y = AddConn(r, c)
    BY <2>1
  <2> HIDE DEF y, c, upto
  <2>4. Ends(upto(k)) = Ends(upto(k - 1)) \cup {c.from, c.to}
    BY <2>2 DEF Ends
  <2>5. r.nodes \in Seq(Nat) /\ r.conns \in Seq(Conns) /\ c.from \in Nat /\ c.to \in Nat
    BY <2>1 DEF Subgraphs, Conns
  <2> DEFINE ns == r.nodes
             cs == r.conns
             a  == c.from
             b  == c.to
  <2>50. ns \in Seq(Nat) /\ cs \in Seq(Conns) /\ a \in Nat /\ b \in Nat
    BY <2>5
  <2> HIDE DEF ns, cs, a, b
  <2>6. Add(ns, a) \in Seq(Nat) /\ ToSet(Add(ns, a)) = ToSet(ns) \cup {a}
    BY <2>50, NatAddIs
  <2>7. Add(Add(ns, a), b) \in Seq(Nat) /\ ToSet(Add(Add(ns, a), b)) = ToSet(ns) \cup {a, b}
    <3>1. /\ Add(Add(ns, a), b) \in Seq(Nat)
          /\ ToSet(Add(Add(ns, a), b)) = ToSet(Add(ns, a)) \cup {b}
      BY <2>6, <2>50, AddIs
    <3> QED
      BY <2>6, <3>1
  <2>8. Add(cs, c) \in Seq(Conns) /\ ToSet(Add(cs, c)) = ToSet(cs) \cup {c}
    BY <2>1, <2>50, AddIs
  <2>9. /\ y \in Subgraphs
        /\ y.nodes = Add(Add(ns, a), b) /\ y.conns = Add(cs, c)
        /\ y.failed = r.failed
    <3>1. y = [r EXCEPT !.nodes = Add(Add(ns, a), b), !.conns = Add(cs, c)]
      BY <2>3 DEF AddConn, ns, cs, a, b
    <3> QED
      BY <2>1, <2>7, <2>8, <3>1 DEF Subgraphs
  <2>10. /\ ToSet(y.conns) = ToSet(h.conns) \cup upto(k)
         /\ ToSet(y.nodes) = ToSet(h.nodes) \cup Ends(upto(k))
         /\ y.failed = h.failed
    <3>1. ToSet(ns) = ToSet(r.nodes) /\ ToSet(cs) = ToSet(r.conns) /\ {a, b} = {c.from, c.to}
      BY DEF ns, cs, a, b
    <3> QED
      BY <2>1, <2>2, <2>4, <2>7, <2>8, <2>9, <3>1
  <2>11. <<k, y>> \in P
    <3>1. <<k, y>> \in Nat \X Subgraphs /\ <<k, y>>[1] = k /\ <<k, y>>[2] = y
      BY <2>1, <2>9
    <3> QED
      BY <2>10, <3>1
  <2> QED
    BY <2>11 DEF y, upto, c
<1>4. AddConns(h, conns) = Fold(f, h, conns)
  BY DEF AddConns
<1>5. <<Len(conns), Fold(f, h, conns)>> \in P
  <2> HIDE DEF f, P, upto
  <2> QED
    BY <1>1, <1>2, <1>3, FoldUpTo
<1> HIDE DEF f, upto
<1> QED
  BY <1>1, <1>4, <1>5
\* Whether n is the node the branch came to, and what a branch is kept as.
LEMMA AddBranchIs ==
  ASSUME NEW h \in Subgraphs, NEW branch \in Seq(Conns), NEW n \in Nat, NEW root
  PROVE  /\ AddBranch(h, branch, n, root) \in Subgraphs
         /\ ToSet(AddBranch(h, branch, n, root).conns) = ToSet(h.conns) \cup ToSet(branch)
         /\ ToSet(AddBranch(h, branch, n, root).nodes) =
              ToSet(h.nodes) \cup Ends(ToSet(branch)) \cup (IF n = root THEN {n} ELSE {})
         /\ AddBranch(h, branch, n, root).failed = h.failed
<1> DEFINE ns == h.nodes
           h1 == IF n = root THEN [h EXCEPT !.nodes = Add(@, n)] ELSE h
<1>1. ns \in Seq(Nat)
  BY DEF Subgraphs
<1>2. Add(ns, n) \in Seq(Nat) /\ ToSet(Add(ns, n)) = ToSet(ns) \cup {n}
  <2> HIDE DEF ns
  <2> QED
    BY <1>1, NatAddIs
<1>3. /\ h1 \in Subgraphs
      /\ h1.conns = h.conns /\ h1.failed = h.failed
      /\ ToSet(h1.nodes) = ToSet(h.nodes) \cup (IF n = root THEN {n} ELSE {})
  <2>1. CASE n = root
    <3>1. h1 = [h EXCEPT !.nodes = Add(ns, n)]
      BY <2>1
    <3>2. h1.nodes = Add(ns, n) /\ h1 \in Subgraphs /\ h1.conns = h.conns /\ h1.failed = h.failed
      BY <1>2, <3>1 DEF Subgraphs
    <3> HIDE DEF h1
    <3> QED
      BY <1>2, <2>1, <3>2
  <2>2. CASE n # root
    BY <2>2
  <2> QED
    BY <2>1, <2>2
<1>4. AddBranch(h, branch, n, root) = AddConns(h1, branch)
  BY DEF AddBranch
<1> HIDE DEF h1
<1> QED
  BY <1>3, <1>4, AddConnsIs, SMTT(30)

Deeper == [Seq(Conns) -> [Subgraphs -> [Nat -> Subgraphs]]]

LEMMA DeeperIs ==
  ASSUME NEW deeper \in Deeper, NEW branch \in Seq(Conns), NEW h \in Subgraphs, NEW n \in Nat
  PROVE  deeper[branch][h][n] \in Subgraphs
<1>1. deeper[branch] \in [Subgraphs -> [Nat -> Subgraphs]]
  BY DEF Deeper
<1>2. deeper[branch][h] \in [Nat -> Subgraphs]
  BY <1>1
<1> QED
  BY <1>2

\* One step of the search upstream.
ParentsOf(g, n) == Only(g.conns, MainIn(g, n))

Above(branch, deeper) ==
  [r \in Subgraphs |-> [c \in Conns |-> deeper[Append(branch, c)][r][c.from]]]

Visited(branch, n) == \E i \in DOMAIN branch : branch[i].to = n

LEMMA SearchStep ==
  ASSUME NEW g, NEW goal, NEW root, NEW deeper,
         NEW branch \in Seq(Conns), NEW h \in Subgraphs, NEW n \in Nat
  PROVE  Search(g, goal, root, deeper)[branch][h][n] =
           IF n # root /\ n \notin Nodes(g) THEN [h EXCEPT !.failed = TRUE]
           ELSE IF n # root /\ ~Visited(branch, n)
                THEN Fold(Above(branch, deeper), h, ParentsOf(g, n))
           ELSE IF n # root /\ n = goal THEN h
           ELSE AddBranch(h, branch, n, root)
BY DEF Search, Above, ParentsOf, MainIn, Visited

LEMMA ParentsAre ==
  ASSUME NEW g \in DirectedGraphs, NEW n
  PROVE  /\ ParentsOf(g, n) \in Seq(Conns) /\ Len(ParentsOf(g, n)) \in Nat
         /\ ToSet(ParentsOf(g, n)) = MainIn(g, n)
         /\ \A k \in 1..Len(ParentsOf(g, n)) :
              ParentsOf(g, n)[k] \in MainIn(g, n) /\ ParentsOf(g, n)[k] \in Conns
         /\ \A c \in MainIn(g, n) : \E k \in 1..Len(ParentsOf(g, n)) : ParentsOf(g, n)[k] = c
<1> DEFINE cs == g.conns
           ps == ParentsOf(g, n)
<1>1. cs \in Seq(Conns) /\ MainIn(g, n) \subseteq ToSet(cs)
  BY GraphIs DEF MainIn
<1>2. ps = Only(cs, MainIn(g, n))
  BY DEF ParentsOf
<1> HIDE DEF cs, ps
<1>3. ps \in Seq(Conns) /\ ToSet(ps) = ToSet(cs) \cap MainIn(g, n)
  BY <1>1, <1>2, OnlyIs
<1>4. ToSet(ps) = MainIn(g, n)
  BY <1>1, <1>3
<1>5. /\ Len(ps) \in Nat /\ ToSet(ps) = {ps[i] : i \in 1..Len(ps)}
      /\ \A i \in 1..Len(ps) : ps[i] \in Conns /\ ps[i] \in ToSet(ps)
  BY <1>3, ToSetIs
<1> QED
  BY <1>3, <1>4, <1>5 DEF ps

LEMMA SearchIsTyped ==
  ASSUME NEW g \in DirectedGraphs, NEW goal, NEW root, NEW deeper \in Deeper
  PROVE  Search(g, goal, root, deeper) \in Deeper
<1> SUFFICES ASSUME NEW branch \in Seq(Conns), NEW h \in Subgraphs, NEW n \in Nat
             PROVE  Search(g, goal, root, deeper)[branch][h][n] \in Subgraphs
  <2> DEFINE s == Search(g, goal, root, deeper)
  <2>1. s = [branch \in Seq(Conns) |-> s[branch]]
    BY DEF Search
  <2>2. \A branch \in Seq(Conns) : s[branch] = [h \in Subgraphs |-> s[branch][h]]
    BY DEF Search
  <2>3. \A branch \in Seq(Conns) : \A h \in Subgraphs : s[branch][h] = [n \in Nat |-> s[branch][h][n]]
    BY DEF Search
  <2>4. \A branch \in Seq(Conns) : \A h \in Subgraphs : \A n \in Nat : s[branch][h][n] \in Subgraphs
    OBVIOUS
  <2> HIDE DEF s
  <2>5. \A branch \in Seq(Conns) : \A h \in Subgraphs : s[branch][h] \in [Nat -> Subgraphs]
    BY <2>3, <2>4
  <2>6. \A branch \in Seq(Conns) : s[branch] \in [Subgraphs -> [Nat -> Subgraphs]]
    BY <2>2, <2>5
  <2>7. s \in Deeper
    BY <2>1, <2>6 DEF Deeper
  <2> QED
    BY <2>7 DEF s
<1>1. [h EXCEPT !.failed = TRUE] \in Subgraphs
  BY DEF Subgraphs
<1>2. Fold(Above(branch, deeper), h, ParentsOf(g, n)) \in Subgraphs
  <2> DEFINE f  == Above(branch, deeper)
             ps == ParentsOf(g, n)
  <2>1. Len(ps) \in Nat /\ \A k \in 1..Len(ps) : ps[k] \in Conns
    BY ParentsAre
  <2>2. ASSUME NEW r \in Subgraphs, NEW c \in Conns PROVE f[r][c] \in Subgraphs
    <3>1. f[r][c] = deeper[Append(branch, c)][r][c.from]
      BY DEF Above
    <3>2. Append(branch, c) \in Seq(Conns) /\ c.from \in Nat
      BY AppendIs DEF Conns
    <3> HIDE DEF f
    <3> QED
      BY <3>1, <3>2, DeeperIs
  <2> HIDE DEF f, ps
  <2>3. Fold(f, h, ps) \in Subgraphs
    BY <2>1, <2>2, FoldIn
  <2> QED
    BY <2>3 DEF f, ps
<1>3. AddBranch(h, branch, n, root) \in Subgraphs
  BY AddBranchIs
<1> QED
  BY <1>1, <1>2, <1>3, SearchStep

\* The search as a sequence of functions, each of which goes one node deeper.
Searching(v, g, goal, root) ==
  /\ v[0] = [branch \in Seq(Conns) |-> [h \in Subgraphs |-> [n \in Nat |-> h]]]
  /\ \A k \in Nat : v[k] \in Deeper /\ v[k + 1] = Search(g, goal, root, v[k])

NoGraph == [nodes |-> <<>>, conns |-> <<>>, failed |-> FALSE]

LEMMA FlowSearch ==
  ASSUME NEW g \in DirectedGraphs, NEW goal, NEW root
  PROVE  \E v : /\ Searching(v, g, goal, root)
                /\ FlowGraph(g, goal, root) = v[Depth(g)][<<>>][NoGraph][goal]
<1> DEFINE base == [branch \in Seq(Conns) |-> [h \in Subgraphs |-> [n \in Nat |-> h]]]
           next == [d \in Deeper |-> Search(g, goal, root, d)]
           Is(v) == v = [k \in Nat |-> IF k = 0 THEN base ELSE Search(g, goal, root, v[k - 1])]
<1>1. base \in Deeper
  BY DEF Deeper
<1>2. next \in [Deeper -> Deeper]
  BY SearchIsTyped
<1>3. PICK u : Iterates(u, Deeper, base, next)
  <2> HIDE DEF base, next
  <2> QED
    BY <1>1, <1>2, Iteration
<1>4. Is(u)
  <2>0. /\ u[0] = base /\ u \in [Nat -> Deeper]
        /\ \A k \in Nat : u[k] \in Deeper /\ u[k + 1] = next[u[k]]
    <3> HIDE DEF base, next
    <3> QED
      BY <1>3 DEF Iterates
  <2>1. \A k \in Nat : u[k + 1] = Search(g, goal, root, u[k])
    BY <2>0
  <2>2. ASSUME NEW k \in Nat
        PROVE  u[k] = IF k = 0 THEN base ELSE Search(g, goal, root, u[k - 1])
    <3>1. CASE k = 0
      BY <2>0, <3>1
    <3>2. CASE k # 0
      <4>1. k - 1 \in Nat /\ (k - 1) + 1 = k
        BY <3>2
      <4> HIDE DEF base
      <4>2. u[(k - 1) + 1] = Search(g, goal, root, u[k - 1])
        BY <2>1, <4>1
      <4> QED
        BY <3>2, <4>1, <4>2
    <3> QED
      BY <3>1, <3>2
  <2>3. u = [k \in Nat |-> u[k]]
    BY <2>0
  <2> HIDE DEF base
  <2> QED
    BY <2>2, <2>3
<1> DEFINE w == CHOOSE v : Is(v)
<1>5. Is(w)
  BY <1>4
<1>6. FlowGraph(g, goal, root) = w[Depth(g)][<<>>][NoGraph][goal]
  BY DEF FlowGraph, NoGraph
<1> HIDE DEF w
<1>7. w[0] = base /\ \A k \in Nat : w[k + 1] = Search(g, goal, root, w[k])
  <2>1. \A k \in Nat : w[k] = IF k = 0 THEN base ELSE Search(g, goal, root, w[k - 1])
    <3> HIDE DEF base
    <3> QED
      BY <1>5
  <2>2. \A k \in Nat : k + 1 \in Nat /\ k + 1 # 0 /\ (k + 1) - 1 = k
    OBVIOUS
  <2> HIDE DEF base
  <2>3. w[0] = base
    BY <2>1
  <2>4. ASSUME NEW k \in Nat PROVE w[k + 1] = Search(g, goal, root, w[k])
    <3>1. w[k + 1] = Search(g, goal, root, w[(k + 1) - 1])
      BY <2>1, <2>2
    <3> QED
      BY <2>2, <3>1
  <2> QED
    BY <2>3, <2>4
<1>8. \A k \in Nat : w[k] \in Deeper
  <2> DEFINE S == {k \in Nat : w[k] \in Deeper}
  <2> HIDE DEF base
  <2>1. 0 \in S
    BY <1>1, <1>7
  <2>2. \A k \in Nat : k \in S => k + 1 \in S
    BY <1>7, SearchIsTyped
  <2>3. Nat \subseteq S
    <3> HIDE DEF S
    <3> QED
      BY <2>1, <2>2, NatSetInduction
  <2> QED
    BY <2>3
<1>9. Searching(w, g, goal, root)
  BY <1>7, <1>8 DEF Searching
<1> QED
  BY <1>6, <1>9
AllMain(g) == {c \in ToSet(g.conns) : Main(c)}

\* W are the branches, each with the node it has come to, that a search from one
\* of them comes to.
Onwards(W, g, root) ==
  /\ W \subseteq Seq(AllMain(g)) \X Nat
  /\ \A w \in W : w[2] # root /\ ~Visited(w[1], w[2]) =>
       \A c \in MainIn(g, w[2]) : <<Append(w[1], c), c.from>> \in W

\* What a search that comes to W only does keeps the graph it makes in T.
KeepsOnW(T, W, g, goal, root) ==
  T \subseteq Subgraphs /\ \A h \in T : \A w \in W :
    /\ w[2] = root \/ (Visited(w[1], w[2]) /\ w[2] # goal) => AddBranch(h, w[1], w[2], root) \in T
    /\ w[2] # root /\ w[2] \notin Nodes(g) => [h EXCEPT !.failed = TRUE] \in T

LEMMA SearchKeeps ==
  ASSUME NEW g \in DirectedGraphs, NEW goal, NEW root, NEW v, Searching(v, g, goal, root),
         NEW W, Onwards(W, g, root), NEW T, KeepsOnW(T, W, g, goal, root),
         NEW k \in Nat, NEW h \in T, NEW w \in W
  PROVE  v[k][w[1]][h][w[2]] \in T
<1> DEFINE M == AllMain(g)
           S == {i \in Nat : \A r \in T : \A x \in W : v[i][x[1]][r][x[2]] \in T}
<1>1. M \subseteq Conns /\ Seq(M) \subseteq Seq(Conns)
  <2>1. M \subseteq Conns
    BY GraphIs DEF AllMain
  <2> HIDE DEF M
  <2> QED
    BY <2>1
<1>2. ASSUME NEW x \in W PROVE x[1] \in Seq(M) /\ x[1] \in Seq(Conns) /\ x[2] \in Nat
  <2>1. x \in Seq(M) \X Nat
    BY DEF Onwards
  <2> HIDE DEF M
  <2> QED
    BY <1>1, <2>1
<1>3. \A r \in T : r \in Subgraphs
  BY DEF KeepsOnW
<1>4. 0 \in S
  <2>1. v[0] = [branch \in Seq(Conns) |-> [r \in Subgraphs |-> [n \in Nat |-> r]]]
    BY DEF Searching
  <2>2. ASSUME NEW r \in T, NEW x \in W PROVE v[0][x[1]][r][x[2]] = r
    <3> DEFINE b == x[1]
               n == x[2]
    <3>1. b \in Seq(Conns) /\ n \in Nat /\ r \in Subgraphs
      BY <1>2, <1>3
    <3> HIDE DEF b, n
    <3>2. v[0][b][r][n] = r
      BY <2>1, <3>1
    <3> QED
      BY <3>2 DEF b, n
  <2> QED
    BY <2>2
<1>5. ASSUME NEW i \in Nat, i \in S PROVE i + 1 \in S
  <2>1. ASSUME NEW r \in T, NEW x \in W PROVE v[i + 1][x[1]][r][x[2]] \in T
    <3> DEFINE b  == x[1]
               n  == x[2]
               f  == Above(b, v[i])
               ps == ParentsOf(g, n)
    <3>1. v[i + 1] = Search(g, goal, root, v[i]) /\ v[i] \in Deeper
      BY DEF Searching
    <3>2. b \in Seq(M) /\ b \in Seq(Conns) /\ r \in Subgraphs /\ n \in Nat
      BY <1>2, <1>3
    <3>3. /\ n = root \/ (Visited(b, n) /\ n # goal) => AddBranch(r, b, n, root) \in T
          /\ n # root /\ n \notin Nodes(g) => [r EXCEPT !.failed = TRUE] \in T
      BY DEF KeepsOnW
    <3>4. n # root /\ ~Visited(b, n) => \A c \in MainIn(g, n) : <<Append(b, c), c.from>> \in W
      BY DEF Onwards
    <3> HIDE DEF b, n
    <3>5. ASSUME n # root, ~Visited(b, n) PROVE Fold(f, r, ps) \in T
      <4>1. Len(ps) \in Nat /\ \A j \in 1..Len(ps) : ps[j] \in MainIn(g, n)
        BY ParentsAre
      <4>2. ASSUME NEW y \in T, NEW c \in MainIn(g, n) PROVE f[y][c] \in T
        <5>1. c \in Conns /\ y \in Subgraphs
          BY <1>3, GraphIs DEF MainIn
        <5>2. f[y][c] = v[i][Append(b, c)][y][c.from]
          BY <5>1 DEF Above
        <5> DEFINE z == <<Append(b, c), c.from>>
        <5>3. z \in W /\ z[1] = Append(b, c) /\ z[2] = c.from
          BY <3>4, <3>5
        <5> HIDE DEF z, f
        <5>4. v[i][z[1]][y][z[2]] \in T
          BY <1>5, <5>3
        <5> QED
          BY <5>2, <5>3, <5>4
      <4> HIDE DEF f, ps
      <4> QED
        BY <4>1, <4>2, FoldIn
    <3>6. v[i + 1][b][r][n] =
             IF n # root /\ n \notin Nodes(g) THEN [r EXCEPT !.failed = TRUE]
             ELSE IF n # root /\ ~Visited(b, n) THEN Fold(f, r, ps)
             ELSE IF n # root /\ n = goal THEN r
             ELSE AddBranch(r, b, n, root)
      BY <3>1, <3>2, SearchStep
    <3> HIDE DEF f, ps, M
    <3>7. v[i + 1][b][r][n] \in T
      BY <3>3, <3>5, <3>6
    <3> QED
      BY <3>7 DEF b, n
  <2> QED
    BY <2>1
<1>6. k \in S
  <2> HIDE DEF S
  <2> QED
    BY <1>4, <1>5, NatSetInduction
<1> QED
  BY <1>6

\* Graphs that the search keeps in T, when it comes to nodes of N only.
KeepsAdding(T, N, g, root) ==
  \A h \in T : \A n \in N :
    /\ \A branch \in Seq(AllMain(g)) : AddBranch(h, branch, n, root) \in T
    /\ n = root \/ n \in Nodes(g) \/ [h EXCEPT !.failed = TRUE] \in T

LEMMA DepthIs ==
  ASSUME NEW g \in DirectedGraphs
  PROVE  Depth(g) \in Nat
<1> DEFINE s == g.conns
<1>1. s \in Seq(Conns)
  BY GraphIs
<1> HIDE DEF s
<1>2. Len(s) \in Nat
  BY <1>1
<1>3. Depth(g) = Len(s) + 2
  BY DEF Depth, s
<1> QED
  BY <1>2, <1>3

LEMMA FlowKeeps ==
  ASSUME NEW g \in DirectedGraphs, NEW goal, NEW root,
         NEW N, goal \in N, N \subseteq Nat, \A n \in N : \A c \in MainIn(g, n) : c.from \in N,
         NEW T, T \subseteq Subgraphs, NoGraph \in T, KeepsAdding(T, N, g, root)
  PROVE  FlowGraph(g, goal, root) \in T
<1>1. PICK v : /\ Searching(v, g, goal, root)
               /\ FlowGraph(g, goal, root) = v[Depth(g)][<<>>][NoGraph][goal]
  BY FlowSearch
<1> DEFINE M == AllMain(g)
           W == Seq(M) \X N
           w == <<<<>>, goal>>
<1>2. w \in W /\ w[1] = <<>> /\ w[2] = goal
  <2>1. <<>> \in Seq(M)
    BY NothingIs
  <2> HIDE DEF M
  <2> QED
    BY <2>1
<1>3. ASSUME NEW x \in W PROVE x[1] \in Seq(M) /\ x[2] \in N
  <2> HIDE DEF M
  <2> QED
    OBVIOUS
<1>4. Onwards(W, g, root)
  <2>1. W \subseteq Seq(M) \X Nat
    <3> HIDE DEF M
    <3> QED
      OBVIOUS
  <2>2. ASSUME NEW x \in W, NEW c \in MainIn(g, x[2]) PROVE <<Append(x[1], c), c.from>> \in W
    <3>1. c \in M /\ c.from \in N
      BY <1>3 DEF MainIn, AllMain
    <3> HIDE DEF M
    <3>2. Append(x[1], c) \in Seq(M)
      BY <1>3, <3>1, AppendIs
    <3> QED
      BY <3>1, <3>2
  <2> HIDE DEF W
  <2> QED
    BY <2>1, <2>2 DEF Onwards
<1>5. KeepsOnW(T, W, g, goal, root)
  <2>1. ASSUME NEW h \in T, NEW x \in W
        PROVE  /\ AddBranch(h, x[1], x[2], root) \in T
               /\ x[2] # root /\ x[2] \notin Nodes(g) => [h EXCEPT !.failed = TRUE] \in T
    <3>1. x[1] \in Seq(AllMain(g)) /\ x[2] \in N
      BY <1>3
    <3> HIDE DEF W, M
    <3> QED
      BY <3>1 DEF KeepsAdding
  <2> HIDE DEF W
  <2> QED
    BY <2>1 DEF KeepsOnW
<1> HIDE DEF W, w
<1>6. Depth(g) \in Nat
  BY DepthIs
<1>7. v[Depth(g)][w[1]][NoGraph][w[2]] \in T
  BY <1>1, <1>2, <1>4, <1>5, <1>6, SearchKeeps
<1> QED
  BY <1>1, <1>2, <1>7

\* What the search finds are connections of type main, and their ends.
LEMMA FlowIs ==
  ASSUME NEW g \in DirectedGraphs, NEW goal \in Nat, NEW root
  PROVE  /\ FlowGraph(g, goal, root) \in Subgraphs
         /\ ToSet(FlowGraph(g, goal, root).conns) \subseteq AllMain(g)
         /\ Ends(ToSet(FlowGraph(g, goal, root).conns)) \subseteq ToSet(FlowGraph(g, goal, root).nodes)
         /\ ToSet(FlowGraph(g, goal, root).nodes)
              \subseteq Ends(ToSet(FlowGraph(g, goal, root).conns)) \cup {root}
<1> DEFINE T == {h \in Subgraphs : /\ ToSet(h.conns) \subseteq AllMain(g)
                                   /\ Ends(ToSet(h.conns)) \subseteq ToSet(h.nodes)
                                   /\ ToSet(h.nodes) \subseteq Ends(ToSet(h.conns)) \cup {root}}
<1>1. NoGraph \in T
  <2>1. NoGraph \in Subgraphs /\ NoGraph.nodes = <<>> /\ NoGraph.conns = <<>>
    BY NothingIs DEF Subgraphs, NoGraph
  <2>2. ToSet(<<>>) = {} /\ Ends({}) = {}
    BY NothingIs DEF Ends
  <2> QED
    BY <2>1, <2>2
<1>2. AllMain(g) \subseteq Conns
  BY GraphIs DEF AllMain
<1>3. KeepsAdding(T, Nat, g, root)
  <2> SUFFICES ASSUME NEW h \in T, NEW n \in Nat
               PROVE  /\ \A branch \in Seq(AllMain(g)) : AddBranch(h, branch, n, root) \in T
                      /\ [h EXCEPT !.failed = TRUE] \in T
    <3> HIDE DEF T
    <3> QED
      BY DEF KeepsAdding
  <2>1. ASSUME NEW branch \in Seq(AllMain(g)) PROVE AddBranch(h, branch, n, root) \in T
    <3> DEFINE r == AddBranch(h, branch, n, root)
    <3>1. branch \in Seq(Conns) /\ h \in Subgraphs
      BY <1>2
    <3>2. /\ r \in Subgraphs
          /\ ToSet(r.conns) = ToSet(h.conns) \cup ToSet(branch)
          /\ ToSet(r.nodes) = ToSet(h.nodes) \cup Ends(ToSet(branch)) \cup (IF n = root THEN {n} ELSE {})
      BY <3>1, AddBranchIs
    <3>3. ToSet(branch) \subseteq AllMain(g)
      BY ToSetIs
    <3>4. Ends(ToSet(h.conns) \cup ToSet(branch)) = Ends(ToSet(h.conns)) \cup Ends(ToSet(branch))
      BY DEF Ends
    <3> HIDE DEF r
    <3>5. /\ ToSet(h.conns) \subseteq AllMain(g)
          /\ Ends(ToSet(h.conns)) \subseteq ToSet(h.nodes)
          /\ ToSet(h.nodes) \subseteq Ends(ToSet(h.conns)) \cup {root}
      OBVIOUS
    <3>6. ToSet(r.conns) \subseteq AllMain(g)
      BY <3>2, <3>3, <3>5
    <3>7. Ends(ToSet(r.conns)) = Ends(ToSet(h.conns)) \cup Ends(ToSet(branch))
      BY <3>2, <3>4
    <3>8. /\ Ends(ToSet(r.conns)) \subseteq ToSet(r.nodes)
          /\ ToSet(r.nodes) \subseteq Ends(ToSet(r.conns)) \cup {root}
      BY <3>2, <3>5, <3>7
    <3>9. r \in T
      BY <3>2, <3>6, <3>8
    <3> QED
      BY <3>9 DEF r
  <2>2. [h EXCEPT !.failed = TRUE] \in T
    <3> DEFINE r == [h EXCEPT !.failed = TRUE]
    <3>1. r \in Subgraphs /\ r.conns = h.conns /\ r.nodes = h.nodes
      BY DEF Subgraphs
    <3> HIDE DEF r
    <3>2. r \in T
      BY <3>1
    <3> QED
      BY <3>2 DEF r
  <2> QED
    BY <2>1, <2>2
<1>4. FlowGraph(g, goal, root) \in T
  <2>1. T \subseteq Subgraphs
    OBVIOUS
  <2>2. \A n \in Nat : \A c \in MainIn(g, n) : c.from \in Nat
    BY GraphIs DEF MainIn, Conns
  <2> HIDE DEF T
  <2> QED
    BY <1>1, <1>3, <2>1, <2>2, FlowKeeps
<1> QED
  BY <1>4

LEMMA ConnsAboveIs ==
  ASSUME NEW g \in DirectedGraphs, NEW N
  PROVE  /\ ConnsAbove(g, N) \subseteq ToSet(g.conns)
         /\ \A c \in ToSet(g.conns) : c.to \in N => c \in ConnsAbove(g, N)
<1>1. N \subseteq Upstream(ToSet(g.conns), N)
  BY GraphIs, UpstreamIs
<1> QED
  BY <1>1 DEF ConnsAbove

\* The subgraph: what the search found, and sub-nodes.
LEMMA SubgraphIs ==
  ASSUME NEW g \in DirectedGraphs, NEW goal \in Nat, NEW root
  PROVE  LET found == FindSubgraph(g, goal, root)
             flow  == FlowGraph(g, goal, root)
             subs  == {c \in ConnsAbove(g, ToSet(flow.nodes)) : ~Main(c)}
         IN  /\ [nodes |-> found.nodes, conns |-> found.conns] \in DirectedGraphs
             /\ ToSet(found.conns) = ToSet(flow.conns) \cup subs
             /\ ToSet(found.nodes) = ToSet(flow.nodes) \cup Ends(subs)
             /\ found.failed <=> \/ flow.failed
                                 \/ \E c \in ConnsAbove(g, ToSet(flow.nodes)) : c.from \notin Nodes(g)
<1> DEFINE found == FindSubgraph(g, goal, root)
           flow  == FlowGraph(g, goal, root)
           above == ConnsAbove(g, ToSet(flow.nodes))
           subs  == {c \in above : ~Main(c)}
           cs    == g.conns
           only  == Only(cs, subs)
           more  == AddConns(flow, only)
           bad   == \E c \in above : c.from \notin Nodes(g)
<1>1. flow \in Subgraphs
  BY FlowIs
<1>2. above \subseteq ToSet(cs) /\ cs \in Seq(Conns)
  BY ConnsAboveIs, GraphIs
<1>3. found = [more EXCEPT !.failed = @ \/ bad]
  BY DEF FindSubgraph
<1>4. subs \subseteq above
  OBVIOUS
<1> HIDE DEF flow, above, cs, subs, found
<1>5. only \in Seq(Conns) /\ ToSet(only) = subs
  <2>1. only \in Seq(Conns) /\ ToSet(only) = ToSet(cs) \cap subs
    BY <1>2, OnlyIs
  <2> QED
    BY <1>2, <1>4, <2>1
<1> HIDE DEF only
<1>6. /\ more \in Subgraphs
      /\ ToSet(more.conns) = ToSet(flow.conns) \cup ToSet(only)
      /\ ToSet(more.nodes) = ToSet(flow.nodes) \cup Ends(ToSet(only))
      /\ more.failed = flow.failed
  BY <1>1, <1>5, AddConnsIs
<1> HIDE DEF more, bad
<1>7. found.nodes = more.nodes /\ found.conns = more.conns /\ (found.failed <=> more.failed \/ bad)
  BY <1>3, <1>6 DEF Subgraphs
<1>8. more.nodes \in Seq(Nat) /\ more.conns \in Seq(Conns)
  BY <1>6 DEF Subgraphs
<1>9. [nodes |-> found.nodes, conns |-> found.conns] \in DirectedGraphs
  BY <1>7, <1>8 DEF DirectedGraphs
<1>10. /\ ToSet(found.conns) = ToSet(flow.conns) \cup subs
       /\ ToSet(found.nodes) = ToSet(flow.nodes) \cup Ends(subs)
  BY <1>5, <1>6, <1>7
<1>11. found.failed <=> flow.failed \/ bad
  BY <1>6, <1>7
<1> QED
  BY <1>9, <1>10, <1>11 DEF found, flow, subs, above, bad
-----------------------------------------------------------------------------
(***************************************************************************)
(* Run data and start nodes                                                *)
(***************************************************************************)

LEMMA CleanRunDataIs ==
  ASSUME NEW g \in DirectedGraphs, NEW data, Kept(data), NEW N
  PROVE  LET clean == CleanRunData(data, g, N) IN
         /\ Kept(clean)
         /\ DOMAIN clean \subseteq DOMAIN data \cap Nodes(g)
         /\ \A n \in DOMAIN clean : clean[n] = data[n]
         /\ \A n \in N : n \notin DOMAIN clean /\ Children(g, n) \cap DOMAIN clean = {}
         /\ \A c \in ToSet(g.conns) : c.to \in N /\ ~Main(c) => c.from \notin DOMAIN clean
<1> DEFINE stale == N \cup UNION {Children(g, n) : n \in N}
           subs  == {c.from : c \in {d \in ConnsAbove(g, stale) : ~Main(d)}}
           D     == (DOMAIN data \cap Nodes(g)) \ (stale \cup subs)
           clean == CleanRunData(data, g, N)
<1>1. clean = [n \in D |-> data[n]]
  BY DEF CleanRunData
<1>2. \A c \in ToSet(g.conns) : c.to \in stale => c \in ConnsAbove(g, stale)
  <2> HIDE DEF stale
  <2> QED
    BY ConnsAboveIs
<1>3. DOMAIN clean = D /\ \A n \in D : clean[n] = data[n]
  <2> HIDE DEF D, clean
  <2> QED
    BY <1>1
<1>4. ASSUME NEW c \in ToSet(g.conns), c.to \in N, ~Main(c) PROVE c.from \in subs
  <2>1. c \in ConnsAbove(g, stale)
    BY <1>2, <1>4
  <2> HIDE DEF stale
  <2> QED
    BY <1>4, <2>1
<1> HIDE DEF clean, subs
<1>5. Kept(clean)
  BY <1>3 DEF Kept
<1>6. \A n \in N : n \notin DOMAIN clean /\ Children(g, n) \cap DOMAIN clean = {}
  BY <1>3
<1>7. DOMAIN clean \subseteq DOMAIN data \cap Nodes(g) /\ \A n \in DOMAIN clean : clean[n] = data[n]
  BY <1>3
<1>8. \A c \in ToSet(g.conns) : c.to \in N /\ ~Main(c) => c.from \notin DOMAIN clean
  BY <1>3, <1>4
<1> QED
  BY <1>5, <1>6, <1>7, <1>8 DEF clean

\* One step of the search for start nodes.
StartSearch == [SUBSET Nat -> [Seq(Nat) -> [Nat -> Seq(Nat)]]]

LEMMA StartSearchIs ==
  ASSUME NEW deeper \in StartSearch, NEW seen \in SUBSET Nat, NEW found \in Seq(Nat), NEW n \in Nat
  PROVE  deeper[seen][found][n] \in Seq(Nat)
<1>1. deeper[seen] \in [Seq(Nat) -> [Nat -> Seq(Nat)]]
  BY DEF StartSearch
<1>2. deeper[seen][found] \in [Nat -> Seq(Nat)]
  BY <1>1
<1> QED
  BY <1>2

FlowsFrom(g, q, data, n) == {c \in ToSet(g.conns) : c.from = n /\ Flows(c, data, q.pinned)}

NextNodes(g, q, data, n) == Heads(Only(g.conns, FlowsFrom(g, q, data, n)))

\* r is what the search from n makes of found, where deeper goes on.
StartsMake(r, g, q, data, deeper, seen, found, n) ==
  /\ Stops(g, q, data, n) => r = Add(found, n)
  /\ ~Stops(g, q, data, n) /\ n \in seen => r = found
  /\ ~Stops(g, q, data, n) /\ n \notin seen
       => r = Fold(deeper[seen \cup {n}], found, NextNodes(g, q, data, n))

LEMMA StartStep ==
  ASSUME NEW g, NEW q, NEW data, NEW deeper,
         NEW seen \in SUBSET Nat, NEW found \in Seq(Nat), NEW n \in Nat
  PROVE  StartsMake(StartsFrom(g, q, data, deeper)[seen][found][n],
                    g, q, data, deeper, seen, found, n)
BY DEF StartsFrom, FlowsFrom, NextNodes, StartsMake

\* The heads of some of the connections of a graph.
LEMMA HeadsAre ==
  ASSUME NEW cs \in Seq(Conns)
  PROVE  /\ Heads(cs) \in Seq(Nat) /\ Len(Heads(cs)) = Len(cs)
         /\ \A k \in 1..Len(cs) : Heads(cs)[k] = cs[k].to
<1>1. DOMAIN cs = 1..Len(cs) /\ Len(cs) \in Nat /\ \A k \in 1..Len(cs) : cs[k] \in Conns
  BY ToSetIs
<1>2. Heads(cs) = [k \in 1..Len(cs) |-> cs[k].to] /\ \A k \in 1..Len(cs) : cs[k].to \in Nat
  BY <1>1 DEF Heads, Conns
<1>3. Heads(cs) \in [1..Len(cs) -> Nat] /\ \A k \in 1..Len(cs) : Heads(cs)[k] = cs[k].to
  BY <1>2
<1> QED
  BY <1>1, <1>3, FunctionIsSeq

LEMMA OnlyHeads ==
  ASSUME NEW g \in DirectedGraphs, NEW S, S \subseteq ToSet(g.conns)
  PROVE  LET heads == Heads(Only(g.conns, S)) IN
         /\ heads \in Seq(Nat) /\ Len(heads) \in Nat
         /\ \A k \in 1..Len(heads) : heads[k] \in Nat /\ \E c \in S : c.to = heads[k]
         /\ \A c \in S : \E k \in 1..Len(heads) : heads[k] = c.to
<1> DEFINE cs == g.conns
           only == Only(cs, S)
           heads == Heads(only)
<1>1. cs \in Seq(Conns) /\ S \subseteq ToSet(cs)
  BY GraphIs
<1> HIDE DEF cs
<1>2. only \in Seq(Conns) /\ ToSet(only) = S
  <2>1. only \in Seq(Conns) /\ ToSet(only) = ToSet(cs) \cap S
    BY <1>1, OnlyIs
  <2> QED
    BY <1>1, <2>1
<1> HIDE DEF only
<1>3. /\ Len(only) \in Nat /\ S = {only[i] : i \in 1..Len(only)}
      /\ \A i \in 1..Len(only) : only[i] \in Conns
  BY <1>2, ToSetIs
<1>4. /\ heads \in Seq(Nat) /\ Len(heads) = Len(only)
      /\ \A k \in 1..Len(only) : heads[k] = only[k].to
  BY <1>2, HeadsAre
<1> HIDE DEF heads
<1>5. \A k \in 1..Len(heads) : heads[k] \in Nat /\ \E c \in S : c.to = heads[k]
  <2>1. \A k \in 1..Len(heads) : heads[k] \in Nat
    BY <1>4, NumbersAre
  <2> QED
    BY <1>3, <1>4, <2>1
<1>6. \A c \in S : \E k \in 1..Len(heads) : heads[k] = c.to
  BY <1>3, <1>4
<1> QED
  BY <1>3, <1>4, <1>5, <1>6 DEF heads, only, cs

LEMMA NextNodesAre ==
  ASSUME NEW g \in DirectedGraphs, NEW q, NEW data, NEW n
  PROVE  LET next == NextNodes(g, q, data, n) IN
         /\ next \in Seq(Nat) /\ Len(next) \in Nat
         /\ \A k \in 1..Len(next) : next[k] \in Nat /\ \E c \in FlowsFrom(g, q, data, n) : c.to = next[k]
         /\ \A c \in FlowsFrom(g, q, data, n) : \E k \in 1..Len(next) : next[k] = c.to
<1> DEFINE S == FlowsFrom(g, q, data, n)
<1>1. S \subseteq ToSet(g.conns)
  BY DEF FlowsFrom
<1>2. NextNodes(g, q, data, n) = Heads(Only(g.conns, S))
  BY DEF NextNodes
<1> HIDE DEF S
<1>3. LET heads == Heads(Only(g.conns, S)) IN
      /\ heads \in Seq(Nat) /\ Len(heads) \in Nat
      /\ \A k \in 1..Len(heads) : heads[k] \in Nat /\ \E c \in S : c.to = heads[k]
      /\ \A c \in S : \E k \in 1..Len(heads) : heads[k] = c.to
  BY <1>1, OnlyHeads
<1> QED
  BY <1>2, <1>3 DEF S

LEMMA StartsFromIsTyped ==
  ASSUME NEW g \in DirectedGraphs, NEW q, NEW data, NEW deeper \in StartSearch
  PROVE  StartsFrom(g, q, data, deeper) \in StartSearch
<1> SUFFICES ASSUME NEW seen \in SUBSET Nat, NEW found \in Seq(Nat), NEW n \in Nat
             PROVE  StartsFrom(g, q, data, deeper)[seen][found][n] \in Seq(Nat)
  <2> DEFINE s == StartsFrom(g, q, data, deeper)
  <2>1. s = [seen \in SUBSET Nat |-> s[seen]]
    BY DEF StartsFrom
  <2>2. \A seen \in SUBSET Nat : s[seen] = [found \in Seq(Nat) |-> s[seen][found]]
    BY DEF StartsFrom
  <2>3. \A seen \in SUBSET Nat : \A found \in Seq(Nat) : s[seen][found] = [n \in Nat |-> s[seen][found][n]]
    BY DEF StartsFrom
  <2>4. \A seen \in SUBSET Nat : \A found \in Seq(Nat) : \A n \in Nat : s[seen][found][n] \in Seq(Nat)
    OBVIOUS
  <2> HIDE DEF s
  <2>5. \A seen \in SUBSET Nat : \A found \in Seq(Nat) : s[seen][found] \in [Nat -> Seq(Nat)]
    BY <2>3, <2>4
  <2>6. \A seen \in SUBSET Nat : s[seen] \in [Seq(Nat) -> [Nat -> Seq(Nat)]]
    BY <2>2, <2>5
  <2>7. s \in StartSearch
    BY <2>1, <2>6 DEF StartSearch
  <2> QED
    BY <2>7 DEF s
<1>1. Add(found, n) \in Seq(Nat)
  BY NatAddIs
<1>2. Fold(deeper[seen \cup {n}], found, NextNodes(g, q, data, n)) \in Seq(Nat)
  <2> DEFINE f  == deeper[seen \cup {n}]
             ns == NextNodes(g, q, data, n)
  <2>1. Len(ns) \in Nat /\ \A k \in 1..Len(ns) : ns[k] \in Nat
    BY NextNodesAre
  <2>2. ASSUME NEW r \in Seq(Nat), NEW m \in Nat PROVE f[r][m] \in Seq(Nat)
    BY StartSearchIs
  <2> HIDE DEF f, ns
  <2>3. Fold(f, found, ns) \in Seq(Nat)
    BY <2>1, <2>2, FoldIn
  <2> QED
    BY <2>3 DEF f, ns
<1>3. StartsFrom(g, q, data, deeper)[seen][found][n] =
        IF Stops(g, q, data, n) THEN Add(found, n)
        ELSE IF n \in seen THEN found
        ELSE Fold(deeper[seen \cup {n}], found, NextNodes(g, q, data, n))
  BY DEF StartsFrom, FlowsFrom, NextNodes
<1> DEFINE r == StartsFrom(g, q, data, deeper)[seen][found][n]
           a == Add(found, n)
           b == Fold(deeper[seen \cup {n}], found, NextNodes(g, q, data, n))
<1>4. r \in {a, found, b} /\ a \in Seq(Nat) /\ b \in Seq(Nat)
  BY <1>1, <1>2, <1>3
<1> HIDE DEF r, a, b
<1>5. r \in Seq(Nat)
  BY <1>4
<1> QED
  BY <1>5 DEF r

Starting(v, g, q, data) ==
  /\ v[0] = [seen \in SUBSET Nat |-> [found \in Seq(Nat) |-> [n \in Nat |-> found]]]
  /\ \A k \in Nat : v[k] \in StartSearch /\ v[k + 1] = StartsFrom(g, q, data, v[k])

LEMMA FindSearch ==
  ASSUME NEW g \in DirectedGraphs, NEW q, NEW root, NEW data
  PROVE  \E v : /\ Starting(v, g, q, data)
                /\ FindStartNodes(g, q, root, data) = v[Depth(g)][{}][<<>>][root]
<1> DEFINE base == [seen \in SUBSET Nat |-> [found \in Seq(Nat) |-> [n \in Nat |-> found]]]
           next == [d \in StartSearch |-> StartsFrom(g, q, data, d)]
           Is(v) == v = [k \in Nat |-> IF k = 0 THEN base ELSE StartsFrom(g, q, data, v[k - 1])]
<1>1. base \in StartSearch
  BY DEF StartSearch
<1>2. next \in [StartSearch -> StartSearch]
  BY StartsFromIsTyped
<1>3. PICK u : Iterates(u, StartSearch, base, next)
  <2> HIDE DEF base, next
  <2> QED
    BY <1>1, <1>2, Iteration
<1>4. Is(u)
  <2>0. /\ u[0] = base /\ u \in [Nat -> StartSearch]
        /\ \A k \in Nat : u[k] \in StartSearch /\ u[k + 1] = next[u[k]]
    <3> HIDE DEF base, next
    <3> QED
      BY <1>3 DEF Iterates
  <2>1. \A k \in Nat : u[k + 1] = StartsFrom(g, q, data, u[k])
    BY <2>0
  <2>2. ASSUME NEW k \in Nat
        PROVE  u[k] = IF k = 0 THEN base ELSE StartsFrom(g, q, data, u[k - 1])
    <3>1. CASE k = 0
      BY <2>0, <3>1
    <3>2. CASE k # 0
      <4>1. k - 1 \in Nat /\ (k - 1) + 1 = k
        BY <3>2
      <4> HIDE DEF base
      <4>2. u[(k - 1) + 1] = StartsFrom(g, q, data, u[k - 1])
        BY <2>1, <4>1
      <4> QED
        BY <3>2, <4>1, <4>2
    <3> QED
      BY <3>1, <3>2
  <2>3. u = [k \in Nat |-> u[k]]
    BY <2>0
  <2> HIDE DEF base
  <2> QED
    BY <2>2, <2>3
<1> DEFINE w == CHOOSE v : Is(v)
<1>5. Is(w)
  BY <1>4
<1>6. FindStartNodes(g, q, root, data) = w[Depth(g)][{}][<<>>][root]
  BY DEF FindStartNodes
<1> HIDE DEF w
<1>7. w[0] = base /\ \A k \in Nat : w[k + 1] = StartsFrom(g, q, data, w[k])
  <2>1. \A k \in Nat : w[k] = IF k = 0 THEN base ELSE StartsFrom(g, q, data, w[k - 1])
    <3> HIDE DEF base
    <3> QED
      BY <1>5
  <2>2. \A k \in Nat : k + 1 \in Nat /\ k + 1 # 0 /\ (k + 1) - 1 = k
    OBVIOUS
  <2> HIDE DEF base
  <2>3. w[0] = base
    BY <2>1
  <2>4. ASSUME NEW k \in Nat PROVE w[k + 1] = StartsFrom(g, q, data, w[k])
    <3>1. w[k + 1] = StartsFrom(g, q, data, w[(k + 1) - 1])
      BY <2>1, <2>2
    <3> QED
      BY <2>2, <3>1
  <2> QED
    BY <2>3, <2>4
<1>8. \A k \in Nat : w[k] \in StartSearch
  <2> DEFINE S == {k \in Nat : w[k] \in StartSearch}
  <2> HIDE DEF base
  <2>1. 0 \in S
    BY <1>1, <1>7
  <2>2. \A k \in Nat : k \in S => k + 1 \in S
    BY <1>7, StartsFromIsTyped
  <2>3. Nat \subseteq S
    <3> HIDE DEF S
    <3> QED
      BY <2>1, <2>2, NatSetInduction
  <2> QED
    BY <2>3
<1>9. Starting(w, g, q, data)
  BY <1>7, <1>8 DEF Starting
<1> QED
  BY <1>6, <1>9
\* What the search for start nodes keeps of the nodes it found, when it comes to
\* nodes of N only.
ClosedFor(N, g, q, data) ==
  N \subseteq Nat /\ \A n \in N : \A c \in FlowsFrom(g, q, data, n) : c.to \in N

KeepsFinding(T, N, g, q, data) ==
  T \subseteq Seq(Nat) /\ \A found \in T : \A n \in N : Stops(g, q, data, n) => Add(found, n) \in T

LEMMA StartsKeep ==
  ASSUME NEW g \in DirectedGraphs, NEW q, NEW data, NEW v, Starting(v, g, q, data),
         NEW N, ClosedFor(N, g, q, data), NEW T, KeepsFinding(T, N, g, q, data),
         NEW k \in Nat, NEW seen \in SUBSET Nat, NEW found \in T, NEW n \in N
  PROVE  v[k][seen][found][n] \in T
<1> DEFINE S == {i \in Nat : \A s \in SUBSET Nat : \A f \in T : \A m \in N : v[i][s][f][m] \in T}
<1>1. 0 \in S
  <2>1. v[0] = [s \in SUBSET Nat |-> [f \in Seq(Nat) |-> [m \in Nat |-> f]]]
    BY DEF Starting
  <2>2. ASSUME NEW s \in SUBSET Nat, NEW f \in T, NEW m \in N PROVE v[0][s][f][m] = f
    BY <2>1 DEF ClosedFor, KeepsFinding
  <2> QED
    BY <2>2
<1>2. ASSUME NEW i \in Nat, i \in S PROVE i + 1 \in S
  <2> SUFFICES ASSUME NEW s \in SUBSET Nat, NEW f \in T, NEW m \in N
               PROVE  v[i + 1][s][f][m] \in T
    OBVIOUS
  <2> DEFINE ns == NextNodes(g, q, data, m)
             d  == v[i][s \cup {m}]
             r  == v[i + 1][s][f][m]
  <2>1. f \in Seq(Nat) /\ m \in Nat
    BY DEF ClosedFor, KeepsFinding
  <2>2. v[i + 1] = StartsFrom(g, q, data, v[i])
    BY DEF Starting
  <2>3. /\ Stops(g, q, data, m) => r = Add(f, m)
        /\ ~Stops(g, q, data, m) /\ m \in s => r = f
        /\ ~Stops(g, q, data, m) /\ m \notin s => r = Fold(d, f, ns)
    <3>1. StartsMake(StartsFrom(g, q, data, v[i])[s][f][m], g, q, data, v[i], s, f, m)
      BY <2>1, StartStep
    <3> QED
      BY <2>2, <3>1 DEF StartsMake
  <2>4. Stops(g, q, data, m) => Add(f, m) \in T
    BY DEF KeepsFinding
  <2>5. Fold(d, f, ns) \in T
    <3>1. Len(ns) \in Nat /\ \A j \in 1..Len(ns) : \E c \in FlowsFrom(g, q, data, m) : c.to = ns[j]
      BY NextNodesAre
    <3>2. \A j \in 1..Len(ns) : ns[j] \in N
      BY <3>1 DEF ClosedFor
    <3>3. s \cup {m} \in SUBSET Nat
      BY <2>1
    <3>4. \A x \in T : \A y \in N : d[x][y] \in T
      BY <1>2, <3>3
    <3> HIDE DEF d, ns
    <3> QED
      BY <3>1, <3>2, <3>4, FoldIn
  <2> HIDE DEF r, d, ns
  <2>6. r \in T
    BY <2>3, <2>4, <2>5
  <2> QED
    BY <2>6 DEF r
<1>3. Nat \subseteq S
  <2> HIDE DEF S
  <2> QED
    BY <1>1, <1>2, NatSetInduction
<1> QED
  BY <1>3

\* Pairs of R that do not come to nodes of V.
Outside(R, V) == {p \in R : p[1] \notin V /\ p[2] \notin V}

\* The way to another node has a first step and does not come back to n.
LEMMA FirstStep ==
  ASSUME NEW R, IsFiniteSet(R), NEW n, NEW x \in ReachedBy(R, {n}), x # n
  PROVE  \E p \in R : /\ p[1] = n /\ p[2] # n
                      /\ x \in ReachedBy(Outside(R, {n}), {p[2]})
<1> DEFINE Q == Outside(R, {n})
           S == {n} \cup {y : y \in UNION {ReachedBy(Q, {p[2]}) : p \in {r \in R : r[1] = n /\ r[2] # n}}}
<1>1. IsFiniteSet(Q)
  <2>1. Q \in SUBSET R
    BY DEF Outside
  <2> QED
    BY <2>1, FS_Subset
<1>2. ASSUME NEW m
      PROVE  /\ m \in ReachedBy(Q, {m})
             /\ \A p \in Q : p[1] \in ReachedBy(Q, {m}) => p[2] \in ReachedBy(Q, {m})
             /\ m # n => n \notin ReachedBy(Q, {m})
  <2> HIDE DEF Q
  <2>1. /\ {m} \subseteq ReachedBy(Q, {m})
        /\ \A p \in Q : p[1] \in ReachedBy(Q, {m}) => p[2] \in ReachedBy(Q, {m})
    BY <1>1, ReachedByIs
  <2>2. ASSUME m # n PROVE n \notin ReachedBy(Q, {m})
    <3> DEFINE U == ReachedBy(Q, {m}) \ {n}
    <3>1. \A p \in Q : p[1] \in U => p[2] \in U
      BY <2>1 DEF Q, Outside
    <3>2. {m} \subseteq U
      BY <2>1, <2>2
    <3> HIDE DEF U
    <3>3. ReachedBy(Q, {m}) \subseteq U
      BY <1>1, <3>1, <3>2, ReachedByIs
    <3> QED
      BY <3>3 DEF U
  <2> QED
    BY <2>1, <2>2
<1>3. ASSUME NEW p \in R, p[1] \in S PROVE p[2] \in S
  <2>1. CASE p[2] = n
    BY <2>1
  <2>2. CASE p[2] # n /\ p[1] = n
    <3>1. p[2] \in ReachedBy(Q, {p[2]})
      BY <1>2
    <3> HIDE DEF Q
    <3> QED
      BY <2>2, <3>1
  <2>3. CASE p[2] # n /\ p[1] # n
    <3>1. p \in Q
      BY <2>3 DEF Outside
    <3> HIDE DEF Q
    <3>2. PICK r \in R : r[1] = n /\ r[2] # n /\ p[1] \in ReachedBy(Q, {r[2]})
      BY <1>3, <2>3
    <3>3. p[2] \in ReachedBy(Q, {r[2]})
      BY <1>2, <3>1, <3>2
    <3> QED
      BY <3>2, <3>3
  <2> QED
    BY <2>1, <2>2, <2>3
<1>4. ReachedBy(R, {n}) \subseteq S
  <2>1. {n} \subseteq S
    OBVIOUS
  <2> HIDE DEF S
  <2> QED
    BY <1>3, <2>1, ReachedByIs
<1> HIDE DEF Q
<1>5. PICK p \in R : p[1] = n /\ p[2] # n /\ x \in ReachedBy(Q, {p[2]})
  BY <1>4
<1> QED
  BY <1>5 DEF Q

LEMMA OutsideIs ==
  ASSUME NEW R, IsFiniteSet(R), NEW V
  PROVE  IsFiniteSet(Outside(R, V)) /\ \A n : Outside(Outside(R, V), {n}) = Outside(R, V \cup {n})
<1>1. Outside(R, V) \in SUBSET R
  BY DEF Outside
<1>2. \A n : Outside(Outside(R, V), {n}) = Outside(R, V \cup {n})
  BY DEF Outside
<1> QED
  BY <1>1, <1>2, FS_Subset

\* How many nodes of U are left.
Left(U, V) == Cardinality(U \ V)

LEMMA LeftIs ==
  ASSUME NEW U, IsFiniteSet(U), NEW V
  PROVE  /\ Left(U, V) \in Nat
         /\ \A n \in U \ V : Left(U, V \cup {n}) < Left(U, V)
         /\ \A W : V \subseteq W => Left(U, W) <= Left(U, V)
<1>1. \A W : IsFiniteSet(U \ W) /\ Left(U, W) \in Nat
  <2>1. \A W : U \ W \in SUBSET U
    OBVIOUS
  <2> QED
    BY <2>1, FS_Subset, FS_CardinalityType DEF Left
<1>2. ASSUME NEW n \in U \ V PROVE Left(U, V \cup {n}) < Left(U, V)
  <2> DEFINE A == U \ V
             B == U \ (V \cup {n})
  <2>1. IsFiniteSet(A) /\ Left(U, V) = Cardinality(A) /\ Cardinality(A) \in Nat
    BY <1>1 DEF Left
  <2>2. B = A \ {n} /\ n \in A /\ Left(U, V \cup {n}) = Cardinality(B)
    BY DEF Left
  <2> HIDE DEF A, B
  <2>3. Cardinality(A \ {n}) = Cardinality(A) - 1
    BY <2>1, <2>2, FS_RemoveElement
  <2> QED
    BY <2>1, <2>2, <2>3
<1>3. ASSUME NEW W, V \subseteq W PROVE Left(U, W) <= Left(U, V)
  <2>1. U \ W \in SUBSET (U \ V) /\ IsFiniteSet(U \ V)
    BY <1>1, <1>3
  <2> QED
    BY <2>1, FS_Subset DEF Left
<1> QED
  BY <1>1, <1>2, <1>3
\* The steps the search for start nodes takes, and all nodes it may come to.
Onward(g, q, data) ==
  {<<c.from, c.to>> : c \in {d \in ToSet(g.conns) :
                               Flows(d, data, q.pinned) /\ ~Stops(g, q, data, d.from)}}

Around(g, root) == {root} \cup {c.to : c \in ToSet(g.conns)}

LEMMA OnwardIs ==
  ASSUME NEW g \in DirectedGraphs, NEW q, NEW data
  PROVE  /\ IsFiniteSet(Onward(g, q, data))
         /\ \A p \in Onward(g, q, data) :
              ~Stops(g, q, data, p[1]) /\ \E c \in FlowsFrom(g, q, data, p[1]) : c.to = p[2]
         /\ \A c \in ToSet(g.conns) :
              Flows(c, data, q.pinned) /\ ~Stops(g, q, data, c.from)
                => <<c.from, c.to>> \in Onward(g, q, data)
<1> DEFINE S == {d \in ToSet(g.conns) : Flows(d, data, q.pinned) /\ ~Stops(g, q, data, d.from)}
           f == [c \in S |-> <<c.from, c.to>>]
<1>1. IsFiniteSet(S)
  <2>1. S \in SUBSET ToSet(g.conns)
    OBVIOUS
  <2> HIDE DEF S
  <2> QED
    BY <2>1, GraphIs, FS_Subset
<1>2. Onward(g, q, data) = {f[c] : c \in S}
  BY DEF Onward
<1>3. IsFiniteSet({f[c] : c \in S})
  <2> HIDE DEF S, f
  <2> QED
    BY <1>1, FiniteImage
<1>4. \A p \in Onward(g, q, data) :
        ~Stops(g, q, data, p[1]) /\ \E c \in FlowsFrom(g, q, data, p[1]) : c.to = p[2]
  BY DEF Onward, FlowsFrom
<1> QED
  BY <1>2, <1>3, <1>4 DEF Onward

LEMMA AroundIs ==
  ASSUME NEW g \in DirectedGraphs, NEW root \in Nat
  PROVE  /\ IsFiniteSet(Around(g, root)) /\ Around(g, root) \subseteq Nat
         /\ Depth(g) \in Nat /\ Cardinality(Around(g, root)) \in Nat
         /\ Cardinality(Around(g, root)) < Depth(g)
<1> DEFINE s == g.conns
           C == ToSet(s)
           f == [c \in C |-> c.to]
           T == {f[c] : c \in C}
<1>1. s \in Seq(Conns)
  BY GraphIs
<1>2. Depth(g) = Len(s) + 2
  BY DEF Depth
<1>3. Around(g, root) = T \cup {root}
  BY DEF Around
<1>4. \A c \in C : f[c] \in Nat
  BY GraphIs DEF Conns
<1> HIDE DEF s
<1>5. IsFiniteSet(C) /\ Cardinality(C) \in Nat /\ Cardinality(C) <= Len(s) /\ Len(s) \in Nat
  BY <1>1, ToSetFinite
<1> HIDE DEF C, f
<1>6. IsFiniteSet(T) /\ Cardinality(T) \in Nat /\ Cardinality(T) <= Cardinality(C)
  BY <1>5, FiniteImage
<1>7. T \subseteq Nat
  BY <1>4
<1> HIDE DEF T
<1>8. IsFiniteSet(T \cup {root}) /\ Cardinality(T \cup {root}) \in {Cardinality(T), Cardinality(T) + 1}
  BY <1>6, FS_AddElement
<1> QED
  BY <1>2, <1>3, <1>5, <1>6, <1>7, <1>8

\* The search finds where it stops, as long as it may go deep enough.
LEMMA StartsComplete ==
  ASSUME NEW g \in DirectedGraphs, NEW q, NEW data, NEW root \in Nat,
         NEW v, Starting(v, g, q, data), NEW k \in Nat,
         NEW seen \in SUBSET Nat, NEW found \in Seq(Nat), NEW n \in Around(g, root), n \notin seen,
         Left(Around(g, root), seen) < k,
         NEW x \in ReachedBy(Outside(Onward(g, q, data), seen), {n}), Stops(g, q, data, x)
  PROVE  x \in ToSet(v[k][seen][found][n])
<1> DEFINE U == Around(g, root)
           R == Onward(g, q, data)
           Finds(i, s, m) == \A f \in Seq(Nat) : \A y \in ReachedBy(Outside(R, s), {m}) :
                               Stops(g, q, data, y) => y \in ToSet(v[i][s][f][m])
           S == {i \in Nat : \A s \in SUBSET Nat : \A m \in U \ s :
                               Left(U, s) < i => Finds(i, s, m)}
<1>1. /\ IsFiniteSet(R) /\ IsFiniteSet(U) /\ U \subseteq Nat
      /\ \A p \in R : ~Stops(g, q, data, p[1]) /\ \E c \in FlowsFrom(g, q, data, p[1]) : c.to = p[2]
  BY OnwardIs, AroundIs
<1>2. \A p \in R : p[2] \in U
  BY <1>1 DEF FlowsFrom, Around
<1> HIDE DEF U, R
<1>4. 0 \in S
  <2>1. \A s : ~(Left(U, s) < 0)
    <3>1. \A s : Left(U, s) \in Nat
      BY <1>1, LeftIs
    <3> QED
      BY <3>1
  <2> HIDE DEF Finds
  <2> QED
    BY <2>1
<1>5. ASSUME NEW i \in Nat, i \in S PROVE i + 1 \in S
  <2>1. ASSUME NEW s \in SUBSET Nat, NEW m \in U \ s, Left(U, s) < i + 1,
               NEW f \in Seq(Nat), NEW y \in ReachedBy(Outside(R, s), {m}), Stops(g, q, data, y)
        PROVE  y \in ToSet(v[i + 1][s][f][m])
    <3> DEFINE ns == NextNodes(g, q, data, m)
               d  == v[i][s \cup {m}]
               r  == v[i + 1][s][f][m]
               Q  == Outside(R, s)
    <3>1. v[i + 1] = StartsFrom(g, q, data, v[i]) /\ v[i] \in StartSearch /\ m \in Nat
      BY <1>1, <2>1 DEF Starting
    <3>2. /\ Stops(g, q, data, m) => r = Add(f, m)
          /\ ~Stops(g, q, data, m) => r = Fold(d, f, ns)
      <4>1. StartsMake(StartsFrom(g, q, data, v[i])[s][f][m], g, q, data, v[i], s, f, m)
        BY <3>1, StartStep
      <4> QED
        BY <2>1, <3>1, <4>1 DEF StartsMake
    <3>3. IsFiniteSet(Q) /\ Outside(Q, {m}) = Outside(R, s \cup {m})
      <4>1. IsFiniteSet(Q) /\ \A l : Outside(Q, {l}) = Outside(R, s \cup {l})
        BY <1>1, OutsideIs
      <4> QED
        BY <4>1
    <3>4. \A p \in Q : p \in R /\ p[1] \notin s /\ p[2] \notin s
      BY DEF Outside
    <3> HIDE DEF Q
    <3>5. CASE Stops(g, q, data, m)
      <4>1. ReachedBy(Q, {m}) \subseteq {m}
        <5>1. \A p \in Q : p[1] \in {m} => p[2] \in {m}
          BY <1>1, <3>4, <3>5
        <5> QED
          BY <3>3, <5>1, ReachedByIs
      <4>2. y = m
        BY <2>1, <4>1 DEF Q
      <4>3. ToSet(Add(f, m)) = ToSet(f) \cup {m}
        BY <3>1, NatAddIs
      <4> QED
        BY <3>2, <3>5, <4>2, <4>3
    <3>6. CASE ~Stops(g, q, data, m)
      <4>1. y # m
        BY <2>1, <3>6
      <4>2. y \in ReachedBy(Q, {m})
        BY <2>1 DEF Q
      <4>3. PICK p \in Q : p[1] = m /\ p[2] # m /\ y \in ReachedBy(Outside(Q, {m}), {p[2]})
        BY <3>3, <4>1, <4>2, FirstStep
      <4> DEFINE w == s \cup {m}
      <4>4. p[2] \in U \ w /\ w \in SUBSET Nat
        BY <1>2, <3>1, <3>4, <4>3
      <4>5. Left(U, w) < i
        <5>1. m \in U \ s /\ Left(U, s) \in Nat
          BY <1>1, <2>1, LeftIs
        <5>2. Left(U, s \cup {m}) < Left(U, s) /\ Left(U, s \cup {m}) \in Nat
          BY <1>1, <5>1, LeftIs
        <5> QED
          BY <2>1, <5>1, <5>2
      <4>6. y \in ReachedBy(Outside(R, w), {p[2]})
        BY <3>3, <4>3
      <4>7. PICK c \in FlowsFrom(g, q, data, m) : c.to = p[2]
        BY <1>1, <3>4, <4>3
      <4>8. PICK j \in 1..Len(ns) : ns[j] = p[2]
        BY <4>7, NextNodesAre
      <4>9. Len(ns) \in Nat /\ \A l \in 1..Len(ns) : ns[l] \in Nat
        BY NextNodesAre
      <4> DEFINE T == Seq(Nat)
                 K == {h \in Seq(Nat) : y \in ToSet(h)}
      <4>10. \A h \in T : \A l \in 1..Len(ns) : d[h][ns[l]] \in T
        BY <3>1, <4>4, <4>9, StartSearchIs
      <4>11. ASSUME NEW h \in T PROVE d[h][ns[j]] \in K
        <5>1. Finds(i, w, p[2])
          <6> HIDE DEF Finds
          <6> QED
            BY <1>5, <4>4, <4>5
        <5>2. y \in ToSet(v[i][w][h][p[2]])
          BY <2>1, <4>6, <5>1
        <5> HIDE DEF w
        <5>3. y \in ToSet(d[h][ns[j]])
          BY <4>8, <5>2 DEF w
        <5> HIDE DEF d
        <5> QED
          BY <4>10, <5>3
      <4>12. ASSUME NEW h \in T, NEW l \in 1..Len(ns), h \in K PROVE d[h][ns[l]] \in K
        <5>1. KeepsFinding(K, Nat, g, q, data)
          <6>1. ASSUME NEW a \in K, NEW b \in Nat PROVE Add(a, b) \in K
            <7>1. a \in Seq(Nat) /\ y \in ToSet(a)
              OBVIOUS
            <7>2. Add(a, b) \in Seq(Nat) /\ ToSet(Add(a, b)) = ToSet(a) \cup {b}
              BY <7>1, NatAddIs
            <7> QED
              BY <7>1, <7>2
          <6>2. K \subseteq Seq(Nat)
            OBVIOUS
          <6> HIDE DEF K
          <6> QED
            BY <6>1, <6>2 DEF KeepsFinding
        <5>2. ClosedFor(Nat, g, q, data)
          BY GraphIs DEF ClosedFor, FlowsFrom, Conns
        <5>3. ns[l] \in Nat
          BY <4>9, <4>12
        <5> HIDE DEF K, ns, w
        <5> DEFINE b == ns[l]
        <5>4. h \in K /\ b \in Nat /\ w \in SUBSET Nat
          BY <4>4, <4>12, <5>3
        <5> HIDE DEF b
        <5>5. v[i][w][h][b] \in K
          BY <5>1, <5>2, <5>4, StartsKeep
        <5> QED
          BY <5>5 DEF w, b
      <4>13. Fold(d, f, ns) \in K
        <5>1. f \in T
          BY <2>1
        <5> HIDE DEF d, ns, T, K
        <5> QED
          BY <4>8, <4>9, <4>10, <4>11, <4>12, <5>1, FoldReaches
      <4>14. y \in ToSet(Fold(d, f, ns))
        <5> HIDE DEF d, ns
        <5> QED
          BY <4>13
      <4> HIDE DEF d, ns, r
      <4>15. y \in ToSet(r)
        BY <3>2, <3>6, <4>14
      <4> QED
        BY <4>15 DEF r
    <3> QED
      BY <3>5, <3>6
  <2>2. ASSUME NEW s \in SUBSET Nat, NEW m \in U \ s, Left(U, s) < i + 1 PROVE Finds(i + 1, s, m)
    BY <2>1, <2>2
  <2> HIDE DEF Finds
  <2> QED
    BY <2>2
<1>6. k \in S
  <2> HIDE DEF S
  <2> QED
    BY <1>4, <1>5, NatSetInduction
<1>7. Finds(k, seen, n)
  <2>1. n \in U \ seen /\ Left(U, seen) < k
    BY DEF U
  <2> HIDE DEF Finds
  <2> QED
    BY <1>6, <2>1
<1> QED
  BY <1>7 DEF R

\* findStartNodesRecursive: all nodes where the search stops, and only these.
LEMMA FindStartNodesIs ==
  ASSUME NEW g \in DirectedGraphs, NEW q, NEW root \in Nat, NEW data
  PROVE  LET found == FindStartNodes(g, q, root, data) IN
         /\ found \in Seq(Nat) /\ IsInjective(found)
         /\ \A n \in ToSet(found) : n \in Around(g, root) /\ Stops(g, q, data, n)
         /\ \A x \in ReachedBy(Onward(g, q, data), {root}) :
              Stops(g, q, data, x) => x \in ToSet(found)
<1> DEFINE found == FindStartNodes(g, q, root, data)
           U == Around(g, root)
           T == {f \in Seq(Nat) : /\ IsInjective(f)
                                  /\ \A n \in ToSet(f) : n \in U /\ Stops(g, q, data, n)}
<1>1. PICK v : Starting(v, g, q, data) /\ found = v[Depth(g)][{}][<<>>][root]
  BY FindSearch
<1>2. /\ IsFiniteSet(U) /\ U \subseteq Nat /\ Depth(g) \in Nat
      /\ Cardinality(U) \in Nat /\ Cardinality(U) < Depth(g)
  BY AroundIs
<1> HIDE DEF found
<1>3. root \in U /\ \A c \in ToSet(g.conns) : c.to \in U
  BY DEF Around
<1>4. found \in T
  <2>1. ClosedFor(U, g, q, data)
    BY <1>2, <1>3 DEF ClosedFor, FlowsFrom
  <2>2. KeepsFinding(T, U, g, q, data)
    <3>1. ASSUME NEW f \in T, NEW n \in U, Stops(g, q, data, n) PROVE Add(f, n) \in T
      <4>1. f \in Seq(Nat) /\ IsInjective(f) /\ n \in Nat
        BY <1>2
      <4>2. /\ Add(f, n) \in Seq(Nat) /\ ToSet(Add(f, n)) = ToSet(f) \cup {n}
            /\ IsInjective(f) => IsInjective(Add(f, n))
        BY <4>1, NatAddIs
      <4> HIDE DEF U
      <4> QED
        BY <3>1, <4>1, <4>2
    <3>2. T \subseteq Seq(Nat)
      OBVIOUS
    <3> HIDE DEF T, U
    <3> QED
      BY <3>1, <3>2 DEF KeepsFinding
  <2>3. <<>> \in T
    BY NothingIs
  <2> HIDE DEF T, U
  <2> QED
    BY <1>1, <1>2, <1>3, <2>1, <2>2, <2>3, StartsKeep
<1>5. ASSUME NEW x \in ReachedBy(Onward(g, q, data), {root}), Stops(g, q, data, x)
      PROVE  x \in ToSet(found)
  <2>1. Outside(Onward(g, q, data), {}) = Onward(g, q, data)
    BY DEF Outside
  <2>2. U \ {} = U /\ <<>> \in Seq(Nat) /\ {} \in SUBSET Nat
    BY NothingIs
  <2>3. x \in ReachedBy(Outside(Onward(g, q, data), {}), {root})
    BY <1>5, <2>1
  <2>4. Left(Around(g, root), {}) < Depth(g)
    BY <1>2, <2>2 DEF Left
  <2>5. x \in ToSet(v[Depth(g)][{}][<<>>][root])
    <3> HIDE DEF U
    <3> QED
      BY <1>1, <1>2, <1>3, <1>5, <2>2, <2>3, <2>4, StartsComplete DEF U
  <2> QED
    BY <1>1, <2>5
<1> QED
  BY <1>4, <1>5 DEF found
-----------------------------------------------------------------------------
(***************************************************************************)
(* The search through depth and the components                             *)
(***************************************************************************)

Reach(g, n) == Downstream(ToSet(g.conns), {n})

LEMMA ReachIs ==
  ASSUME NEW g \in DirectedGraphs, NEW n
  PROVE  /\ n \in Reach(g, n)
         /\ \A c \in ToSet(g.conns) : c.from \in Reach(g, n) => c.to \in Reach(g, n)
         /\ \A S : n \in S /\ (\A c \in ToSet(g.conns) : c.from \in S => c.to \in S)
                     => Reach(g, n) \subseteq S
         /\ \A m \in Reach(g, n) : Reach(g, m) \subseteq Reach(g, n)
         /\ Reach(g, n) = {n} \cup Children(g, n)
<1> DEFINE C == ToSet(g.conns)
           N == {c.to : c \in {d \in C : d.from = n}}
<1>1. IsFiniteSet(C)
  BY GraphIs
<1>2. Reach(g, n) = Downstream(C, {n}) /\ Children(g, n) = Downstream(C, N)
  BY DEF Reach, Children
<1> HIDE DEF C
<1>3. ASSUME NEW M
      PROVE  /\ M \subseteq Downstream(C, M)
             /\ \A c \in C : c.from \in Downstream(C, M) => c.to \in Downstream(C, M)
             /\ \A S : M \subseteq S /\ (\A c \in C : c.from \in S => c.to \in S)
                         => Downstream(C, M) \subseteq S
  BY <1>1, DownstreamIs
<1>4. /\ {n} \subseteq Reach(g, n)
      /\ \A c \in C : c.from \in Reach(g, n) => c.to \in Reach(g, n)
      /\ \A S : {n} \subseteq S /\ (\A c \in C : c.from \in S => c.to \in S) => Reach(g, n) \subseteq S
  BY <1>2, <1>3
<1>5. ASSUME NEW m \in Reach(g, n) PROVE Reach(g, m) \subseteq Reach(g, n)
  <2>1. Reach(g, m) = Downstream(C, {m}) /\ {m} \subseteq Reach(g, n)
    BY DEF Reach, C
  <2> QED
    BY <1>3, <1>4, <2>1
<1>6. Reach(g, n) \subseteq {n} \cup Children(g, n)
  <2> DEFINE S == {n} \cup Children(g, n)
  <2>1. N \subseteq Children(g, n) /\ \A c \in C : c.from \in Children(g, n) => c.to \in Children(g, n)
    BY <1>2, <1>3
  <2>2. \A c \in C : c.from \in S => c.to \in S
    BY <2>1
  <2>3. {n} \subseteq S
    OBVIOUS
  <2> HIDE DEF S, N
  <2>4. Reach(g, n) \subseteq S
    BY <1>4, <2>2, <2>3
  <2> QED
    BY <2>4 DEF S
<1>7. Children(g, n) \subseteq Reach(g, n)
  <2>1. N \subseteq Reach(g, n)
    BY <1>4
  <2> HIDE DEF N
  <2> QED
    BY <1>2, <1>3, <1>4, <2>1
<1>8. Reach(g, n) = {n} \cup Children(g, n)
  BY <1>4, <1>6, <1>7
<1> QED
  BY <1>4, <1>5, <1>8 DEF C

ConnsFrom(g, n) == {c \in ToSet(g.conns) : c.from = n}

NextOf(g, n) == Heads(ChildConns(g, n))

LEMMA NextOfIs ==
  ASSUME NEW g \in DirectedGraphs, NEW n
  PROVE  LET next == NextOf(g, n) IN
         /\ next \in Seq(Nat) /\ Len(next) \in Nat
         /\ \A k \in 1..Len(next) : next[k] \in Nat /\ \E c \in ConnsFrom(g, n) : c.to = next[k]
         /\ \A c \in ConnsFrom(g, n) : \E k \in 1..Len(next) : next[k] = c.to
<1> DEFINE S == ConnsFrom(g, n)
<1>1. S \subseteq ToSet(g.conns)
  BY DEF ConnsFrom
<1>2. NextOf(g, n) = Heads(Only(g.conns, S))
  BY DEF NextOf, ChildConns, ConnsFrom
<1> HIDE DEF S
<1>3. LET heads == Heads(Only(g.conns, S)) IN
      /\ heads \in Seq(Nat) /\ Len(heads) \in Nat
      /\ \A k \in 1..Len(heads) : heads[k] \in Nat /\ \E c \in S : c.to = heads[k]
      /\ \A c \in S : \E k \in 1..Len(heads) : heads[k] = c.to
  BY <1>1, OnlyHeads
<1> QED
  BY <1>2, <1>3 DEF S

\* depthFirstSearch
Visits == [Seq(Nat) -> [Nat -> Seq(Nat)]]

VisitMakes(r, g, deeper, seen, n) ==
  /\ n \in ToSet(seen) => r = seen
  /\ n \notin ToSet(seen) => r = Fold(deeper, Append(seen, n), NextOf(g, n))

LEMMA VisitStep ==
  ASSUME NEW g, NEW deeper, NEW seen \in Seq(Nat), NEW n \in Nat
  PROVE  VisitMakes(Visit(g, deeper)[seen][n], g, deeper, seen, n)
<1>1. Contains(seen, n) <=> n \in ToSet(seen)
  BY ToSetIs
<1>2. Visit(g, deeper)[seen][n] =
        IF Contains(seen, n) THEN seen ELSE Fold(deeper, Append(seen, n), NextOf(g, n))
  BY DEF Visit, NextOf
<1> QED
  BY <1>1, <1>2 DEF VisitMakes

LEMMA VisitIsTyped ==
  ASSUME NEW g \in DirectedGraphs, NEW deeper \in Visits
  PROVE  Visit(g, deeper) \in Visits
<1>1. ASSUME NEW seen \in Seq(Nat), NEW n \in Nat PROVE Visit(g, deeper)[seen][n] \in Seq(Nat)
  <2> DEFINE r  == Visit(g, deeper)[seen][n]
             s  == Append(seen, n)
             ns == NextOf(g, n)
  <2>1. VisitMakes(r, g, deeper, seen, n)
    BY VisitStep
  <2>2. Fold(deeper, s, ns) \in Seq(Nat)
    <3>1. Len(ns) \in Nat /\ \A k \in 1..Len(ns) : ns[k] \in Nat
      BY NextOfIs
    <3>2. s \in Seq(Nat) /\ \A x \in Seq(Nat) : \A m \in Nat : deeper[x][m] \in Seq(Nat)
      BY DEF Visits
    <3> HIDE DEF s, ns
    <3> QED
      BY <3>1, <3>2, FoldIn
  <2> HIDE DEF r
  <2>3. r \in Seq(Nat)
    BY <2>1, <2>2 DEF VisitMakes
  <2> QED
    BY <2>3 DEF r
<1> DEFINE s == Visit(g, deeper)
<1>2. s = [seen \in Seq(Nat) |-> s[seen]]
  BY DEF Visit
<1>3. \A seen \in Seq(Nat) : s[seen] = [n \in Nat |-> s[seen][n]]
  BY DEF Visit
<1>4. \A seen \in Seq(Nat) : \A n \in Nat : s[seen][n] \in Seq(Nat)
  BY <1>1
<1> HIDE DEF s
<1>5. \A seen \in Seq(Nat) : s[seen] \in [Nat -> Seq(Nat)]
  BY <1>3, <1>4
<1>6. s \in Visits
  BY <1>2, <1>5 DEF Visits
<1> QED
  BY <1>6 DEF s

Visiting(v, g) ==
  /\ v[0] = [seen \in Seq(Nat) |-> [m \in Nat |-> seen]]
  /\ \A k \in Nat : v[k] \in Visits /\ v[k + 1] = Visit(g, v[k])

LEMMA DepthFirstSearch ==
  ASSUME NEW g \in DirectedGraphs, NEW n
  PROVE  \E v : Visiting(v, g) /\ DepthFirst(g, n) = v[Depth(g)][<<>>][n]
<1> DEFINE base == [seen \in Seq(Nat) |-> [m \in Nat |-> seen]]
           next == [d \in Visits |-> Visit(g, d)]
           Is(v) == v = [k \in Nat |-> IF k = 0 THEN base ELSE Visit(g, v[k - 1])]
<1>1. base \in Visits
  BY DEF Visits
<1>2. next \in [Visits -> Visits]
  BY VisitIsTyped
<1>3. PICK u : Iterates(u, Visits, base, next)
  <2> HIDE DEF base, next
  <2> QED
    BY <1>1, <1>2, Iteration
<1>4. Is(u)
  <2>0. /\ u[0] = base /\ u \in [Nat -> Visits]
        /\ \A k \in Nat : u[k] \in Visits /\ u[k + 1] = next[u[k]]
    <3> HIDE DEF base, next
    <3> QED
      BY <1>3 DEF Iterates
  <2>1. \A k \in Nat : u[k + 1] = Visit(g, u[k])
    BY <2>0
  <2>2. ASSUME NEW k \in Nat PROVE u[k] = IF k = 0 THEN base ELSE Visit(g, u[k - 1])
    <3>1. CASE k = 0
      BY <2>0, <3>1
    <3>2. CASE k # 0
      <4>1. k - 1 \in Nat /\ (k - 1) + 1 = k
        BY <3>2
      <4> HIDE DEF base
      <4>2. u[(k - 1) + 1] = Visit(g, u[k - 1])
        BY <2>1, <4>1
      <4> QED
        BY <3>2, <4>1, <4>2
    <3> QED
      BY <3>1, <3>2
  <2>3. u = [k \in Nat |-> u[k]]
    BY <2>0
  <2> HIDE DEF base
  <2> QED
    BY <2>2, <2>3
<1> DEFINE w == CHOOSE v : Is(v)
<1>5. Is(w)
  BY <1>4
<1>6. DepthFirst(g, n) = w[Depth(g)][<<>>][n]
  BY DEF DepthFirst
<1> HIDE DEF w
<1>7. w[0] = base /\ \A k \in Nat : w[k + 1] = Visit(g, w[k])
  <2>1. \A k \in Nat : w[k] = IF k = 0 THEN base ELSE Visit(g, w[k - 1])
    <3> HIDE DEF base
    <3> QED
      BY <1>5
  <2>2. \A k \in Nat : k + 1 \in Nat /\ k + 1 # 0 /\ (k + 1) - 1 = k
    OBVIOUS
  <2> HIDE DEF base
  <2>3. w[0] = base
    BY <2>1
  <2>4. ASSUME NEW k \in Nat PROVE w[k + 1] = Visit(g, w[k])
    <3>1. w[k + 1] = Visit(g, w[(k + 1) - 1])
      BY <2>1, <2>2
    <3> QED
      BY <2>2, <3>1
  <2> QED
    BY <2>3, <2>4
<1>8. \A k \in Nat : w[k] \in Visits
  <2> DEFINE S == {k \in Nat : w[k] \in Visits}
  <2> HIDE DEF base
  <2>1. 0 \in S
    BY <1>1, <1>7
  <2>2. \A k \in Nat : k \in S => k + 1 \in S
    BY <1>7, VisitIsTyped
  <2>3. Nat \subseteq S
    <3> HIDE DEF S
    <3> QED
      BY <2>1, <2>2, NatSetInduction
  <2> QED
    BY <2>3
<1>9. Visiting(w, g)
  BY <1>7, <1>8 DEF Visiting
<1> QED
  BY <1>6, <1>9
\* What a search does to what it has seen: what it adds has its children there.
Closes(s, r, g) ==
  /\ ToSet(s) \subseteq ToSet(r)
  /\ \A x \in ToSet(r) \ ToSet(s) : \A c \in ConnsFrom(g, x) : c.to \in ToSet(r)

LEMMA ClosesTwice ==
  ASSUME NEW g, NEW s, NEW r, NEW t, Closes(s, r, g), Closes(r, t, g)
  PROVE  Closes(s, t, g)
BY DEF Closes

LEMMA VisitAgain ==
  ASSUME NEW g \in DirectedGraphs, NEW v, Visiting(v, g), NEW k \in Nat,
         NEW s \in Seq(Nat), NEW n \in ToSet(s)
  PROVE  v[k][s][n] = s
<1>1. n \in Nat
  BY ToSetIs
<1>2. CASE k = 0
  BY <1>1, <1>2 DEF Visiting
<1>3. CASE k # 0
  <2>1. k - 1 \in Nat /\ (k - 1) + 1 = k
    BY <1>3
  <2> DEFINE i == k - 1
  <2> HIDE DEF i
  <2>2. v[i + 1] = Visit(g, v[i])
    BY <2>1 DEF Visiting, i
  <2>3. VisitMakes(Visit(g, v[i])[s][n], g, v[i], s, n)
    BY <1>1, VisitStep
  <2>4. v[i + 1][s][n] = s
    BY <2>2, <2>3 DEF VisitMakes
  <2> QED
    BY <2>1, <2>4 DEF i
<1> QED
  BY <1>2, <1>3

LEMMA VisitCloses ==
  ASSUME NEW g \in DirectedGraphs, NEW root \in Nat, NEW v, Visiting(v, g), NEW k \in Nat,
         NEW s \in Seq(Nat), NEW n \in Around(g, root), Left(Around(g, root), ToSet(s)) < k
  PROVE  Closes(s, v[k][s][n], g) /\ n \in ToSet(v[k][s][n])
<1> DEFINE U == Around(g, root)
           Done(i, a, m) == Closes(a, v[i][a][m], g) /\ m \in ToSet(v[i][a][m])
           S == {i \in Nat : \A a \in Seq(Nat) : \A m \in U : Left(U, ToSet(a)) < i => Done(i, a, m)}
<1>1. IsFiniteSet(U) /\ U \subseteq Nat
  BY AroundIs
<1>2. \A c \in ToSet(g.conns) : c.to \in U
  BY DEF Around
<1> HIDE DEF U
<1>3. 0 \in S
  <2>1. \A a : ~(Left(U, a) < 0)
    <3>1. \A a : Left(U, a) \in Nat
      BY <1>1, LeftIs
    <3> QED
      BY <3>1
  <2> HIDE DEF Done
  <2> QED
    BY <2>1
<1>4. ASSUME NEW i \in Nat, i \in S PROVE i + 1 \in S
  <2>1. ASSUME NEW a \in Seq(Nat), NEW m \in U, Left(U, ToSet(a)) < i + 1, m \notin ToSet(a)
        PROVE  Done(i + 1, a, m)
    <3> DEFINE d  == v[i]
               b  == Append(a, m)
               ns == NextOf(g, m)
               r  == Fold(d, b, ns)
               T  == {x \in Seq(Nat) : Closes(b, x, g)}
    <3>1. m \in Nat /\ v[i + 1] = Visit(g, v[i]) /\ v[i] \in Visits
      BY <1>1 DEF Visiting
    <3>2. b \in Seq(Nat) /\ ToSet(b) = ToSet(a) \cup {m}
      BY <3>1, AppendIs
    <3>3. v[i + 1][a][m] = r
      <4>1. VisitMakes(Visit(g, v[i])[a][m], g, v[i], a, m)
        BY <3>1, VisitStep
      <4> QED
        BY <2>1, <3>1, <4>1 DEF VisitMakes
    <3>4. /\ Len(ns) \in Nat
          /\ \A j \in 1..Len(ns) : ns[j] \in Nat /\ \E c \in ConnsFrom(g, m) : c.to = ns[j]
          /\ \A c \in ConnsFrom(g, m) : \E j \in 1..Len(ns) : ns[j] = c.to
      BY NextOfIs
    <3>5. \A j \in 1..Len(ns) : ns[j] \in U
      BY <1>2, <3>4 DEF ConnsFrom
    <3>6. \A x \in Seq(Nat) : \A y \in Nat : d[x][y] \in Seq(Nat)
      BY <3>1 DEF Visits
    <3>7. Left(U, ToSet(b)) < i
      <4>1. Left(U, ToSet(a)) \in Nat /\ Left(U, ToSet(a) \cup {m}) < Left(U, ToSet(a))
            /\ Left(U, ToSet(a) \cup {m}) \in Nat
        BY <1>1, <2>1, LeftIs
      <4>2. Left(U, ToSet(b)) = Left(U, ToSet(a) \cup {m})
        BY <3>2
      <4> QED
        BY <2>1, <4>1, <4>2
    <3> HIDE DEF b, ns
    <3>8. ASSUME NEW x \in T, NEW y \in U
          PROVE  d[x][y] \in T /\ y \in ToSet(d[x][y]) /\ ToSet(x) \subseteq ToSet(d[x][y])
      <4>1. x \in Seq(Nat) /\ Closes(b, x, g) /\ y \in Nat
        BY <1>1
      <4>2. CASE y \in ToSet(x)
        <5>1. v[i][x][y] = x
          BY <4>1, <4>2, VisitAgain
        <5> QED
          BY <4>1, <4>2, <5>1
      <4>3. CASE y \notin ToSet(x)
        <5>1. ToSet(b) \subseteq ToSet(x)
          BY <4>1 DEF Closes
        <5>2. Left(U, ToSet(x)) <= Left(U, ToSet(b)) /\ Left(U, ToSet(x)) \in Nat /\ Left(U, ToSet(b)) \in Nat
          BY <1>1, <5>1, LeftIs
        <5>3. Left(U, ToSet(x)) < i
          BY <3>7, <5>2
        <5>4. Done(i, x, y)
          <6> HIDE DEF Done
          <6> QED
            BY <1>4, <4>1, <5>3
        <5>5. Closes(x, d[x][y], g) /\ y \in ToSet(d[x][y])
          BY <5>4
        <5> HIDE DEF d
        <5>6. Closes(b, d[x][y], g)
          BY <4>1, <5>5, ClosesTwice
        <5>7. d[x][y] \in Seq(Nat)
          BY <3>6, <4>1
        <5> QED
          BY <5>5, <5>6, <5>7 DEF Closes
      <4> QED
        BY <4>2, <4>3
    <3>9. b \in T
      BY <3>2 DEF Closes
    <3> HIDE DEF d
    <3>10. r \in T
      <4>1. \A x \in T : \A j \in 1..Len(ns) : d[x][ns[j]] \in T
        BY <3>5, <3>8
      <4> HIDE DEF T
      <4> QED
        BY <3>4, <3>9, <4>1, FoldIn
    <3>11. ASSUME NEW c \in ConnsFrom(g, m) PROVE c.to \in ToSet(r)
      <4>1. PICK j \in 1..Len(ns) : ns[j] = c.to
        BY <3>4
      <4> DEFINE K == {x \in Seq(Nat) : c.to \in ToSet(x)}
      <4>2. \A x \in T : \A l \in 1..Len(ns) : d[x][ns[l]] \in T
        BY <3>5, <3>8
      <4>3. \A x \in T : d[x][ns[j]] \in K
        <5>1. ASSUME NEW x \in T PROVE d[x][ns[j]] \in Seq(Nat) /\ ns[j] \in ToSet(d[x][ns[j]])
          BY <3>4, <3>5, <3>6, <3>8
        <5> QED
          BY <4>1, <5>1
      <4>4. \A x \in T : \A l \in 1..Len(ns) : x \in K => d[x][ns[l]] \in K
        <5>1. ASSUME NEW x \in T, NEW l \in 1..Len(ns)
              PROVE  d[x][ns[l]] \in Seq(Nat) /\ ToSet(x) \subseteq ToSet(d[x][ns[l]])
          BY <3>4, <3>5, <3>6, <3>8
        <5> QED
          BY <5>1
      <4>5. r \in K
        <5> HIDE DEF T, K
        <5> QED
          BY <3>4, <3>9, <4>1, <4>2, <4>3, <4>4, FoldReaches
      <4> QED
        BY <4>5
    <3> HIDE DEF r
    <3>12. Closes(a, r, g) /\ m \in ToSet(r)
      BY <3>2, <3>10, <3>11 DEF Closes
    <3> QED
      BY <3>3, <3>12
  <2>2. ASSUME NEW a \in Seq(Nat), NEW m \in U, m \in ToSet(a) PROVE Done(i + 1, a, m)
    <3>1. v[i + 1][a][m] = a
      BY <2>2, VisitAgain
    <3> QED
      BY <2>2, <3>1 DEF Closes
  <2> HIDE DEF Done
  <2> QED
    BY <2>1, <2>2
<1>5. k \in S
  <2> HIDE DEF S
  <2> QED
    BY <1>3, <1>4, NatSetInduction
<1>6. Done(k, s, n)
  <2>1. n \in U /\ Left(U, ToSet(s)) < k
    BY DEF U
  <2> HIDE DEF Done
  <2> QED
    BY <1>5, <2>1
<1> QED
  BY <1>6

\* depthFirstSearch comes to all that is reached from the node.
LEMMA DepthFirstIs ==
  ASSUME NEW g \in DirectedGraphs, NEW n \in Nat
  PROVE  DepthFirst(g, n) \in Seq(Nat) /\ Reach(g, n) \subseteq ToSet(DepthFirst(g, n))
<1> DEFINE U == Around(g, n)
           r == DepthFirst(g, n)
<1>1. PICK v : Visiting(v, g) /\ r = v[Depth(g)][<<>>][n]
  BY DepthFirstSearch
<1>2. /\ IsFiniteSet(U) /\ U \subseteq Nat /\ Depth(g) \in Nat /\ n \in U
      /\ Cardinality(U) \in Nat /\ Cardinality(U) < Depth(g)
  BY AroundIs DEF Around
<1>3. ToSet(<<>>) = {} /\ <<>> \in Seq(Nat)
  BY NothingIs
<1>4. Left(U, ToSet(<<>>)) < Depth(g)
  <2>1. U \ {} = U
    OBVIOUS
  <2> HIDE DEF U
  <2> QED
    BY <1>2, <1>3, <2>1 DEF Left
<1> HIDE DEF r
<1>5. v[Depth(g)][<<>>][n] \in Seq(Nat)
  <2> DEFINE d == v[Depth(g)]
  <2>1. d \in Visits
    BY <1>1, <1>2 DEF Visiting
  <2> HIDE DEF d
  <2>2. \A s \in Seq(Nat) : \A m \in Nat : d[s][m] \in Seq(Nat)
    BY <2>1 DEF Visits
  <2>3. d[<<>>][n] \in Seq(Nat)
    BY <1>3, <2>2
  <2> QED
    BY <2>3 DEF d
<1>6. Closes(<<>>, r, g) /\ n \in ToSet(r)
  BY <1>1, <1>2, <1>3, <1>4, VisitCloses
<1>7. \A c \in ToSet(g.conns) : c.from \in ToSet(r) => c.to \in ToSet(r)
  BY <1>3, <1>6 DEF Closes, ConnsFrom
<1>8. Reach(g, n) \subseteq ToSet(r)
  BY <1>6, <1>7, ReachIs
<1> QED
  BY <1>1, <1>5, <1>8 DEF r
-----------------------------------------------------------------------------
\* getStronglyConnectedComponents.  What followNode does with numbers that make
\* no sense has no type, so its iterates are put together from finite pieces.
Unfollowed == [t \in Searches |-> [n \in Nat |-> t]]

Following(v, g) == v[0] = Unfollowed /\ \A k \in Nat : v[k + 1] = FollowNode(g, v[k])

FollowingTo(v, g, n) ==
  v[0] = Unfollowed /\ \A k \in Nat : k < n => v[k + 1] = FollowNode(g, v[k])

LEMMA FollowsSomeWay ==
  ASSUME NEW g, NEW n \in Nat
  PROVE  \E v : FollowingTo(v, g, n)
<1> DEFINE S == {i \in Nat : \E v : FollowingTo(v, g, i)}
<1>1. 0 \in S
  <2> DEFINE v == [k \in Nat |-> Unfollowed]
  <2>1. v[0] = Unfollowed
    OBVIOUS
  <2> HIDE DEF v
  <2>2. FollowingTo(v, g, 0)
    BY <2>1 DEF FollowingTo
  <2> QED
    BY <2>2
<1>2. ASSUME NEW i \in Nat, i \in S PROVE i + 1 \in S
  <2>1. PICK v : FollowingTo(v, g, i)
    BY <1>2
  <2> DEFINE w == [k \in Nat |-> IF k <= i THEN v[k] ELSE FollowNode(g, v[i])]
  <2>2. \A k \in Nat : k <= i => w[k] = v[k]
    OBVIOUS
  <2>3. w[i + 1] = FollowNode(g, v[i])
    OBVIOUS
  <2> HIDE DEF w
  <2>4. w[0] = Unfollowed
    BY <2>1, <2>2 DEF FollowingTo
  <2>5. ASSUME NEW k \in Nat, k < i + 1 PROVE w[k + 1] = FollowNode(g, w[k])
    <3>1. CASE k = i
      <4>1. w[i] = v[i]
        BY <2>2
      <4> QED
        BY <2>3, <3>1, <4>1
    <3>2. CASE k # i
      <4>1. k < i /\ k + 1 <= i /\ k <= i /\ k + 1 \in Nat
        BY <2>5, <3>2
      <4>2. w[k] = v[k] /\ w[k + 1] = v[k + 1]
        BY <2>2, <4>1
      <4>3. v[k + 1] = FollowNode(g, v[k])
        BY <2>1, <4>1 DEF FollowingTo
      <4> QED
        BY <4>2, <4>3
    <3> QED
      BY <3>1, <3>2
  <2>6. FollowingTo(w, g, i + 1)
    BY <2>4, <2>5 DEF FollowingTo
  <2> QED
    BY <2>6
<1>3. n \in S
  <2> HIDE DEF S
  <2> QED
    BY <1>1, <1>2, NatSetInduction
<1> QED
  BY <1>3

LEMMA FollowsOneWay ==
  ASSUME NEW g, NEW v, NEW w, NEW m \in Nat, FollowingTo(v, g, m), FollowingTo(w, g, m),
         NEW n \in Nat, n <= m
  PROVE  v[n] = w[n]
<1> DEFINE S == {i \in Nat : i <= m => v[i] = w[i]}
<1>1. 0 \in S
  BY DEF FollowingTo
<1>2. ASSUME NEW i \in Nat, i \in S PROVE i + 1 \in S
  <2>1. ASSUME i + 1 <= m PROVE v[i + 1] = w[i + 1]
    <3>1. i < m /\ i <= m
      BY <2>1
    <3>2. v[i + 1] = FollowNode(g, v[i]) /\ w[i + 1] = FollowNode(g, w[i])
      BY <3>1 DEF FollowingTo
    <3> QED
      BY <1>2, <3>1, <3>2
  <2> QED
    BY <2>1
<1>3. n \in S
  <2> HIDE DEF S
  <2> QED
    BY <1>1, <1>2, NatSetInduction
<1> QED
  BY <1>3

LEMMA Followable ==
  ASSUME NEW g
  PROVE  \E v : Following(v, g) /\ v = [k \in Nat |-> v[k]]
<1> DEFINE to(n) == CHOOSE v : FollowingTo(v, g, n)
           f == [k \in Nat |-> to(k)[k]]
<1>1. \A n \in Nat : FollowingTo(to(n), g, n)
  BY FollowsSomeWay
<1>2. \A k \in Nat : f[k] = to(k)[k]
  OBVIOUS
<1>3. f = [k \in Nat |-> f[k]]
  OBVIOUS
<1> HIDE DEF f, to
<1>4. f[0] = Unfollowed
  BY <1>1, <1>2 DEF FollowingTo
<1>5. ASSUME NEW k \in Nat PROVE f[k + 1] = FollowNode(g, f[k])
  <2>1. k + 1 \in Nat /\ k < k + 1 /\ k <= k
    OBVIOUS
  <2> DEFINE u == to(k + 1)
  <2>2. FollowingTo(u, g, k + 1) /\ f[k + 1] = u[k + 1]
    BY <1>1, <1>2, <2>1
  <2> HIDE DEF u
  <2>3. FollowingTo(u, g, k)
    <3>1. \A i \in Nat : i < k => i < k + 1
      OBVIOUS
    <3> QED
      BY <2>2, <3>1 DEF FollowingTo
  <2>4. u[k] = to(k)[k]
    BY <1>1, <2>1, <2>3, FollowsOneWay
  <2>5. u[k + 1] = FollowNode(g, u[k])
    BY <2>1, <2>2 DEF FollowingTo
  <2> QED
    BY <1>2, <2>2, <2>4, <2>5
<1>6. Following(f, g)
  BY <1>4, <1>5 DEF Following
<1> QED
  BY <1>3, <1>6

NoSearch == [order |-> <<>>, low |-> <<>>, stack |-> <<>>, found |-> <<>>]

LEMMA ComponentSearch ==
  ASSUME NEW g \in DirectedGraphs
  PROVE  \E v : /\ Following(v, g)
                /\ StronglyConnectedComponents(g) = Fold(v[Depth(g)], NoSearch, g.nodes).found
<1> DEFINE Is(v) == v = [k \in Nat |-> IF k = 0 THEN Unfollowed ELSE FollowNode(g, v[k - 1])]
<1>1. PICK u : Following(u, g) /\ u = [k \in Nat |-> u[k]]
  BY Followable
<1>2. Is(u)
  <2>1. ASSUME NEW k \in Nat PROVE u[k] = IF k = 0 THEN Unfollowed ELSE FollowNode(g, u[k - 1])
    <3>1. CASE k = 0
      BY <1>1, <3>1 DEF Following
    <3>2. CASE k # 0
      <4>1. k - 1 \in Nat /\ (k - 1) + 1 = k
        BY <3>2
      <4>2. u[(k - 1) + 1] = FollowNode(g, u[k - 1])
        BY <1>1, <4>1 DEF Following
      <4> QED
        BY <3>2, <4>1, <4>2
    <3> QED
      BY <3>1, <3>2
  <2> QED
    BY <1>1, <2>1
<1> DEFINE w == CHOOSE v : Is(v)
<1>3. Is(w)
  BY <1>2
<1>4. StronglyConnectedComponents(g) = Fold(w[Depth(g)], NoSearch, g.nodes).found
  BY DEF StronglyConnectedComponents, NoSearch, Unfollowed
<1> HIDE DEF w
<1>5. Following(w, g)
  <2>1. \A k \in Nat : w[k] = IF k = 0 THEN Unfollowed ELSE FollowNode(g, w[k - 1])
    BY <1>3
  <2>2. \A k \in Nat : k + 1 \in Nat /\ k + 1 # 0 /\ (k + 1) - 1 = k
    OBVIOUS
  <2>3. w[0] = Unfollowed
    BY <2>1
  <2>4. ASSUME NEW k \in Nat PROVE w[k + 1] = FollowNode(g, w[k])
    <3>1. w[k + 1] = FollowNode(g, w[(k + 1) - 1])
      BY <2>1, <2>2
    <3> QED
      BY <2>2, <3>1
  <2> QED
    BY <2>3, <2>4 DEF Following
<1> QED
  BY <1>4, <1>5
-----------------------------------------------------------------------------
\* What holds of the search for components: a low link is the number of a node
\* that is reached, and the nodes of a component reach one another.
Sound(g, t) ==
  /\ t \in Searches
  /\ Len(t.low) = Len(t.order)
  /\ ToSet(t.stack) \subseteq ToSet(t.order)
  /\ \A i \in 1..Len(t.order) : t.low[i] \in 1..i /\ t.order[t.low[i]] \in Reach(g, t.order[i])
  /\ \A k \in 1..Len(t.found) : \A x, y \in t.found[k] : y \in Reach(g, x)

LEMMA SoundIs ==
  ASSUME NEW g, NEW t, Sound(g, t)
  PROVE  /\ t.order \in Seq(Nat) /\ t.low \in Seq(Nat) /\ t.stack \in Seq(Nat)
         /\ t.found \in Seq(SUBSET Nat)
         /\ t = [order |-> t.order, low |-> t.low, stack |-> t.stack, found |-> t.found]
         /\ Len(t.order) \in Nat /\ DOMAIN t.order = 1..Len(t.order)
         /\ \A i \in 1..Len(t.order) : t.order[i] \in Nat /\ t.low[i] \in Nat
         /\ \A x \in ToSet(t.order) : \E i \in 1..Len(t.order) : x = t.order[i]
<1>1. /\ t.order \in Seq(Nat) /\ t.low \in Seq(Nat) /\ t.stack \in Seq(Nat)
      /\ t.found \in Seq(SUBSET Nat)
      /\ t = [order |-> t.order, low |-> t.low, stack |-> t.stack, found |-> t.found]
  BY DEF Sound, Searches
<1>2. Len(t.low) = Len(t.order)
  BY DEF Sound
<1>3. /\ Len(t.order) \in Nat /\ DOMAIN t.order = 1..Len(t.order)
      /\ \A i \in 1..Len(t.order) : t.order[i] \in Nat
      /\ \A x \in ToSet(t.order) : \E i \in 1..Len(t.order) : x = t.order[i]
  BY <1>1, NumbersAre
<1>4. \A i \in 1..Len(t.low) : t.low[i] \in Nat
  BY <1>1, NumbersAre
<1> QED
  BY <1>1, <1>2, <1>3, <1>4

LEMMA LowLinkIs ==
  ASSUME NEW g, NEW t, Sound(g, t), NEW m \in ToSet(t.order)
  PROVE  \E i \in 1..Len(t.order) :
           t.order[i] = m /\ LowLink(t, m) = t.low[i] /\ t.low[i] \in 1..i
<1>1. \E i \in DOMAIN t.order : t.order[i] = m
  BY SoundIs
<1>2. NumberOf(t, m) \in DOMAIN t.order /\ t.order[NumberOf(t, m)] = m
  BY <1>1 DEF NumberOf
<1>3. DOMAIN t.order = 1..Len(t.order)
  BY SoundIs
<1>4. \A i \in 1..Len(t.order) : t.low[i] \in 1..i
  BY DEF Sound
<1> QED
  BY <1>2, <1>3, <1>4 DEF LowLink

LEMMA LowerIs ==
  ASSUME NEW g \in DirectedGraphs, NEW t, Sound(g, t), NEW id \in 1..Len(t.order),
         NEW m \in Reach(g, t.order[id])
  PROVE  Sound(g, Lower(t, id, m)) /\ Lower(t, id, m).order = t.order
<1>1. t.stack \in Seq(Nat)
  BY SoundIs
<1>2. Contains(t.stack, m) <=> m \in ToSet(t.stack)
  BY <1>1, ToSetIs
<1>3. CASE m \notin ToSet(t.stack)
  BY <1>2, <1>3 DEF Lower
<1>4. CASE m \in ToSet(t.stack)
  <2> DEFINE least == Min({t.low[id], LowLink(t, m)})
             low   == [t.low EXCEPT ![id] = least]
             u     == [order |-> t.order, low |-> low, stack |-> t.stack, found |-> t.found]
  <2>1. PICK i \in 1..Len(t.order) : t.order[i] = m /\ LowLink(t, m) = t.low[i] /\ t.low[i] \in 1..i
    <3>1. m \in ToSet(t.order)
      BY <1>4 DEF Sound
    <3> QED
      BY <3>1, LowLinkIs
  <2>2. /\ t.order \in Seq(Nat) /\ t.low \in Seq(Nat) /\ t.found \in Seq(SUBSET Nat)
        /\ t = [order |-> t.order, low |-> t.low, stack |-> t.stack, found |-> t.found]
        /\ Len(t.order) \in Nat
        /\ \A j \in 1..Len(t.order) : t.low[j] \in Nat
    BY SoundIs
  <2>3. Len(t.low) = Len(t.order)
    BY DEF Sound
  <2>4. /\ \A j \in 1..Len(t.order) : t.low[j] \in 1..j /\ t.order[t.low[j]] \in Reach(g, t.order[j])
        /\ ToSet(t.stack) \subseteq ToSet(t.order)
        /\ \A k \in 1..Len(t.found) : \A x, y \in t.found[k] : y \in Reach(g, x)
    BY DEF Sound
  <2>5. least \in {t.low[id], t.low[i]} /\ least <= t.low[id] /\ least \in Nat
    <3> DEFINE S == {t.low[id], t.low[i]}
    <3>1. S \in SUBSET Nat /\ S # {} /\ t.low[id] \in S
      BY <2>2
    <3>2. least = Min(S)
      BY <2>1
    <3> HIDE DEF S, least
    <3>3. least \in S /\ least <= t.low[id] /\ least \in Nat
      BY <3>1, <3>2, MinIs
    <3> QED
      BY <3>3 DEF S
  <2>6. least \in 1..id /\ t.order[least] \in Reach(g, t.order[id])
    <3>1. t.low[id] \in 1..id /\ t.order[t.low[id]] \in Reach(g, t.order[id])
      BY <2>4
    <3>2. t.order[t.low[i]] \in Reach(g, m) /\ t.low[i] \in 1..i
      BY <2>1, <2>4
    <3>3. Reach(g, m) \subseteq Reach(g, t.order[id])
      BY ReachIs
    <3> HIDE DEF least
    <3>4. CASE least = t.low[id]
      BY <3>1, <3>4
    <3>5. CASE least = t.low[i]
      BY <2>5, <3>1, <3>2, <3>3, <3>5
    <3> QED
      BY <2>5, <3>4, <3>5
  <2> HIDE DEF least
  <2>7. low \in Seq(Nat) /\ Len(low) = Len(t.order) /\ low[id] = least
        /\ \A j \in 1..Len(t.order) : j # id => low[j] = t.low[j]
    BY <2>2, <2>3, <2>5
  <2>8. Lower(t, id, m) = u
    <3>1. Lower(t, id, m) = [t EXCEPT !.low[id] = least]
      BY <1>2, <1>4 DEF Lower, least
    <3> QED
      BY <2>2, <3>1
  <2> HIDE DEF low
  <2>9. u.order = t.order /\ u.low = low /\ u.stack = t.stack /\ u.found = t.found /\ u \in Searches
    BY <1>1, <2>2, <2>7 DEF Searches
  <2> HIDE DEF u
  <2>10. \A j \in 1..Len(u.order) : u.low[j] \in 1..j /\ u.order[u.low[j]] \in Reach(g, u.order[j])
    BY <2>4, <2>6, <2>7, <2>9
  <2>11. Sound(g, u)
    BY <2>4, <2>7, <2>9, <2>10 DEF Sound
  <2> QED
    BY <2>8, <2>9, <2>11
<1> QED
  BY <1>3, <1>4

LEMMA PopIs ==
  ASSUME NEW g \in DirectedGraphs, NEW t, Sound(g, t), NEW id \in 1..Len(t.order),
         \A i \in id..Len(t.order) : t.order[i] \in Reach(g, t.order[id])
  PROVE  Sound(g, Pop(t, id)) /\ Pop(t, id).order = t.order
<1> DEFINE others == {i \in DOMAIN t.stack : LowLink(t, t.stack[i]) # id}
           rest   == IF others = {} THEN 0 ELSE Max(others)
           popped == {t.stack[i] : i \in rest + 1 .. Len(t.stack)}
           left   == SubSeq(t.stack, 1, rest)
           u      == [order |-> t.order, low |-> t.low, stack |-> left,
                      found |-> Append(t.found, popped)]
<1>1. /\ t.order \in Seq(Nat) /\ t.low \in Seq(Nat) /\ t.stack \in Seq(Nat)
      /\ t.found \in Seq(SUBSET Nat)
      /\ t = [order |-> t.order, low |-> t.low, stack |-> t.stack, found |-> t.found]
  BY SoundIs
<1>2. Pop(t, id) = IF t.low[id] # id \/ popped = {} THEN t
                   ELSE [t EXCEPT !.stack = left, !.found = Append(t.found, popped)]
  BY DEF Pop
<1>3. DOMAIN t.stack = 1..Len(t.stack) /\ Len(t.stack) \in Nat
      /\ \A i \in 1..Len(t.stack) : t.stack[i] \in Nat /\ t.stack[i] \in ToSet(t.stack)
  BY <1>1, NumbersAre
<1>4. rest \in 0..Len(t.stack) /\ \A i \in rest + 1 .. Len(t.stack) : i \notin others
  <2>1. CASE others = {}
    BY <1>3, <2>1
  <2>2. CASE others # {}
    <3>1. others \in SUBSET (1..Len(t.stack))
      BY <1>3
    <3>2. IsFiniteSet(1..Len(t.stack))
      BY <1>3, FS_Interval
    <3> HIDE DEF others
    <3>3. others \in SUBSET Nat
      BY <1>3, <3>1
    <3>4. IsFiniteSet(others)
      BY <3>1, <3>2, FS_Subset
    <3>5. Max(others) \in others /\ \A i \in others : Max(others) >= i
      BY <2>2, <3>3, <3>4, MaxIs
    <3>6. rest = Max(others)
      BY <2>2
    <3> HIDE DEF rest
    <3>7. rest \in 1..Len(t.stack) /\ \A i \in others : rest >= i
      BY <3>1, <3>5, <3>6
    <3>8. \A i \in rest + 1 .. Len(t.stack) : i \notin others
      BY <1>3, <3>7
    <3>9. rest \in 0..Len(t.stack)
      BY <1>3, <3>7
    <3> QED
      BY <3>8, <3>9
  <2> QED
    BY <2>1, <2>2
<1>5. ASSUME NEW x \in popped
      PROVE  x \in Nat /\ x \in Reach(g, t.order[id]) /\ t.order[id] \in Reach(g, x)
  <2>1. PICK i \in rest + 1 .. Len(t.stack) : x = t.stack[i]
    OBVIOUS
  <2>2. i \in 1..Len(t.stack)
    BY <1>3, <1>4
  <2>3. LowLink(t, x) = id
    BY <1>3, <1>4, <2>1, <2>2
  <2> HIDE DEF rest, popped, others
  <2>4. x \in Nat /\ x \in ToSet(t.order)
    BY <1>3, <2>1, <2>2 DEF Sound
  <2>5. PICK j \in 1..Len(t.order) : t.order[j] = x /\ LowLink(t, x) = t.low[j] /\ t.low[j] \in 1..j
    BY <2>4, LowLinkIs
  <2>6. t.order[t.low[j]] \in Reach(g, t.order[j])
    BY DEF Sound
  <2>7. j \in id..Len(t.order)
    BY <2>3, <2>5
  <2> QED
    BY <2>3, <2>4, <2>5, <2>6, <2>7
<1>6. popped \in SUBSET Nat
  <2> HIDE DEF popped
  <2> QED
    BY <1>5
<1>7. left \in Seq(Nat) /\ ToSet(left) \subseteq ToSet(t.stack)
  <2> HIDE DEF rest
  <2>1. /\ left \in Seq(Nat) /\ Len(left) = rest
        /\ \A i \in 1..rest : left[i] = t.stack[i]
    BY <1>1, <1>3, <1>4, SMTT(30)
  <2> HIDE DEF left
  <2>2. \A x \in ToSet(left) : \E k \in 1..Len(left) : x = left[k]
    BY <2>1, NumbersAre
  <2>3. ASSUME NEW x \in ToSet(left) PROVE x \in ToSet(t.stack)
    <3>1. PICK k \in 1..rest : x = left[k]
      BY <2>1, <2>2
    <3>2. k \in 1..Len(t.stack)
      BY <1>3, <1>4
    <3> QED
      BY <1>3, <2>1, <3>1, <3>2
  <2> QED
    BY <2>1, <2>3
<1>8. CASE t.low[id] # id \/ popped = {}
  <2> HIDE DEF popped
  <2> QED
    BY <1>2, <1>8
<1>9. CASE ~(t.low[id] # id \/ popped = {})
  <2> HIDE DEF popped, left
  <2>1. Pop(t, id) = u
    <3>1. Pop(t, id) = [t EXCEPT !.stack = left, !.found = Append(t.found, popped)]
      BY <1>2, <1>9
    <3> QED
      BY <1>1, <3>1
  <2>2. /\ Append(t.found, popped) \in Seq(SUBSET Nat)
        /\ Len(Append(t.found, popped)) = Len(t.found) + 1
        /\ \A k \in 1..Len(t.found) : Append(t.found, popped)[k] = t.found[k]
        /\ Append(t.found, popped)[Len(t.found) + 1] = popped
    BY <1>1, <1>6, AppendIs
  <2>3. Len(t.found) \in Nat
    BY <1>1
  <2>4. u.order = t.order /\ u.low = t.low /\ u.stack = left /\ u \in Searches
        /\ u.found = Append(t.found, popped)
    BY <1>1, <1>7, <2>2 DEF Searches
  <2> HIDE DEF u
  <2>5. \A x, y \in popped : y \in Reach(g, x)
    <3>1. ASSUME NEW x \in popped, NEW y \in popped PROVE y \in Reach(g, x)
      <4>1. Reach(g, t.order[id]) \subseteq Reach(g, x)
        BY <1>5, ReachIs
      <4> QED
        BY <1>5, <4>1
    <3> QED
      BY <3>1
  <2>6. \A k \in 1..Len(u.found) : \A x, y \in u.found[k] : y \in Reach(g, x)
    <3>1. ASSUME NEW k \in 1..Len(u.found) PROVE \A x, y \in u.found[k] : y \in Reach(g, x)
      <4>1. k \in 1..Len(t.found) \/ k = Len(t.found) + 1
        BY <2>2, <2>3, <2>4
      <4>2. CASE k \in 1..Len(t.found)
        <5>1. u.found[k] = t.found[k]
          BY <2>2, <2>4, <4>2
        <5> QED
          BY <4>2, <5>1 DEF Sound
      <4>3. CASE k = Len(t.found) + 1
        BY <2>2, <2>4, <2>5, <4>3
      <4> QED
        BY <4>1, <4>2, <4>3
    <3> QED
      BY <3>1
  <2>7. Sound(g, u)
    BY <1>7, <2>4, <2>6 DEF Sound
  <2> QED
    BY <2>1, <2>4, <2>7
<1> QED
  BY <1>8, <1>9
\* A search goes on from t to u: what it added is reached from n.
Further(g, t, u, n) ==
  /\ Len(t.order) <= Len(u.order)
  /\ \A i \in 1..Len(t.order) : u.order[i] = t.order[i]
  /\ \A i \in Len(t.order) + 1 .. Len(u.order) : u.order[i] \in Reach(g, n)

Follows(g, deeper) ==
  \A t \in Searches : \A n \in Nat :
    Sound(g, t) => Sound(g, deeper[t][n]) /\ Further(g, t, deeper[t][n], n)

LEMMA FurtherTwice ==
  ASSUME NEW g \in DirectedGraphs, NEW s, NEW t, NEW u, NEW n, NEW m \in Reach(g, n),
         Len(s.order) \in Nat, Len(t.order) \in Nat, Len(u.order) \in Nat,
         Further(g, s, t, n), Further(g, t, u, m)
  PROVE  Further(g, s, u, n)
<1>1. Reach(g, m) \subseteq Reach(g, n)
  BY ReachIs
<1>2. /\ Len(s.order) <= Len(t.order) /\ Len(t.order) <= Len(u.order)
      /\ \A i \in 1..Len(s.order) : t.order[i] = s.order[i]
      /\ \A i \in 1..Len(t.order) : u.order[i] = t.order[i]
      /\ \A i \in Len(s.order) + 1 .. Len(t.order) : t.order[i] \in Reach(g, n)
      /\ \A i \in Len(t.order) + 1 .. Len(u.order) : u.order[i] \in Reach(g, m)
  BY DEF Further
<1>3. \A i \in 1..Len(s.order) : u.order[i] = s.order[i]
  BY <1>2
<1>4. ASSUME NEW i \in Len(s.order) + 1 .. Len(u.order) PROVE u.order[i] \in Reach(g, n)
  <2>1. CASE i <= Len(t.order)
    <3>1. i \in Len(s.order) + 1 .. Len(t.order) /\ i \in 1..Len(t.order)
      BY <2>1
    <3> QED
      BY <1>2, <3>1
  <2>2. CASE ~(i <= Len(t.order))
    <3>1. i \in Len(t.order) + 1 .. Len(u.order)
      BY <2>2
    <3> QED
      BY <1>1, <1>2, <3>1
  <2> QED
    BY <2>1, <2>2
<1> QED
  BY <1>2, <1>3, <1>4 DEF Further

Begun(t, n) ==
  [t EXCEPT !.order = Append(@, n), !.low = Append(@, Len(t.order) + 1), !.stack = Append(@, n)]

Through(deeper, id) == [s \in Searches |-> [m \in Nat |-> Lower(deeper[s][m], id, m)]]

LEMMA FollowStep ==
  ASSUME NEW g, NEW deeper, NEW t \in Searches, NEW n \in Nat
  PROVE  FollowNode(g, deeper)[t][n] =
           IF n \in ToSet(t.order) THEN t
           ELSE Pop(Fold(Through(deeper, Len(t.order) + 1), Begun(t, n), NextOf(g, n)),
                    Len(t.order) + 1)
<1>1. t.order \in Seq(Nat)
  BY DEF Searches
<1>2. Contains(t.order, n) <=> n \in ToSet(t.order)
  BY <1>1, ToSetIs
<1>3. FollowNode(g, deeper)[t][n] =
        IF Contains(t.order, n) THEN t
        ELSE Pop(Fold(Through(deeper, Len(t.order) + 1), Begun(t, n), NextOf(g, n)),
                 Len(t.order) + 1)
  BY DEF FollowNode, Begun, Through, NextOf
<1> QED
  BY <1>2, <1>3

LEMMA BegunRecord ==
  ASSUME NEW t \in Searches, NEW o, NEW l, NEW s
  PROVE  [t EXCEPT !.order = o, !.low = l, !.stack = s] =
           [order |-> o, low |-> l, stack |-> s, found |-> t.found]
<1> DEFINE a == t.order
           b == t.low
           c == t.stack
           d == t.found
<1>1. t = [order |-> a, low |-> b, stack |-> c, found |-> d]
  BY DEF Searches
<1> HIDE DEF a, b, c, d
<1>2. [t EXCEPT !.order = o] = [order |-> o, low |-> b, stack |-> c, found |-> d]
  BY <1>1
<1> DEFINE u == [order |-> o, low |-> b, stack |-> c, found |-> d]
           w == [order |-> o, low |-> l, stack |-> c, found |-> d]
<1>3. [u EXCEPT !.low = l] = w
  OBVIOUS
<1>4. [w EXCEPT !.stack = s] = [order |-> o, low |-> l, stack |-> s, found |-> d]
  OBVIOUS
<1> HIDE DEF u, w
<1>5. [t EXCEPT !.order = o] = u
  BY <1>2 DEF u
<1>6. [t EXCEPT !.order = o, !.low = l, !.stack = s] = [w EXCEPT !.stack = s]
  BY <1>3, <1>5, Zenon
<1> QED
  BY <1>4, <1>6 DEF d

LEMMA BegunIs ==
  ASSUME NEW g \in DirectedGraphs, NEW t, Sound(g, t), NEW n \in Nat
  PROVE  /\ Sound(g, Begun(t, n))
         /\ Len(Begun(t, n).order) = Len(t.order) + 1
         /\ Begun(t, n).order[Len(t.order) + 1] = n
         /\ Further(g, t, Begun(t, n), n)
<1> DEFINE id == Len(t.order) + 1
           u  == [order |-> Append(t.order, n), low |-> Append(t.low, id),
                  stack |-> Append(t.stack, n), found |-> t.found]
<1>1. /\ t.order \in Seq(Nat) /\ t.low \in Seq(Nat) /\ t.stack \in Seq(Nat)
      /\ t.found \in Seq(SUBSET Nat)
      /\ t = [order |-> t.order, low |-> t.low, stack |-> t.stack, found |-> t.found]
      /\ Len(t.order) \in Nat
  BY SoundIs
<1>2. Begun(t, n) = u
  <2>1. t \in Searches
    BY DEF Sound
  <2> DEFINE o == Append(t.order, n)
             l == Append(t.low, Len(t.order) + 1)
             s == Append(t.stack, n)
  <2>2. Begun(t, n) = [t EXCEPT !.order = o, !.low = l, !.stack = s]
    BY DEF Begun
  <2>3. u = [order |-> o, low |-> l, stack |-> s, found |-> t.found]
    OBVIOUS
  <2> HIDE DEF o, l, s, u
  <2> QED
    BY <2>1, <2>2, <2>3, BegunRecord
<1>3. Len(t.low) = Len(t.order) /\ id \in Nat /\ id = Len(t.order) + 1
  BY <1>1 DEF Sound
<1> HIDE DEF id
<1>4. /\ Append(t.order, n) \in Seq(Nat)
      /\ Len(Append(t.order, n)) = Len(t.order) + 1
      /\ \A i \in 1..Len(t.order) : Append(t.order, n)[i] = t.order[i]
      /\ Append(t.order, n)[Len(t.order) + 1] = n
      /\ ToSet(Append(t.order, n)) = ToSet(t.order) \cup {n}
  <2> DEFINE o == t.order
  <2>1. o \in Seq(Nat)
    BY <1>1
  <2> HIDE DEF o
  <2>2. /\ Append(o, n) \in Seq(Nat)
        /\ Len(Append(o, n)) = Len(o) + 1
        /\ \A i \in 1..Len(o) : Append(o, n)[i] = o[i]
        /\ Append(o, n)[Len(o) + 1] = n
        /\ ToSet(Append(o, n)) = ToSet(o) \cup {n}
    BY <2>1, AppendIs
  <2> QED
    BY <2>2 DEF o
<1>5. /\ Append(t.low, id) \in Seq(Nat)
      /\ Len(Append(t.low, id)) = Len(t.low) + 1
      /\ \A i \in 1..Len(t.low) : Append(t.low, id)[i] = t.low[i]
      /\ Append(t.low, id)[Len(t.low) + 1] = id
  BY <1>1, <1>3, AppendIs
<1>6. Append(t.stack, n) \in Seq(Nat) /\ ToSet(Append(t.stack, n)) = ToSet(t.stack) \cup {n}
  BY <1>1, AppendIs, SMTT(30)
<1>7. /\ u.order = Append(t.order, n) /\ u.low = Append(t.low, id) /\ u.stack = Append(t.stack, n)
      /\ u.found = t.found /\ u \in Searches
  BY <1>1, <1>4, <1>5, <1>6 DEF Searches
<1> HIDE DEF u
<1>8. n \in Reach(g, n)
  BY ReachIs
<1>9. /\ Len(u.order) = id /\ Len(u.low) = id /\ u.order[id] = n /\ u.low[id] = id
      /\ \A i \in 1..Len(t.order) : u.order[i] = t.order[i] /\ u.low[i] = t.low[i]
  BY <1>3, <1>4, <1>5, <1>7
<1>10. ASSUME NEW i \in 1..Len(u.order)
       PROVE  u.low[i] \in 1..i /\ u.order[u.low[i]] \in Reach(g, u.order[i])
  <2>1. CASE i = id
    BY <1>3, <1>8, <1>9, <2>1
  <2>2. CASE i # id
    <3>1. i \in 1..Len(t.order)
      BY <1>1, <1>3, <1>9, <2>2
    <3>2. t.low[i] \in 1..i /\ t.order[t.low[i]] \in Reach(g, t.order[i])
      BY <3>1 DEF Sound
    <3>3. t.low[i] \in 1..Len(t.order)
      BY <1>1, <3>1, <3>2
    <3> QED
      BY <1>9, <3>1, <3>2, <3>3
  <2> QED
    BY <2>1, <2>2
<1>11. Sound(g, u)
  <2>1. ToSet(u.stack) \subseteq ToSet(u.order)
    BY <1>4, <1>6, <1>7 DEF Sound
  <2>2. \A k \in 1..Len(u.found) : \A x, y \in u.found[k] : y \in Reach(g, x)
    BY <1>7 DEF Sound
  <2> QED
    BY <1>7, <1>9, <1>10, <2>1, <2>2 DEF Sound
<1>12. Further(g, t, u, n)
  <2>1. \A i \in Len(t.order) + 1 .. Len(u.order) : i = id
    BY <1>1, <1>3, <1>9
  <2>2. Len(t.order) <= Len(u.order)
    BY <1>1, <1>3, <1>9
  <2> QED
    BY <1>8, <1>9, <2>1, <2>2 DEF Further
<1> QED
  BY <1>2, <1>3, <1>9, <1>11, <1>12

LEMMA FollowKeeps ==
  ASSUME NEW g \in DirectedGraphs, NEW deeper, Follows(g, deeper)
  PROVE  Follows(g, FollowNode(g, deeper))
<1> SUFFICES ASSUME NEW t \in Searches, NEW n \in Nat, Sound(g, t)
             PROVE  LET u == FollowNode(g, deeper)[t][n] IN Sound(g, u) /\ Further(g, t, u, n)
  BY DEF Follows
<1> DEFINE id == Len(t.order) + 1
           f  == Through(deeper, id)
           ns == NextOf(g, n)
           b  == Begun(t, n)
           r  == Fold(f, b, ns)
           T  == {s \in Searches : /\ Sound(g, s) /\ Further(g, t, s, n)
                                   /\ id <= Len(s.order) /\ s.order[id] = n}
<1>1. FollowNode(g, deeper)[t][n] = IF n \in ToSet(t.order) THEN t ELSE Pop(r, id)
  BY FollowStep
<1>2. Len(t.order) \in Nat /\ id \in Nat /\ id = Len(t.order) + 1
  BY SoundIs
<1>3. CASE n \in ToSet(t.order)
  <2>1. Further(g, t, t, n)
    BY <1>2 DEF Further
  <2> HIDE DEF r, id
  <2> QED
    BY <1>1, <1>3, <2>1
<1>4. CASE n \notin ToSet(t.order)
  <2>1. b \in T
    <3>1. Sound(g, b) /\ Len(b.order) = id /\ b.order[id] = n /\ Further(g, t, b, n)
      BY BegunIs
    <3> HIDE DEF b, id
    <3>2. b \in Searches
      BY <3>1 DEF Sound
    <3> QED
      BY <1>2, <3>1, <3>2
  <2>2. /\ Len(ns) \in Nat
        /\ \A k \in 1..Len(ns) : ns[k] \in Nat /\ \E c \in ConnsFrom(g, n) : c.to = ns[k]
    BY NextOfIs
  <2>3. ASSUME NEW s \in T, NEW k \in 1..Len(ns) PROVE f[s][ns[k]] \in T
    <3> DEFINE m == ns[k]
               w == deeper[s][m]
    <3>1. m \in Nat /\ m \in Reach(g, n)
      <4>1. PICK c \in ConnsFrom(g, n) : c.to = m
        BY <2>2
      <4>2. n \in Reach(g, n) /\ \A d \in ToSet(g.conns) : d.from \in Reach(g, n) => d.to \in Reach(g, n)
        BY ReachIs
      <4> QED
        BY <2>2, <4>1, <4>2 DEF ConnsFrom
    <3> HIDE DEF ns, m
    <3>2. f[s][m] = Lower(w, id, m)
      BY <3>1 DEF Through
    <3>3. s \in Searches /\ Sound(g, s) /\ Further(g, t, s, n) /\ id <= Len(s.order) /\ s.order[id] = n
      OBVIOUS
    <3> HIDE DEF T, f, w
    <3>4. Sound(g, w) /\ Further(g, s, w, m)
      BY <3>1, <3>3 DEF Follows, w
    <3>5. Len(s.order) \in Nat /\ Len(w.order) \in Nat
      BY <3>3, <3>4, SoundIs
    <3> HIDE DEF id
    <3>6. Further(g, t, w, n)
      BY <1>2, <3>1, <3>3, <3>4, <3>5, FurtherTwice
    <3>7. id \in 1..Len(s.order) /\ id \in 1..Len(w.order) /\ w.order[id] = n
      <4>1. id \in 1..Len(s.order)
        BY <1>2, <3>3, <3>5
      <4>2. Len(s.order) <= Len(w.order) /\ w.order[id] = s.order[id]
        BY <3>4, <4>1 DEF Further
      <4> QED
        BY <3>3, <3>5, <4>1, <4>2
    <3> DEFINE l == Lower(w, id, m)
    <3>8. Sound(g, l) /\ l.order = w.order
      BY <3>1, <3>4, <3>7, LowerIs
    <3> HIDE DEF l
    <3>9. Further(g, t, l, n)
      BY <3>6, <3>8 DEF Further
    <3>10. l \in Searches /\ id <= Len(l.order) /\ l.order[id] = n
      BY <3>7, <3>8 DEF Sound
    <3>11. l \in T
      BY <3>8, <3>9, <3>10 DEF T
    <3> QED
      BY <3>2, <3>11 DEF l, m
  <2>4. r \in T
    <3> HIDE DEF T, f, b, ns
    <3> QED
      BY <2>1, <2>2, <2>3, FoldIn
  <2>5. Sound(g, r) /\ Further(g, t, r, n) /\ id <= Len(r.order) /\ r.order[id] = n
    BY <2>4
  <2> HIDE DEF r, T, id
  <2>6. Len(r.order) \in Nat
    BY <2>5, SoundIs
  <2>7. id \in 1..Len(r.order)
    BY <1>2, <2>5, <2>6
  <2>8. \A i \in id..Len(r.order) : r.order[i] \in Reach(g, r.order[id])
    BY <1>2, <2>5 DEF Further
  <2>9. Sound(g, Pop(r, id)) /\ Pop(r, id).order = r.order
    BY <2>5, <2>7, <2>8, PopIs
  <2>10. Further(g, t, Pop(r, id), n)
    BY <2>5, <2>9 DEF Further
  <2> QED
    BY <1>1, <1>4, <2>9, <2>10
<1> QED
  BY <1>3, <1>4

\* The nodes of a component reach one another.
LEMMA ComponentsAre ==
  ASSUME NEW g \in DirectedGraphs
  PROVE  LET components == StronglyConnectedComponents(g) IN
         /\ components \in Seq(SUBSET Nat)
         /\ \A C \in ToSet(components) : \A x, y \in C : y \in Reach(g, x)
<1>1. PICK v : /\ Following(v, g)
               /\ StronglyConnectedComponents(g) = Fold(v[Depth(g)], NoSearch, g.nodes).found
  BY ComponentSearch
<1>2. \A k \in Nat : Follows(g, v[k])
  <2> DEFINE S == {k \in Nat : Follows(g, v[k])}
  <2>1. 0 \in S
    <3>1. ASSUME NEW t \in Searches, NEW n \in Nat, Sound(g, t) PROVE Further(g, t, v[0][t][n], n) /\ v[0][t][n] = t
      <4>1. Len(t.order) \in Nat
        BY <3>1, SoundIs
      <4>2. v[0][t][n] = t
        BY <1>1 DEF Following, Unfollowed
      <4> QED
        BY <4>1, <4>2 DEF Further
    <3> QED
      BY <3>1 DEF Follows
  <2>2. \A k \in Nat : k \in S => k + 1 \in S
    BY <1>1, FollowKeeps DEF Following
  <2>3. Nat \subseteq S
    <3> HIDE DEF S
    <3> QED
      BY <2>1, <2>2, NatSetInduction
  <2> QED
    BY <2>3
<1>3. Follows(g, v[Depth(g)])
  <2>1. Depth(g) \in Nat
    BY GraphIs, ToSetIs DEF Depth
  <2> QED
    BY <1>2, <2>1
<1> DEFINE T == {t \in Searches : Sound(g, t)}
           f == v[Depth(g)]
           r == Fold(f, NoSearch, g.nodes)
<1>4. NoSearch \in T
  <2>1. /\ NoSearch.order = <<>> /\ NoSearch.low = <<>> /\ NoSearch.stack = <<>>
        /\ NoSearch.found = <<>> /\ NoSearch \in Searches
    BY NothingIs DEF NoSearch, Searches
  <2>2. 1..0 = {}
    OBVIOUS
  <2>3. Sound(g, NoSearch)
    BY <2>1, <2>2, NothingIs DEF Sound
  <2> QED
    BY <2>1, <2>3
<1>5. Len(g.nodes) \in Nat /\ \A k \in 1..Len(g.nodes) : g.nodes[k] \in Nat
  BY GraphIs, NumbersAre
<1>6. \A t \in T : \A k \in 1..Len(g.nodes) : f[t][g.nodes[k]] \in T
  <2>1. \A t \in T : \A n \in Nat : Sound(g, f[t][n])
    BY <1>3 DEF Follows
  <2>2. \A t \in T : \A n \in Nat : f[t][n] \in Searches
    BY <2>1 DEF Sound
  <2> QED
    BY <1>5, <2>1, <2>2
<1>7. r \in T
  <2> HIDE DEF T, f
  <2> QED
    BY <1>4, <1>5, <1>6, FoldIn
<1>8. Sound(g, r)
  BY <1>7
<1> HIDE DEF r
<1>9. r.found \in Seq(SUBSET Nat) /\ DOMAIN r.found = 1..Len(r.found)
  BY <1>8, SoundIs
<1>10. \A C \in ToSet(r.found) : \A x, y \in C : y \in Reach(g, x)
  <2>1. ToSet(r.found) = {r.found[i] : i \in 1..Len(r.found)}
    BY <1>9, ToSetIs
  <2>2. \A k \in 1..Len(r.found) : \A x, y \in r.found[k] : y \in Reach(g, x)
    BY <1>8 DEF Sound
  <2> QED
    BY <2>1, <2>2
<1> QED
  BY <1>1, <1>9, <1>10 DEF r
-----------------------------------------------------------------------------
\* handleCycles
Component(C, g, root, N) ==
  /\ C \subseteq N /\ FirstNodes(g, C, root) # <<>>
  /\ \A x, y \in C : y \in Reach(g, x)

LEMMA FirstNodeIs ==
  ASSUME NEW g \in DirectedGraphs, NEW root \in Nat, NEW C, FirstNodes(g, C, root) # <<>>
  PROVE  Head(FirstNodes(g, C, root)) \in C /\ Head(FirstNodes(g, C, root)) \in Nat
<1> DEFINE s == DepthFirst(g, root)
           r == FirstNodes(g, C, root)
<1>1. s \in Seq(Nat)
  BY DepthFirstIs
<1>2. r = Only(s, C)
  BY DEF FirstNodes
<1> HIDE DEF s
<1>3. r \in Seq(Nat) /\ r \in Seq(C)
  BY <1>1, <1>2, OnlyIs
<1> HIDE DEF r
<1>4. Head(r) \in Nat /\ Head(r) \in C
  <2>1. r # <<>>
    BY DEF r
  <2> QED
    BY <1>3, <2>1
<1> QED
  BY <1>4 DEF r

\* The start nodes s do for those that were there before.
StandIn(s, g, starts, N) ==
  /\ s \in Seq(Nat) /\ ToSet(s) \subseteq N
  /\ IsInjective(starts) => IsInjective(s)
  /\ \A m \in ToSet(starts) : \E x \in ToSet(s) : m \in Reach(g, x)

LEMMA MovedStandsIn ==
  ASSUME NEW g \in DirectedGraphs, NEW root \in Nat, NEW N, NEW starts,
         NEW s, StandIn(s, g, starts, N), NEW C, Component(C, g, root, N), NEW n \in C
  PROVE  StandIn(Add(Only(s, ToSet(s) \ {n}), Head(FirstNodes(g, C, root))), g, starts, N)
<1> DEFINE h == Head(FirstNodes(g, C, root))
           S == ToSet(s) \ {n}
           o == Only(s, S)
           r == Add(o, h)
<1>1. h \in C /\ h \in Nat
  BY FirstNodeIs DEF Component
<1>2. s \in Seq(Nat) /\ ToSet(s) \subseteq N
  BY DEF StandIn
<1> HIDE DEF h, S
<1>3. o \in Seq(Nat) /\ ToSet(o) = ToSet(s) \cap S
  BY <1>2, OnlyIs
<1>4. IsInjective(s) => IsInjective(o)
  BY <1>2, OnlyInjective
<1> HIDE DEF o
<1>5. r \in Seq(Nat) /\ ToSet(r) = ToSet(o) \cup {h} /\ (IsInjective(o) => IsInjective(r))
  BY <1>1, <1>3, NatAddIs
<1> HIDE DEF r
<1>6. ToSet(r) = (ToSet(s) \ {n}) \cup {h}
  BY <1>3, <1>5 DEF S
<1>7. ToSet(r) \subseteq N
  BY <1>1, <1>2, <1>6 DEF Component
<1>8. ASSUME NEW m \in ToSet(starts) PROVE \E x \in ToSet(r) : m \in Reach(g, x)
  <2>1. PICK x \in ToSet(s) : m \in Reach(g, x)
    BY DEF StandIn
  <2>2. CASE x = n
    <3>1. n \in Reach(g, h)
      BY <1>1 DEF Component
    <3>2. Reach(g, n) \subseteq Reach(g, h)
      BY <3>1, ReachIs
    <3>3. h \in ToSet(r)
      BY <1>6
    <3> QED
      BY <2>1, <2>2, <3>2, <3>3
  <2>3. CASE x # n
    BY <1>6, <2>1, <2>3
  <2> QED
    BY <2>2, <2>3
<1>9. StandIn(r, g, starts, N)
  BY <1>4, <1>5, <1>7, <1>8 DEF StandIn
<1> QED
  BY <1>9 DEF r, o, S, h

\* What is reached from a start node is reached from one of them afterwards.
LEMMA HandleCyclesIs ==
  ASSUME NEW g \in DirectedGraphs, NEW root \in Nat, NEW N,
         NEW cycles \in Seq(SUBSET Nat), \A C \in ToSet(cycles) : Component(C, g, root, N),
         NEW starts \in Seq(Nat), ToSet(starts) \subseteq N
  PROVE  StandIn(HandleCycles(g, cycles, starts, root), g, starts, N)
<1> DEFINE Moved(s, n, C) == Add(Only(s, ToSet(s) \ {n}), Head(FirstNodes(g, C, root)))
           replace(n) == [s \in Seq(Nat) |-> [C \in ToSet(cycles) |->
                            IF n \in C THEN Moved(s, n, C) ELSE s]]
           f == [s \in Seq(Nat) |-> [n \in Nat |-> Fold(replace(n), s, cycles)]]
           T == {s \in Seq(Nat) : StandIn(s, g, starts, N)}
<1>1. HandleCycles(g, cycles, starts, root) = Fold(f, starts, starts)
  BY DEF HandleCycles
<1>2. starts \in T
  <2>1. \A m : m \in Reach(g, m)
    BY ReachIs
  <2>2. StandIn(starts, g, starts, N)
    BY <2>1 DEF StandIn
  <2> QED
    BY <2>2
<1>3. Len(cycles) \in Nat /\ \A k \in 1..Len(cycles) : cycles[k] \in ToSet(cycles)
  BY ToSetIs
<1>4. ASSUME NEW n \in Nat, NEW s \in T PROVE Fold(replace(n), s, cycles) \in T
  <2> DEFINE h == replace(n)
  <2>1. ASSUME NEW x \in T, NEW k \in 1..Len(cycles) PROVE h[x][cycles[k]] \in T
    <3> DEFINE C == cycles[k]
    <3>1. C \in ToSet(cycles) /\ Component(C, g, root, N) /\ x \in Seq(Nat) /\ StandIn(x, g, starts, N)
      BY <1>3
    <3>2. h[x][C] = IF n \in C THEN Moved(x, n, C) ELSE x
      <4> HIDE DEF Moved
      <4> QED
        BY <3>1
    <3> HIDE DEF C, h
    <3>3. CASE n \in C
      <4>1. StandIn(Moved(x, n, C), g, starts, N)
        BY <3>1, <3>3, MovedStandsIn
      <4> HIDE DEF Moved
      <4>2. Moved(x, n, C) \in T
        BY <4>1 DEF StandIn
      <4> QED
        BY <3>2, <3>3, <4>2 DEF C
    <3>4. CASE n \notin C
      BY <3>2, <3>4 DEF C
    <3> QED
      BY <3>3, <3>4
  <2> HIDE DEF h, T
  <2>2. Fold(h, s, cycles) \in T
    BY <1>3, <2>1, FoldIn
  <2> QED
    BY <2>2 DEF h
<1>5. Len(starts) \in Nat /\ \A k \in 1..Len(starts) : starts[k] \in Nat
  BY NumbersAre
<1>6. \A s \in T : \A k \in 1..Len(starts) : f[s][starts[k]] \in T
  <2> HIDE DEF replace
  <2>1. ASSUME NEW s \in T, NEW k \in 1..Len(starts) PROVE f[s][starts[k]] = Fold(replace(starts[k]), s, cycles)
    BY <1>5
  <2> HIDE DEF f, T
  <2> QED
    BY <1>4, <1>5, <2>1
<1>7. Fold(f, starts, starts) \in T
  <2> HIDE DEF f, T
  <2> QED
    BY <1>2, <1>5, <1>6, FoldIn
<1>8. StandIn(Fold(f, starts, starts), g, starts, N)
  <2> HIDE DEF f
  <2> QED
    BY <1>7
<1> HIDE DEF f
<1> QED
  BY <1>1, <1>8

LEMMA CyclesAre ==
  ASSUME NEW g \in DirectedGraphs, NEW starts \in Seq(Nat)
  PROVE  /\ CyclesOf(g, starts) \in Seq(SUBSET Nat)
         /\ \A C \in ToSet(CyclesOf(g, starts)) :
              /\ C \in SUBSET Nat /\ C \cap ToSet(starts) # {}
              /\ \A x, y \in C : y \in Reach(g, x)
<1> DEFINE components == StronglyConnectedComponents(g)
           S == {C \in ToSet(components) : C \cap ToSet(starts) # {}}
<1>1. /\ components \in Seq(SUBSET Nat)
      /\ \A C \in ToSet(components) : \A x, y \in C : y \in Reach(g, x)
  BY ComponentsAre
<1>2. CyclesOf(g, starts) = Only(components, S)
  BY DEF CyclesOf
<1> HIDE DEF components
<1>3. S \subseteq ToSet(components) /\ \A C \in S : C \cap ToSet(starts) # {}
  OBVIOUS
<1> HIDE DEF S
<1>4. Only(components, S) \in Seq(SUBSET Nat) /\ ToSet(Only(components, S)) = ToSet(components) \cap S
  BY <1>1, OnlyIs
<1>5. ToSet(components) \subseteq SUBSET Nat
  BY <1>1, ToSetIs
<1> QED
  BY <1>1, <1>2, <1>3, <1>4, <1>5
-----------------------------------------------------------------------------
(***************************************************************************)
(* The steps                                                               *)
(***************************************************************************)
\* What PartialAssumption says of a request.
Asked(q) ==
  /\ q.nodes \in Seq(Nat) /\ q.conns \in Seq(Conns)
  /\ \A c \in ToSet(q.conns) : c.from \in ToSet(q.nodes) /\ c.to \in ToSet(q.nodes)
  /\ q.triggers \subseteq ToSet(q.nodes) /\ q.disabled \subseteq ToSet(q.nodes)
  /\ q.goal \in ToSet(q.nodes) /\ q.goal \notin q.disabled
  /\ \A c \in ToSet(q.conns) : c.type = "ai" => c.from \notin q.pinned
  /\ \A c, d \in ToSet(q.conns) : c.type = "ai" /\ d.type = "main" => c.from \notin {d.from, d.to}
  /\ Kept(q.runData)

LEMMA RequestIs ==
  ASSUME NEW f \in Families, NEW q \in RequestsOf(f)
  PROVE  Asked(q)
<1>1. /\ q.nodes \in f.nodes /\ q.conns \in f.conns /\ q.triggers \in f.triggers
      /\ q.loops \in f.loops /\ q.disabled \in f.disabled /\ q.runData \in f.runData
      /\ q.pinned \in f.pinned /\ q.goal \in f.goal
  BY DEF RequestsOf
<1>2. /\ \A nodes \in f.nodes :
           /\ nodes \in Seq(Nat)
           /\ \A conns \in f.conns :
                /\ conns \in Seq(Conns)
                /\ \A c \in ToSet(conns) : {c.from, c.to} \subseteq ToSet(nodes)
           /\ UNION (f.triggers \cup f.loops \cup f.disabled) \subseteq ToSet(nodes)
           /\ f.goal \subseteq ToSet(nodes)
      /\ f.goal \cap UNION f.disabled = {}
      /\ \A conns \in f.conns : \A c, d \in ToSet(conns) :
           c.type = "ai" =>
             c.from \notin UNION f.pinned /\ (d.type = "main" => c.from \notin {d.from, d.to})
      /\ \A data \in f.runData : \A n \in DOMAIN data :
           data[n] \in Seq(SUBSET Nat) /\ data[n] # <<>>
  BY PartialAssumption
<1>3. q.nodes \in Seq(Nat) /\ q.conns \in Seq(Conns)
  BY <1>1, <1>2
<1>4. \A c \in ToSet(q.conns) : c.from \in ToSet(q.nodes) /\ c.to \in ToSet(q.nodes)
  BY <1>1, <1>2
<1>5. q.triggers \subseteq ToSet(q.nodes) /\ q.disabled \subseteq ToSet(q.nodes)
  <2>1. UNION (f.triggers \cup f.loops \cup f.disabled) \subseteq ToSet(q.nodes)
    BY <1>1, <1>2
  <2> QED
    BY <1>1, <2>1
<1>6. q.goal \in ToSet(q.nodes) /\ q.goal \notin q.disabled
  BY <1>1, <1>2
<1>7. \A c \in ToSet(q.conns) : c.type = "ai" => c.from \notin q.pinned
  BY <1>1, <1>2
<1>8. \A c, d \in ToSet(q.conns) : c.type = "ai" /\ d.type = "main" => c.from \notin {d.from, d.to}
  BY <1>1, <1>2
<1>9. Kept(q.runData)
  BY <1>1, <1>2 DEF Kept
<1> QED
  BY <1>3, <1>4, <1>5, <1>6, <1>7, <1>8, <1>9 DEF Asked

MainConns(q) == {c \in ToSet(q.conns) : Main(c)}

LEMMA StartingPointsAre ==
  ASSUME NEW q, Asked(q)
  PROVE  /\ StartingPoints(q) \subseteq Upstream(MainConns(q), {q.goal})
         /\ StartingPoints(q) \subseteq ToSet(q.nodes)
         /\ ToSet(q.nodes) \subseteq Nat
<1> DEFINE U == Upstream(MainConns(q), {q.goal})
<1>1. IsFiniteSet(MainConns(q))
  <2>1. IsFiniteSet(ToSet(q.conns))
    BY ToSetFinite DEF Asked
  <2> QED
    BY <2>1, FS_Subset DEF MainConns
<1>2. {q.goal} \subseteq U
  BY <1>1, UpstreamIs
<1>3. U \subseteq ToSet(q.nodes)
  <2>1. {q.goal} \subseteq ToSet(q.nodes)
    BY DEF Asked
  <2>2. \A c \in MainConns(q) : c.to \in ToSet(q.nodes) => c.from \in ToSet(q.nodes)
    BY DEF Asked, MainConns
  <2> QED
    BY <1>1, <2>1, <2>2, UpstreamIs
<1>4. ParentNodes(q) \subseteq U
  BY DEF ParentNodes, MainConns
<1> HIDE DEF U
<1>5. StartingPoints(q) \subseteq {q.goal} \cup ParentNodes(q)
  BY DEF StartingPoints
<1>6. ToSet(q.nodes) \subseteq Nat
  BY ToSetIs DEF Asked
<1> QED
  BY <1>2, <1>3, <1>4, <1>5, <1>6 DEF U

Steps == {"trigger", "subgraph", "start", "cycles", "clean", "stack", "run", "refused", "failed"}

\* What the steps work on.
TypeOK ==
  /\ Asked(request)
  /\ step \in Steps
  /\ trigger \in Nat \cup {None}
  /\ step \notin {"trigger", "refused"} => trigger \in StartingPoints(request)
  /\ graph \in DirectedGraphs
  /\ Kept(runData)
  /\ startNodes \in Seq(Nat) /\ IsInjective(startNodes)
  /\ stack \in Seq(Entries) /\ waiting \in Seq(Waits)
  \* No data is pinned to a sub-node, and once cleanRunData is through, those of
  \* start nodes have none.
  /\ \A c \in ToSet(graph.conns) : ~Main(c) => c.from \notin request.pinned
  /\ step \in {"stack", "run"} => SubsHaveNone(graph, ToSet(startNodes), runData, request.pinned)

LEMMA TypeInit == Init => TypeOK
<1> SUFFICES ASSUME Init PROVE TypeOK
  OBVIOUS
<1>1. /\ \E f \in Families : request \in RequestsOf(f)
      /\ step = "trigger" /\ trigger = None
      /\ graph = [nodes |-> request.nodes, conns |-> request.conns]
      /\ runData = request.runData /\ startNodes = <<>> /\ stack = <<>> /\ waiting = <<>>
  BY DEF Init
<1>2. Asked(request)
  BY <1>1, RequestIs
<1>3. graph \in DirectedGraphs /\ graph.conns = request.conns /\ Kept(runData)
  BY <1>1, <1>2 DEF Asked, DirectedGraphs
<1>4. \A c \in ToSet(graph.conns) : ~Main(c) => c.from \notin request.pinned
  <2>1. ToSet(graph.conns) \subseteq Conns
    BY <1>3, GraphIs
  <2>2. \A c \in ToSet(graph.conns) : ~Main(c) => c.type = "ai"
    BY <2>1 DEF Conns, Main
  <2> QED
    BY <1>2, <1>3, <2>2 DEF Asked
<1>5. startNodes \in Seq(Nat) /\ IsInjective(startNodes) /\ stack \in Seq(Entries) /\ waiting \in Seq(Waits)
  BY <1>1, NothingIs
<1> QED
  BY <1>1, <1>2, <1>3, <1>4, <1>5 DEF TypeOK, Steps
LEMMA TypeFindTrigger == ASSUME TypeOK, FindTrigger PROVE TypeOK'
<1>1. UNCHANGED <<request, graph, runData, startNodes, stack, waiting>> /\ step = "trigger"
  BY DEF FindTrigger
<1>2. \/ step' = "refused" /\ trigger' = trigger
      \/ step' = "subgraph" /\ trigger' \in StartingPoints(request)
  BY DEF FindTrigger
<1>3. StartingPoints(request) \subseteq Nat
  BY StartingPointsAre DEF TypeOK
<1>4. step' \in Steps /\ step' \notin {"stack", "run"}
  BY <1>2 DEF Steps
<1>5. trigger' \in Nat \cup {None}
  BY <1>2, <1>3 DEF TypeOK
<1>6. step' \notin {"trigger", "refused"} => trigger' \in StartingPoints(request)
  BY <1>2
<1> QED
  BY <1>1, <1>4, <1>5, <1>6 DEF TypeOK

LEMMA TypeSubgraph == ASSUME TypeOK, Subgraph PROVE TypeOK'
<1> DEFINE enabled == FilterDisabledNodes(graph, request.disabled)
           found   == FindSubgraph(enabled, request.goal, trigger)
<1>1. /\ UNCHANGED <<request, trigger, runData, startNodes, stack, waiting>> /\ step = "subgraph"
      /\ graph' = [nodes |-> found.nodes, conns |-> found.conns]
      /\ step' = IF found.failed THEN "failed" ELSE "start"
  BY DEF Subgraph, GoOn
<1>2. enabled \in DirectedGraphs /\ SubConnsOf(enabled, graph)
  BY FilterIs DEF TypeOK
<1>3. request.goal \in Nat
  BY StartingPointsAre DEF TypeOK, Asked
<1> HIDE DEF enabled
<1>4. /\ [nodes |-> found.nodes, conns |-> found.conns] \in DirectedGraphs
      /\ ToSet(found.conns) = ToSet(FlowGraph(enabled, request.goal, trigger).conns)
           \cup {c \in ConnsAbove(enabled, ToSet(FlowGraph(enabled, request.goal, trigger).nodes)) : ~Main(c)}
  BY <1>2, <1>3, SubgraphIs
<1>5. ToSet(FlowGraph(enabled, request.goal, trigger).conns) \subseteq AllMain(enabled)
  BY <1>2, <1>3, FlowIs
<1>6. ConnsAbove(enabled, ToSet(FlowGraph(enabled, request.goal, trigger).nodes)) \subseteq ToSet(enabled.conns)
  BY <1>2, ConnsAboveIs
<1> HIDE DEF found
<1>7. graph' \in DirectedGraphs /\ graph'.conns = found.conns
  BY <1>1, <1>4
<1>8. \A c \in ToSet(graph'.conns) : ~Main(c) => c \in ToSet(enabled.conns)
  BY <1>4, <1>5, <1>6, <1>7 DEF AllMain
<1>9. \A c \in ToSet(graph'.conns) : ~Main(c) => c.from \notin request.pinned
  BY <1>2, <1>8 DEF SubConnsOf, TypeOK
<1>10. step' \in Steps /\ step' \notin {"stack", "run"}
  BY <1>1 DEF Steps
<1> QED
  BY <1>1, <1>7, <1>9, <1>10 DEF TypeOK

LEMMA TypeStartNodes == ASSUME TypeOK, StartNodes PROVE TypeOK'
<1>1. /\ UNCHANGED <<request, trigger, graph, stack, waiting>> /\ step = "start"
      /\ runData' = CleanRunData(runData, graph, request.dirty \cap Nodes(graph))
      /\ startNodes' = FindStartNodes(graph, request, trigger, runData')
      /\ step' \in {"failed", "cycles"}
  BY DEF StartNodes, GoOn
<1>2. trigger \in Nat
  BY <1>1, StartingPointsAre DEF TypeOK
<1>3. startNodes' \in Seq(Nat) /\ IsInjective(startNodes')
  BY <1>1, <1>2, FindStartNodesIs DEF TypeOK
<1>4. Kept(runData')
  BY <1>1, CleanRunDataIs DEF TypeOK
<1>5. step' \in Steps /\ step' \notin {"stack", "run"}
  BY <1>1 DEF Steps
<1> QED
  BY <1>1, <1>3, <1>4, <1>5 DEF TypeOK

LEMMA TypeCycles == ASSUME TypeOK, Cycles PROVE TypeOK'
<1> DEFINE cycles == CyclesOf(graph, startNodes)
           fails  == \E C \in ToSet(cycles) : FirstNodes(graph, C, trigger) = <<>>
<1>1. /\ UNCHANGED <<request, trigger, graph, runData, stack, waiting>> /\ step = "cycles"
      /\ step' \in {"failed", "clean"}
      /\ startNodes' = IF fails THEN startNodes ELSE HandleCycles(graph, cycles, startNodes, trigger)
  BY DEF Cycles, GoOn
<1>2. trigger \in Nat
  BY <1>1, StartingPointsAre DEF TypeOK
<1>3. /\ cycles \in Seq(SUBSET Nat)
      /\ \A C \in ToSet(cycles) : C \in SUBSET Nat /\ \A x, y \in C : y \in Reach(graph, x)
  BY CyclesAre DEF TypeOK
<1> HIDE DEF cycles
<1>4. ASSUME ~fails PROVE StandIn(HandleCycles(graph, cycles, startNodes, trigger), graph, startNodes, Nat)
  <2>1. \A C \in ToSet(cycles) : Component(C, graph, trigger, Nat)
    BY <1>3, <1>4 DEF Component
  <2>2. ToSet(startNodes) \subseteq Nat
    BY ToSetIs DEF TypeOK
  <2> QED
    BY <1>2, <1>3, <2>1, <2>2, HandleCyclesIs DEF TypeOK
<1> HIDE DEF fails
<1>5. startNodes' \in Seq(Nat) /\ IsInjective(startNodes')
  BY <1>1, <1>4 DEF StandIn, TypeOK
<1>6. step' \in Steps /\ step' \notin {"stack", "run"}
  BY <1>1 DEF Steps
<1> QED
  BY <1>1, <1>5, <1>6 DEF TypeOK

LEMMA TypeClean == ASSUME TypeOK, Clean PROVE TypeOK'
<1>1. /\ UNCHANGED <<request, trigger, graph, startNodes, stack, waiting>> /\ step = "clean"
      /\ step' \in {"failed", "stack"}
      /\ runData' = CleanRunData(runData, graph, ToSet(startNodes))
  BY DEF Clean, GoOn
<1>2. /\ Kept(runData')
      /\ \A c \in ToSet(graph.conns) : c.to \in ToSet(startNodes) /\ ~Main(c) => c.from \notin DOMAIN runData'
  BY <1>1, CleanRunDataIs DEF TypeOK
<1>3. SubsHaveNone(graph, ToSet(startNodes), runData', request.pinned)
  BY <1>2 DEF SubsHaveNone, TypeOK
<1>4. step' \in Steps
  BY <1>1 DEF Steps
<1> QED
  BY <1>1, <1>2, <1>3, <1>4 DEF TypeOK

LEMMA TypeRecreateStack == ASSUME TypeOK, RecreateStack PROVE TypeOK'
<1> DEFINE made == RecreateNodeExecutionStack(graph, startNodes, runData, request.pinned)
<1>1. /\ UNCHANGED <<request, trigger, graph, runData, startNodes>> /\ step = "stack" /\ step' = "run"
      /\ stack' = made.stack /\ waiting' = made.waiting
  BY DEF RecreateStack
<1>2. made.stack \in Seq(Entries) /\ made.waiting \in Seq(Waits)
  BY <1>1, StackIs DEF TypeOK
<1> HIDE DEF made
<1> QED
  BY <1>1, <1>2 DEF TypeOK, Steps

LEMMA TypeNext == TypeOK /\ [Next]_vars => TypeOK'
<1> SUFFICES ASSUME TypeOK, [Next]_vars PROVE TypeOK'
  OBVIOUS
<1>1. CASE UNCHANGED vars
  BY <1>1 DEF TypeOK, vars
<1> QED
  BY <1>1, TypeFindTrigger, TypeSubgraph, TypeStartNodes, TypeCycles, TypeClean,
     TypeRecreateStack DEF Next

\* In every state of a partial execution the graph is a graph, the start nodes
\* are nodes, each there once, and what is made of them are entries of the stack
\* and of the waiting nodes (runPartialWorkflow2).
THEOREM PartialIsTyped == PartialSpec => []TypeOK
BY TypeInit, TypeNext, PTL DEF PartialSpec

\* What the stack and the waiting nodes are made of.
StackMade ==
  step = "run" =>
    LET made == RecreateNodeExecutionStack(graph, startNodes, runData, request.pinned) IN
    stack = made.stack /\ waiting = made.waiting

LEMMA StackMadeHolds == PartialSpec => []StackMade
<1>1. Init => StackMade
  BY DEF Init, StackMade
<1>2. StackMade /\ [Next]_vars => StackMade'
  <2> SUFFICES ASSUME StackMade, [Next]_vars PROVE StackMade'
    OBVIOUS
  <2>1. CASE RecreateStack
    BY <2>1 DEF RecreateStack, StackMade
  <2>2. CASE FindTrigger
    BY <2>2 DEF FindTrigger, StackMade
  <2>3. CASE Subgraph
    BY <2>3 DEF Subgraph, StackMade, GoOn
  <2>4. CASE StartNodes
    BY <2>4 DEF StartNodes, StackMade, GoOn
  <2>5. CASE Cycles
    BY <2>5 DEF Cycles, StackMade, GoOn
  <2>6. CASE Clean
    BY <2>6 DEF Clean, StackMade, GoOn
  <2>7. CASE UNCHANGED vars
    BY <2>7 DEF StackMade, vars
  <2> QED
    BY <2>1, <2>2, <2>3, <2>4, <2>5, <2>6, <2>7 DEF Next
<1> QED
  BY <1>1, <1>2, PTL DEF PartialSpec

LEMMA StackMadeUsesOnce == TypeOK /\ StackMade => ItemsAreUsedOnce
<1> SUFFICES ASSUME TypeOK, StackMade, step = "run", NEW c \in ToSet(graph.conns)
             PROVE  LET uses == Uses(stack, c) + Uses(waiting, c) IN
                    /\ uses <= 1
                    /\ uses = 1 => c.to \in ToSet(startNodes) /\ Main(c)
                    /\ /\ c.to \in ToSet(startNodes)
                       /\ Main(c)
                       /\ FirstRun(runData, c.from, c.out) > 0
                       => uses = 1
  BY DEF ItemsAreUsedOnce
<1>1. SubsHaveNone(graph, ToSet(startNodes), runData, request.pinned)
  BY DEF TypeOK
<1>2. UsedOnce(stack, waiting, c, ToSet(startNodes), runData)
  BY <1>1, StackUsesOnce DEF TypeOK, StackMade
<1>3. /\ Uses(stack, c) = IF Sourced(stack, c) = {} THEN 0 ELSE 1
      /\ Uses(waiting, c) = IF Sourced(waiting, c) = {} THEN 0 ELSE 1
  BY <1>2, UsesIs DEF UsedOnce, TypeOK
<1> QED
  BY <1>2, <1>3 DEF UsedOnce

\* When the stack is made, each connection into a start node that has items of
\* an earlier run is a source of one entry, of the stack or of the waiting
\* nodes, and no other connection is one (recreateNodeExecutionStack).
THEOREM PartialItemsAreUsedOnce == PartialSpec => []ItemsAreUsedOnce
BY PartialIsTyped, StackMadeHolds, StackMadeUsesOnce, PTL
-----------------------------------------------------------------------------
(***************************************************************************)
(* What is missing is run                                                  *)
(***************************************************************************)
ReachedIn(g, q, data, root) ==
  Downstream({c \in ToSet(g.conns) : c.from # q.goal /\ Flows(c, data, q.pinned)}, {root})

\* Each node whose data is missing is reached from a start node.
Covered(starts, g, q, data, root) ==
  \A n \in ReachedIn(g, q, data, root) :
    n = q.goal \/ IsDirty(n, data, q.pinned) => \E s \in ToSet(starts) : n \in Reach(g, s)

LEMMA FindStartNodesCovers ==
  ASSUME NEW g \in DirectedGraphs, NEW q, NEW root \in Nat, NEW data
  PROVE  Covered(FindStartNodes(g, q, root, data), g, q, data, root)
<1> DEFINE found == FindStartNodes(g, q, root, data)
           C == {c \in ToSet(g.conns) : c.from # q.goal /\ Flows(c, data, q.pinned)}
           O == Onward(g, q, data)
           A == ReachedBy(O, {root})
           B == {n \in Nat : \E s \in ToSet(found) : n \in Reach(g, s)}
           S == A \cup B
<1>1. \A x \in A : Stops(g, q, data, x) => x \in ToSet(found)
  BY FindStartNodesIs
<1>2. found \in Seq(Nat)
  BY FindStartNodesIs
<1>3. /\ IsFiniteSet(O)
      /\ \A c \in ToSet(g.conns) :
           Flows(c, data, q.pinned) /\ ~Stops(g, q, data, c.from) => <<c.from, c.to>> \in O
  BY OnwardIs
<1> HIDE DEF found, O
<1>4. {root} \subseteq A /\ \A p \in O : p[1] \in A => p[2] \in A
  BY <1>3, ReachedByIs
<1>5. ToSet(g.conns) \subseteq Conns /\ IsFiniteSet(ToSet(g.conns))
  BY GraphIs
<1>6. C \subseteq ToSet(g.conns) /\ IsFiniteSet(C)
  BY <1>5, FS_Subset
<1> HIDE DEF A
<1>7. ASSUME NEW c \in C, c.from \in S PROVE c.to \in S
  <2>1. c \in ToSet(g.conns) /\ Flows(c, data, q.pinned) /\ c.from \in Nat /\ c.to \in Nat
    BY <1>5 DEF Conns
  <2>2. CASE c.from \in B
    <3>1. PICK s \in ToSet(found) : c.from \in Reach(g, s)
      BY <2>2
    <3>2. c.to \in Reach(g, s)
      BY <2>1, <3>1, ReachIs
    <3> QED
      BY <2>1, <3>2
  <2>3. CASE c.from \in A /\ Stops(g, q, data, c.from)
    <3>1. c.from \in ToSet(found)
      BY <1>1, <2>3
    <3>2. c.to \in Reach(g, c.from)
      BY <2>1, ReachIs
    <3> QED
      BY <2>1, <3>1, <3>2
  <2>4. CASE c.from \in A /\ ~Stops(g, q, data, c.from)
    <3>1. <<c.from, c.to>> \in O
      BY <1>3, <2>1, <2>4
    <3>2. <<c.from, c.to>>[1] = c.from /\ <<c.from, c.to>>[2] = c.to
      OBVIOUS
    <3>3. c.to \in A
      BY <1>4, <2>4, <3>1, <3>2
    <3> QED
      BY <3>3
  <2> QED
    BY <1>7, <2>2, <2>3, <2>4
<1>8. ReachedIn(g, q, data, root) \subseteq S
  <2>1. {root} \subseteq S
    BY <1>4
  <2>2. ReachedIn(g, q, data, root) = Downstream(C, {root})
    BY DEF ReachedIn
  <2> HIDE DEF S, C
  <2> QED
    BY <1>6, <1>7, <2>1, <2>2, DownstreamIs
<1>9. ASSUME NEW n \in ReachedIn(g, q, data, root), n = q.goal \/ IsDirty(n, data, q.pinned)
      PROVE  \E s \in ToSet(found) : n \in Reach(g, s)
  <2>1. CASE n \in B
    BY <2>1
  <2>2. CASE n \in A
    <3>1. Stops(g, q, data, n)
      BY <1>9 DEF Stops
    <3>2. n \in ToSet(found) /\ n \in Reach(g, n)
      BY <1>1, <2>2, <3>1, ReachIs
    <3> QED
      BY <3>2
  <2> QED
    BY <1>8, <2>1, <2>2
<1>10. Covered(found, g, q, data, root)
  BY <1>9 DEF Covered
<1> QED
  BY <1>10 DEF found

LEMMA StandInCovers ==
  ASSUME NEW g \in DirectedGraphs, NEW q, NEW root, NEW data, NEW starts, NEW N,
         Covered(starts, g, q, data, root), NEW s, StandIn(s, g, starts, N)
  PROVE  Covered(s, g, q, data, root)
<1> SUFFICES ASSUME NEW n \in ReachedIn(g, q, data, root), n = q.goal \/ IsDirty(n, data, q.pinned)
             PROVE  \E x \in ToSet(s) : n \in Reach(g, x)
  BY DEF Covered
<1>1. PICK m \in ToSet(starts) : n \in Reach(g, m)
  BY DEF Covered
<1>2. PICK x \in ToSet(s) : m \in Reach(g, x)
  BY DEF StandIn
<1>3. Reach(g, m) \subseteq Reach(g, x)
  BY <1>2, ReachIs
<1> QED
  BY <1>1, <1>3

MissingCovered ==
  step \in {"cycles", "clean"} => Covered(startNodes, graph, request, runData, trigger)

LEMMA MissingCoveredHolds == PartialSpec => []MissingCovered
<1>1. Init => MissingCovered
  BY DEF Init, MissingCovered
<1>2. TypeOK /\ MissingCovered /\ [Next]_vars => MissingCovered'
  <2> SUFFICES ASSUME TypeOK, MissingCovered, [Next]_vars PROVE MissingCovered'
    OBVIOUS
  <2>1. CASE RecreateStack
    BY <2>1 DEF RecreateStack, MissingCovered
  <2>2. CASE FindTrigger
    BY <2>2 DEF FindTrigger, MissingCovered
  <2>3. CASE Subgraph
    BY <2>3 DEF Subgraph, MissingCovered, GoOn
  <2>4. CASE StartNodes
    <3>1. /\ UNCHANGED <<request, trigger, graph>> /\ step = "start"
          /\ startNodes' = FindStartNodes(graph, request, trigger, runData')
      BY <2>4 DEF StartNodes
    <3>2. trigger \in Nat
      BY <3>1, StartingPointsAre DEF TypeOK
    <3>3. Covered(startNodes', graph, request, runData', trigger)
      BY <3>1, <3>2, FindStartNodesCovers DEF TypeOK
    <3> QED
      BY <3>1, <3>3 DEF MissingCovered
  <2>5. CASE Cycles
    <3> DEFINE cycles == CyclesOf(graph, startNodes)
               fails  == \E C \in ToSet(cycles) : FirstNodes(graph, C, trigger) = <<>>
    <3>1. /\ UNCHANGED <<request, trigger, graph, runData>> /\ step = "cycles"
          /\ step' = IF fails THEN "failed" ELSE "clean"
          /\ startNodes' = IF fails THEN startNodes ELSE HandleCycles(graph, cycles, startNodes, trigger)
      BY <2>5 DEF Cycles, GoOn
    <3>2. trigger \in Nat
      BY <3>1, StartingPointsAre DEF TypeOK
    <3>3. /\ cycles \in Seq(SUBSET Nat)
          /\ \A C \in ToSet(cycles) : C \in SUBSET Nat /\ \A x, y \in C : y \in Reach(graph, x)
      BY CyclesAre DEF TypeOK
    <3> HIDE DEF cycles
    <3>4. CASE fails
      BY <3>1, <3>4 DEF MissingCovered
    <3>5. CASE ~fails
      <4>1. \A C \in ToSet(cycles) : Component(C, graph, trigger, Nat)
        BY <3>3, <3>5 DEF Component
      <4>2. ToSet(startNodes) \subseteq Nat
        BY ToSetIs DEF TypeOK
      <4>3. StandIn(HandleCycles(graph, cycles, startNodes, trigger), graph, startNodes, Nat)
        BY <3>2, <3>3, <4>1, <4>2, HandleCyclesIs DEF TypeOK
      <4>4. Covered(startNodes, graph, request, runData, trigger)
        BY <3>1 DEF MissingCovered
      <4>5. Covered(HandleCycles(graph, cycles, startNodes, trigger), graph, request, runData, trigger)
        BY <4>3, <4>4, StandInCovers DEF TypeOK
      <4> HIDE DEF fails
      <4> QED
        BY <3>1, <3>5, <4>5 DEF MissingCovered
    <3> QED
      BY <3>4, <3>5
  <2>6. CASE Clean
    BY <2>6 DEF Clean, MissingCovered, GoOn
  <2>7. CASE UNCHANGED vars
    BY <2>7 DEF MissingCovered, vars
  <2> QED
    BY <2>1, <2>2, <2>3, <2>4, <2>5, <2>6, <2>7 DEF Next
<1> QED
  BY <1>1, <1>2, PartialIsTyped, PTL DEF PartialSpec

LEMMA MissingIsRun == TypeOK /\ MissingCovered => WhatIsMissingIsRun
<1> SUFFICES ASSUME TypeOK, MissingCovered, step = "clean",
                    NEW n \in Reached, n = request.goal \/ IsDirty(n, runData, request.pinned)
             PROVE  \E s \in ToSet(startNodes) : n \in {s} \cup Children(graph, s)
  BY DEF WhatIsMissingIsRun
<1>1. Reached = ReachedIn(graph, request, runData, trigger)
  <2> DEFINE Carries(c) == c.from \in request.pinned \/ FirstRun(runData, c.from, c.out) > 0
             C == {c \in ToSet(graph.conns) : c.from # request.goal /\ Carries(c)}
             D == {c \in ToSet(graph.conns) : c.from # request.goal /\ Flows(c, runData, request.pinned)}
  <2>1. C = D
    BY DEF Flows
  <2>2. Reached = Downstream(C, {trigger}) /\ ReachedIn(graph, request, runData, trigger) = Downstream(D, {trigger})
    BY DEF Reached, ReachedIn
  <2> QED
    BY <2>1, <2>2
<1>2. PICK s \in ToSet(startNodes) : n \in Reach(graph, s)
  BY <1>1 DEF MissingCovered, Covered
<1>3. Reach(graph, s) = {s} \cup Children(graph, s)
  BY ReachIs DEF TypeOK
<1> QED
  BY <1>2, <1>3

\* Every node that data comes to and that has none of its own, and the goal, is
\* a start node or downstream of one, also after handleCycles moved the start
\* nodes (findStartNodes, handleCycles).
THEOREM PartialWhatIsMissingIsRun == PartialSpec => []WhatIsMissingIsRun
BY PartialIsTyped, MissingCoveredHolds, MissingIsRun, PTL
-----------------------------------------------------------------------------
(***************************************************************************)
(* What the search for the subgraph finds                                  *)
(***************************************************************************)
LEMMA VisitedIs ==
  ASSUME NEW b \in Seq(Conns), NEW n
  PROVE  Visited(b, n) <=> \E c \in ToSet(b) : c.to = n
<1>1. DOMAIN b = 1..Len(b) /\ ToSet(b) = {b[i] : i \in 1..Len(b)}
  BY ToSetIs
<1> QED
  BY <1>1 DEF Visited

\* A branch is a way from the goal upstream to n that comes neither to the root
\* nor, after its beginning, to the goal, except at its end.
Way(C, n, goal, root) ==
  /\ C = {} => n = goal
  /\ C # {} => (\E c \in C : c.from = n) /\ (\E c \in C : c.to = goal)
  /\ \A c \in C : /\ c.to # root
                  /\ c.to = goal \/ \E d \in C : d.from = c.to
                  /\ c.from = n \/ (c.from # goal /\ \E d \in C : d.to = c.from)

\* What is found leads to the goal, and comes from the root or from a loop.
Grounded(C, N, goal, root) ==
  /\ root \in N => \E c \in C : c.from = root
  /\ \A c \in C : /\ c.to # root /\ c.from # goal
                  /\ c.to = goal \/ \E d \in C : d.from = c.to
                  /\ c.from = root \/ \E d \in C : d.to = c.from

LEMMA WayOn ==
  ASSUME NEW C, NEW n, NEW goal, NEW root, Way(C, n, goal, root),
         n # root, ~\E c \in C : c.to = n, NEW d, d.to = n
  PROVE  Way(C \cup {d}, d.from, goal, root)
<1> DEFINE D == C \cup {d}
<1>1. C # {} => n # goal
  BY DEF Way
<1>2. \E c \in D : c.from = d.from
  OBVIOUS
<1>3. \E c \in D : c.to = goal
  BY DEF Way
<1>4. ASSUME NEW c \in C
      PROVE  /\ c.to # root
             /\ c.to = goal \/ \E e \in D : e.from = c.to
             /\ c.from = d.from \/ (c.from # goal /\ \E e \in D : e.to = c.from)
  <2>1. /\ c.to # root
        /\ c.to = goal \/ \E e \in C : e.from = c.to
        /\ c.from = n \/ (c.from # goal /\ \E e \in C : e.to = c.from)
    BY DEF Way
  <2>2. CASE c.from = n
    <3>1. d \in D /\ d.to = c.from /\ c.from # goal
      BY <1>1, <2>2
    <3> QED
      BY <2>1, <3>1
  <2>3. CASE c.from # n
    BY <2>1, <2>3
  <2> QED
    BY <2>2, <2>3
<1>5. d.to # root /\ (d.to = goal \/ \E e \in D : e.from = d.to)
  <2>1. CASE C = {}
    BY <2>1 DEF Way
  <2>2. CASE C # {}
    <3>1. PICK e \in C : e.from = n
      BY <2>2 DEF Way
    <3> QED
      BY <3>1
  <2> QED
    BY <2>1, <2>2
<1> HIDE DEF D
<1>6. D = C \cup {d}
  BY DEF D
<1>7. \A c \in D : /\ c.to # root
                   /\ c.to = goal \/ \E e \in D : e.from = c.to
                   /\ c.from = d.from \/ (c.from # goal /\ \E e \in D : e.to = c.from)
  BY <1>4, <1>5, <1>6
<1>8. Way(D, d.from, goal, root)
  BY <1>2, <1>3, <1>7 DEF Way
<1> QED
  BY <1>8 DEF D

LEMMA GroundedOn ==
  ASSUME NEW goal, NEW root, goal # root, NEW C, NEW N, Grounded(C, N, goal, root),
         NEW B, NEW n, Way(B, n, goal, root),
         n = root \/ ((\E c \in B : c.to = n) /\ n # goal)
  PROVE  Grounded(C \cup B, N \cup Ends(B) \cup (IF n = root THEN {n} ELSE {}), goal, root)
<1> DEFINE D == C \cup B
           M == N \cup Ends(B) \cup (IF n = root THEN {n} ELSE {})
<1>1. ASSUME root \in M PROVE \E c \in D : c.from = root
  <2>1. CASE root \in N
    BY <2>1 DEF Grounded
  <2>2. CASE root \in Ends(B)
    BY <2>2 DEF Ends, Way
  <2>3. CASE n = root
    <3>1. B # {}
      BY <2>3 DEF Way
    <3> QED
      BY <2>3, <3>1 DEF Way
  <2> QED
    BY <1>1, <2>1, <2>2, <2>3
<1>2. ASSUME NEW c \in C
      PROVE  /\ c.to # root /\ c.from # goal
             /\ c.to = goal \/ \E d \in D : d.from = c.to
             /\ c.from = root \/ \E d \in D : d.to = c.from
  BY DEF Grounded
<1>3. ASSUME NEW c \in B
      PROVE  /\ c.to # root /\ c.from # goal
             /\ c.to = goal \/ \E d \in D : d.from = c.to
             /\ c.from = root \/ \E d \in D : d.to = c.from
  <2>1. /\ c.to # root
        /\ c.to = goal \/ \E d \in B : d.from = c.to
        /\ c.from = n \/ (c.from # goal /\ \E d \in B : d.to = c.from)
    BY DEF Way
  <2> QED
    BY <2>1
<1> HIDE DEF M
<1>4. \A c \in D : /\ c.to # root /\ c.from # goal
                   /\ c.to = goal \/ \E d \in D : d.from = c.to
                   /\ c.from = root \/ \E d \in D : d.to = c.from
  BY <1>2, <1>3
<1> HIDE DEF D
<1>5. Grounded(D, M, goal, root)
  BY <1>1, <1>4 DEF Grounded
<1> QED
  BY <1>5 DEF D, M

FlowConns(g, goal, root) == ToSet(FlowGraph(g, goal, root).conns)

FlowNodes(g, goal, root) == ToSet(FlowGraph(g, goal, root).nodes)

LEMMA FlowGrounded ==
  ASSUME NEW g \in DirectedGraphs, NEW goal \in Nat, NEW root, goal # root
  PROVE  Grounded(FlowConns(g, goal, root), FlowNodes(g, goal, root), goal, root)
<1>1. PICK v : /\ Searching(v, g, goal, root)
               /\ FlowGraph(g, goal, root) = v[Depth(g)][<<>>][NoGraph][goal]
  BY FlowSearch
<1> DEFINE M == AllMain(g)
           W == {w \in Seq(M) \X Nat : Way(ToSet(w[1]), w[2], goal, root)}
           T == {h \in Subgraphs : Grounded(ToSet(h.conns), ToSet(h.nodes), goal, root)}
           o == <<<<>>, goal>>
<1>2. M \subseteq Conns
  BY GraphIs DEF AllMain
<1>3. ASSUME NEW w \in W
      PROVE  /\ w[1] \in Seq(M) /\ w[1] \in Seq(Conns) /\ w[2] \in Nat
             /\ Way(ToSet(w[1]), w[2], goal, root)
             /\ Visited(w[1], w[2]) <=> \E c \in ToSet(w[1]) : c.to = w[2]
  <2>1. w[1] \in Seq(M) /\ w[2] \in Nat /\ Way(ToSet(w[1]), w[2], goal, root)
    <3> HIDE DEF M
    <3> QED
      OBVIOUS
  <2> HIDE DEF M, W
  <2>2. w[1] \in Seq(Conns)
    BY <1>2, <2>1
  <2> QED
    BY <2>1, <2>2, VisitedIs
<1>4. o \in W /\ o[1] = <<>> /\ o[2] = goal
  <2>1. <<>> \in Seq(M) /\ ToSet(<<>>) = {}
    BY NothingIs
  <2>2. Way({}, goal, goal, root)
    BY DEF Way
  <2> HIDE DEF M
  <2> QED
    BY <2>1, <2>2
<1>5. Onwards(W, g, root)
  <2>1. W \subseteq Seq(M) \X Nat
    <3> HIDE DEF M
    <3> QED
      OBVIOUS
  <2>2. ASSUME NEW w \in W, w[2] # root, ~Visited(w[1], w[2]), NEW c \in MainIn(g, w[2])
        PROVE  <<Append(w[1], c), c.from>> \in W
    <3>1. c \in M /\ c.from \in Nat /\ c.to = w[2]
      BY <1>2 DEF MainIn, AllMain, Conns
    <3> DEFINE b == w[1]
               n == w[2]
               z == <<Append(b, c), c.from>>
    <3>2. b \in Seq(M) /\ Way(ToSet(b), n, goal, root) /\ n # root /\ ~\E d \in ToSet(b) : d.to = n
      BY <1>3, <2>2
    <3> HIDE DEF W, M, b, n
    <3>3. Append(b, c) \in Seq(M) /\ ToSet(Append(b, c)) = ToSet(b) \cup {c}
      BY <3>1, <3>2, AppendIs
    <3>4. Way(ToSet(b) \cup {c}, c.from, goal, root)
      BY <3>1, <3>2, WayOn DEF n
    <3>5. z \in Seq(M) \X Nat /\ z[1] = Append(b, c) /\ z[2] = c.from
      BY <3>1, <3>3
    <3> HIDE DEF z
    <3>6. z \in W
      BY <3>3, <3>4, <3>5 DEF W
    <3> QED
      BY <3>6 DEF z, b
  <2> HIDE DEF W
  <2> QED
    BY <2>1, <2>2 DEF Onwards
<1>6. KeepsOnW(T, W, g, goal, root)
  <2>1. ASSUME NEW h \in T, NEW w \in W, w[2] = root \/ (Visited(w[1], w[2]) /\ w[2] # goal)
        PROVE  AddBranch(h, w[1], w[2], root) \in T
    <3> DEFINE b == w[1]
               n == w[2]
               r == AddBranch(h, b, n, root)
    <3>1. /\ b \in Seq(Conns) /\ n \in Nat /\ Way(ToSet(b), n, goal, root)
          /\ n = root \/ ((\E c \in ToSet(b) : c.to = n) /\ n # goal)
      BY <1>3, <2>1
    <3>2. h \in Subgraphs /\ Grounded(ToSet(h.conns), ToSet(h.nodes), goal, root)
      OBVIOUS
    <3> HIDE DEF b, n, T, W
    <3>3. /\ r \in Subgraphs
          /\ ToSet(r.conns) = ToSet(h.conns) \cup ToSet(b)
          /\ ToSet(r.nodes) = ToSet(h.nodes) \cup Ends(ToSet(b)) \cup (IF n = root THEN {n} ELSE {})
      BY <3>1, <3>2, AddBranchIs
    <3> DEFINE X == ToSet(h.nodes) \cup Ends(ToSet(b)) \cup (IF n = root THEN {n} ELSE {})
    <3>4. Grounded(ToSet(h.conns) \cup ToSet(b), X, goal, root)
      BY <3>1, <3>2, GroundedOn
    <3> HIDE DEF r, X
    <3>5. Grounded(ToSet(r.conns), ToSet(r.nodes), goal, root)
      BY <3>3, <3>4 DEF X
    <3>6. r \in T
      BY <3>3, <3>5 DEF T
    <3> QED
      BY <3>6 DEF r, b, n
  <2>2. ASSUME NEW h \in T PROVE [h EXCEPT !.failed = TRUE] \in T
    <3> DEFINE r == [h EXCEPT !.failed = TRUE]
    <3>1. h \in Subgraphs /\ Grounded(ToSet(h.conns), ToSet(h.nodes), goal, root)
      OBVIOUS
    <3>2. r \in Subgraphs /\ r.conns = h.conns /\ r.nodes = h.nodes
      BY <3>1 DEF Subgraphs
    <3> HIDE DEF r
    <3> QED
      BY <3>1, <3>2 DEF r
  <2>3. T \subseteq Subgraphs
    OBVIOUS
  <2> HIDE DEF W, T
  <2> QED
    BY <2>1, <2>2, <2>3 DEF KeepsOnW
<1>7. NoGraph \in T
  <2>1. NoGraph \in Subgraphs /\ NoGraph.nodes = <<>> /\ NoGraph.conns = <<>>
    BY NothingIs DEF Subgraphs, NoGraph
  <2>2. Grounded({}, {}, goal, root)
    BY DEF Grounded
  <2> QED
    BY <2>1, <2>2, NothingIs
<1>8. Depth(g) \in Nat
  BY DepthIs
<1> HIDE DEF W, o
<1>9. v[Depth(g)][o[1]][NoGraph][o[2]] \in T
  <2> HIDE DEF T
  <2> QED
    BY <1>1, <1>4, <1>5, <1>6, <1>7, <1>8, SearchKeeps
<1>10. FlowGraph(g, goal, root) \in T
  <2> HIDE DEF T
  <2> QED
    BY <1>1, <1>4, <1>9
<1> QED
  BY <1>10 DEF FlowConns, FlowNodes
\* A search that failed, or has the connection c.
Having(c) == {h \in Subgraphs : h.failed \/ c \in ToSet(h.conns)}

LEMMA SearchHas ==
  ASSUME NEW g \in DirectedGraphs, NEW goal, NEW root, NEW v, Searching(v, g, goal, root),
         NEW c, NEW k \in Nat, NEW b \in Seq(AllMain(g)), NEW n \in Nat, NEW h \in Having(c)
  PROVE  v[k][b][h][n] \in Having(c)
<1> DEFINE M == AllMain(g)
           W == Seq(M) \X Nat
           T == Having(c)
           o == <<b, n>>
<1>1. M \subseteq Conns
  BY GraphIs DEF AllMain
<1>2. o \in W /\ o[1] = b /\ o[2] = n
  <2> HIDE DEF M
  <2>1. b \in Seq(M)
    BY DEF M
  <2> QED
    BY <2>1
<1>3. \A w \in W : w[1] \in Seq(M) /\ w[1] \in Seq(Conns) /\ w[2] \in Nat
  <2> HIDE DEF M
  <2> QED
    BY <1>1
<1>4. Onwards(W, g, root)
  <2>1. ASSUME NEW w \in W, NEW d \in MainIn(g, w[2]) PROVE <<Append(w[1], d), d.from>> \in W
    <3>1. d \in M /\ d.from \in Nat
      BY <1>1 DEF MainIn, AllMain, Conns
    <3> HIDE DEF M
    <3>2. Append(w[1], d) \in Seq(M)
      BY <1>3, <3>1, AppendIs
    <3> QED
      BY <3>1, <3>2
  <2>2. W \subseteq Seq(AllMain(g)) \X Nat
    <3> HIDE DEF M
    <3> QED
      BY DEF M
  <2> HIDE DEF W
  <2> QED
    BY <2>1, <2>2 DEF Onwards
<1>5. KeepsOnW(T, W, g, goal, root)
  <2>1. ASSUME NEW r \in T, NEW w \in W
        PROVE  AddBranch(r, w[1], w[2], root) \in T /\ [r EXCEPT !.failed = TRUE] \in T
    <3>1. w[1] \in Seq(Conns) /\ w[2] \in Nat /\ r \in Subgraphs /\ (r.failed \/ c \in ToSet(r.conns))
      BY <1>3 DEF Having
    <3> DEFINE a == AddBranch(r, w[1], w[2], root)
               e == [r EXCEPT !.failed = TRUE]
    <3>2. a \in Subgraphs /\ ToSet(a.conns) = ToSet(r.conns) \cup ToSet(w[1]) /\ a.failed = r.failed
      BY <3>1, AddBranchIs
    <3>3. e \in Subgraphs /\ e.failed
      BY <3>1 DEF Subgraphs
    <3> HIDE DEF a, e
    <3> QED
      BY <3>1, <3>2, <3>3 DEF Having, a, e
  <2>2. T \subseteq Subgraphs
    BY DEF Having
  <2> HIDE DEF W, T
  <2> QED
    BY <2>1, <2>2 DEF KeepsOnW
<1> HIDE DEF W, o
<1>6. v[k][o[1]][h][o[2]] \in T
  BY <1>2, <1>4, <1>5, SearchKeeps
<1> QED
  BY <1>2, <1>6

\* A search that goes upstream over d has c, if it has it there.
LEMMA ExpandHas ==
  ASSUME NEW g \in DirectedGraphs, NEW goal, NEW root, NEW v, Searching(v, g, goal, root),
         NEW c, NEW k \in Nat, NEW b \in Seq(AllMain(g)), NEW n \in Nat, n # root,
         ~\E e \in ToSet(b) : e.to = n, NEW d \in AllMain(g), d.to = n,
         \A h \in Subgraphs : v[k][Append(b, d)][h][d.from] \in Having(c),
         NEW h \in Subgraphs
  PROVE  v[k + 1][b][h][n] \in Having(c)
<1> DEFINE f  == Above(b, v[k])
           ps == ParentsOf(g, n)
           K  == Having(c)
           e  == [h EXCEPT !.failed = TRUE]
<1>1. AllMain(g) \subseteq Conns
  BY GraphIs DEF AllMain
<1>2. b \in Seq(Conns)
  BY <1>1
<1>3. v[k + 1] = Search(g, goal, root, v[k]) /\ v[k] \in Deeper
  BY DEF Searching
<1>4. ~Visited(b, n)
  BY <1>2, VisitedIs
<1>5. v[k + 1][b][h][n] = IF n \notin Nodes(g) THEN e ELSE Fold(f, h, ps)
  <2>1. v[k + 1][b][h][n] =
          IF n # root /\ n \notin Nodes(g) THEN [h EXCEPT !.failed = TRUE]
          ELSE IF n # root /\ ~Visited(b, n) THEN Fold(f, h, ps)
          ELSE IF n # root /\ n = goal THEN h
          ELSE AddBranch(h, b, n, root)
    BY <1>2, <1>3, SearchStep
  <2> HIDE DEF f, ps
  <2> QED
    BY <1>4, <2>1
<1>6. e \in K
  BY DEF Subgraphs, Having
<1>7. /\ Len(ps) \in Nat
      /\ \A i \in 1..Len(ps) : ps[i] \in MainIn(g, n) /\ ps[i] \in Conns
      /\ \A x \in MainIn(g, n) : \E i \in 1..Len(ps) : ps[i] = x
  BY ParentsAre
<1>8. PICK j \in 1..Len(ps) : ps[j] = d
  <2>1. d \in MainIn(g, n)
    BY DEF MainIn, AllMain
  <2> QED
    BY <1>7, <2>1
<1>9. ASSUME NEW r \in Subgraphs, NEW x \in MainIn(g, n)
      PROVE  /\ f[r][x] \in Subgraphs /\ f[r][x] = v[k][Append(b, x)][r][x.from]
             /\ r \in K => f[r][x] \in K
  <2>1. x \in AllMain(g) /\ x \in Conns /\ x.from \in Nat
    BY <1>1 DEF MainIn, AllMain, Conns
  <2>2. f[r][x] = v[k][Append(b, x)][r][x.from]
    BY <2>1 DEF Above
  <2>3. Append(b, x) \in Seq(AllMain(g)) /\ Append(b, x) \in Seq(Conns)
    BY <1>2, <2>1, AppendIs
  <2> HIDE DEF f
  <2>4. f[r][x] \in Subgraphs
    BY <1>3, <2>1, <2>2, <2>3, DeeperIs
  <2>5. r \in K => f[r][x] \in K
    BY <2>1, <2>2, <2>3, SearchHas
  <2> QED
    BY <2>2, <2>4, <2>5
<1>10. Fold(f, h, ps) \in K
  <2>1. \A r \in Subgraphs : f[r][ps[j]] \in K
    <3> HIDE DEF f, ps, K
    <3> QED
      BY <1>7, <1>8, <1>9 DEF K
  <2>2. \A r \in Subgraphs : \A i \in 1..Len(ps) : f[r][ps[i]] \in Subgraphs
    <3> HIDE DEF f, ps, K
    <3> QED
      BY <1>7, <1>9
  <2>3. \A r \in Subgraphs : \A i \in 1..Len(ps) : r \in K => f[r][ps[i]] \in K
    <3> HIDE DEF f, ps, K
    <3> QED
      BY <1>7, <1>9
  <2> HIDE DEF f, ps, K
  <2> QED
    BY <1>7, <1>8, <2>1, <2>2, <2>3, FoldReaches
<1> HIDE DEF f, ps, K, e
<1> QED
  BY <1>5, <1>6, <1>10 DEF K

\* Nodes, none of them the goal, from which the search may go upstream until it
\* comes to the root, or round a loop.
Grounds(G, g, goal, root) ==
  /\ G \subseteq Nat /\ goal \notin G
  /\ \A x \in G : x = root \/ \E d \in AllMain(g) : d.to = x /\ d.from \in G

HeadsOf(b) == {d.to : d \in ToSet(b)}

LEMMA GroundHas ==
  ASSUME NEW g \in DirectedGraphs, NEW goal \in Nat, NEW root, NEW v, Searching(v, g, goal, root),
         NEW G, Grounds(G, g, goal, root), NEW c, NEW k \in Nat,
         NEW b \in Seq(AllMain(g)), c \in ToSet(b), NEW n \in G, NEW h \in Subgraphs,
         Left(Around(g, goal), HeadsOf(b)) < k
  PROVE  v[k][b][h][n] \in Having(c)
<1> DEFINE U == Around(g, goal)
           K == Having(c)
           M == AllMain(g)
           S == {i \in Nat : \A a \in Seq(M) : \A m \in G : \A r \in Subgraphs :
                   c \in ToSet(a) /\ Left(U, HeadsOf(a)) < i => v[i][a][r][m] \in K}
<1>1. IsFiniteSet(U) /\ U \subseteq Nat
  BY AroundIs
<1>2. \A d \in M : d.to \in U
  BY DEF Around, AllMain
<1>3. M \subseteq Conns
  BY GraphIs DEF AllMain
<1> HIDE DEF U
<1>4. 0 \in S
  <2>1. \A a : ~(Left(U, a) < 0)
    <3>1. \A a : Left(U, a) \in Nat
      BY <1>1, LeftIs
    <3> QED
      BY <3>1
  <2> QED
    BY <2>1
<1>5. ASSUME NEW i \in Nat, i \in S PROVE i + 1 \in S
  <2>1. ASSUME NEW a \in Seq(M), NEW m \in G, NEW r \in Subgraphs, c \in ToSet(a),
               Left(U, HeadsOf(a)) < i + 1
        PROVE  v[i + 1][a][r][m] \in K
    <3> DEFINE z == AddBranch(r, a, m, root)
    <3>1. m \in Nat /\ m # goal /\ (m = root \/ \E d \in M : d.to = m /\ d.from \in G)
      BY DEF Grounds
    <3>2. a \in Seq(Conns)
      <4> HIDE DEF M
      <4> QED
        BY <1>3, <2>1
    <3>3. z \in K
      <4>1. z \in Subgraphs /\ ToSet(z.conns) = ToSet(r.conns) \cup ToSet(a)
        BY <3>1, <3>2, AddBranchIs
      <4> HIDE DEF z
      <4> QED
        BY <2>1, <4>1 DEF Having
    <3>4. Visited(a, m) <=> \E e \in ToSet(a) : e.to = m
      BY <3>2, VisitedIs
    <3>5. CASE m = root \/ \E e \in ToSet(a) : e.to = m
      <4> DEFINE e  == [r EXCEPT !.failed = TRUE]
                 fd == Fold(Above(a, v[i]), r, ParentsOf(g, m))
      <4>1. v[i + 1] = Search(g, goal, root, v[i])
        BY DEF Searching
      <4>2. v[i + 1][a][r][m] =
              IF m # root /\ m \notin Nodes(g) THEN e
              ELSE IF m # root /\ ~Visited(a, m) THEN fd
              ELSE IF m # root /\ m = goal THEN r
              ELSE z
        BY <3>1, <3>2, <4>1, SearchStep
      <4>3. e \in K
        BY DEF Subgraphs, Having
      <4> HIDE DEF e, fd, z
      <4> QED
        BY <3>1, <3>3, <3>4, <3>5, <4>2, <4>3
    <3>6. CASE m # root /\ ~\E e \in ToSet(a) : e.to = m
      <4>1. PICK d \in M : d.to = m /\ d.from \in G
        BY <3>1, <3>6
      <4> DEFINE y == Append(a, d)
      <4>2. y \in Seq(M) /\ ToSet(y) = ToSet(a) \cup {d}
        BY <2>1, AppendIs
      <4>3. HeadsOf(y) = HeadsOf(a) \cup {m}
        BY <4>1, <4>2 DEF HeadsOf
      <4>4. m \in U \ HeadsOf(a)
        BY <1>2, <3>6, <4>1 DEF HeadsOf
      <4>5. Left(U, HeadsOf(y)) < i
        <5>1. /\ Left(U, HeadsOf(a)) \in Nat /\ Left(U, HeadsOf(a) \cup {m}) \in Nat
              /\ Left(U, HeadsOf(a) \cup {m}) < Left(U, HeadsOf(a))
          BY <1>1, <4>4, LeftIs
        <5> HIDE DEF y
        <5> QED
          BY <2>1, <4>3, <5>1
      <4>6. \A x \in Subgraphs : v[i][y][x][d.from] \in K
        <5> HIDE DEF y, K
        <5> QED
          BY <1>5, <2>1, <4>1, <4>2, <4>5
      <4> QED
        BY <2>1, <3>1, <3>6, <4>1, <4>6, ExpandHas
    <3> QED
      BY <3>5, <3>6
  <2> QED
    BY <2>1
<1>6. k \in S
  <2> HIDE DEF S
  <2> QED
    BY <1>4, <1>5, NatSetInduction
<1> QED
  BY <1>6 DEF U
\* The steps upstream that do not go on from the root.
Up(g, root) == {<<d.to, d.from>> : d \in {e \in AllMain(g) : e.to # root}}

LEMMA UpIs ==
  ASSUME NEW g \in DirectedGraphs, NEW root
  PROVE  /\ IsFiniteSet(Up(g, root))
         /\ \A p \in Up(g, root) : \E d \in AllMain(g) : d.to = p[1] /\ d.from = p[2] /\ d.to # root
         /\ \A d \in AllMain(g) : d.to # root => <<d.to, d.from>> \in Up(g, root)
<1> DEFINE E == {e \in AllMain(g) : e.to # root}
           pair == [d \in E |-> <<d.to, d.from>>]
<1>1. IsFiniteSet(E)
  <2>1. E \subseteq ToSet(g.conns) /\ IsFiniteSet(ToSet(g.conns))
    BY GraphIs DEF AllMain
  <2> QED
    BY <2>1, FS_Subset
<1>2. Up(g, root) = {pair[d] : d \in E}
  BY DEF Up
<1>3. IsFiniteSet({pair[d] : d \in E})
  <2> HIDE DEF pair, E
  <2> QED
    BY <1>1, FiniteImage
<1>4. ASSUME NEW p \in Up(g, root)
      PROVE  \E d \in AllMain(g) : d.to = p[1] /\ d.from = p[2] /\ d.to # root
  <2>1. PICK d \in E : p = <<d.to, d.from>>
    BY DEF Up
  <2>2. p[1] = d.to /\ p[2] = d.from
    BY <2>1
  <2> QED
    BY <2>2
<1>5. \A d \in AllMain(g) : d.to # root => <<d.to, d.from>> \in Up(g, root)
  BY DEF Up
<1> QED
  BY <1>2, <1>3, <1>4, <1>5

LEMMA CoverHas ==
  ASSUME NEW g \in DirectedGraphs, NEW goal \in Nat, NEW root, NEW v, Searching(v, g, goal, root),
         NEW G, Grounds(G, g, goal, root), NEW c \in AllMain(g), c.from \in G, c.to # root,
         NEW k \in Nat, NEW b \in Seq(AllMain(g)), NEW n \in Nat, n # root, n \notin HeadsOf(b),
         NEW h \in Subgraphs, Left(Around(g, goal), HeadsOf(b)) < k, n \in Around(g, goal),
         c.to \in ReachedBy(Outside(Up(g, root), HeadsOf(b)), {n})
  PROVE  v[k][b][h][n] \in Having(c)
<1> DEFINE U == Around(g, goal)
           R == Up(g, root)
           K == Having(c)
           M == AllMain(g)
           S == {i \in Nat : \A a \in Seq(M) : \A m \in U : \A r \in Subgraphs :
                   /\ m # root /\ m \notin HeadsOf(a) /\ Left(U, HeadsOf(a)) < i
                   /\ c.to \in ReachedBy(Outside(R, HeadsOf(a)), {m})
                   => v[i][a][r][m] \in K}
<1>1. IsFiniteSet(U) /\ U \subseteq Nat
  BY AroundIs
<1>2. \A d \in M : d.to \in U
  BY DEF Around, AllMain
<1>3. M \subseteq Conns
  BY GraphIs DEF AllMain
<1>4. IsFiniteSet(R) /\ \A p \in R : \E d \in M : d.to = p[1] /\ d.from = p[2] /\ d.to # root
  BY UpIs
<1> HIDE DEF U, R
<1>5. 0 \in S
  <2>1. \A a : ~(Left(U, a) < 0)
    <3>1. \A a : Left(U, a) \in Nat
      BY <1>1, LeftIs
    <3> QED
      BY <3>1
  <2> QED
    BY <2>1
<1>6. ASSUME NEW i \in Nat, i \in S PROVE i + 1 \in S
  <2>1. ASSUME NEW a \in Seq(M), NEW m \in U, NEW r \in Subgraphs,
               m # root, m \notin HeadsOf(a), Left(U, HeadsOf(a)) < i + 1,
               c.to \in ReachedBy(Outside(R, HeadsOf(a)), {m})
        PROVE  v[i + 1][a][r][m] \in K
    <3> DEFINE s == HeadsOf(a)
               Q == Outside(R, s)
    <3>1. m \in Nat /\ ~\E e \in ToSet(a) : e.to = m
      BY <1>1, <2>1 DEF HeadsOf
    <3>2. m \in U \ s
      BY <2>1
    <3>3. Left(U, s \cup {m}) < i
      <4>1. /\ Left(U, s) \in Nat /\ Left(U, s \cup {m}) \in Nat
            /\ Left(U, s \cup {m}) < Left(U, s)
        BY <1>1, <3>2, LeftIs
      <4> QED
        BY <2>1, <4>1
    <3>4. ASSUME NEW d \in M, d.to = m
          PROVE  Append(a, d) \in Seq(M) /\ ToSet(Append(a, d)) = ToSet(a) \cup {d}
                 /\ HeadsOf(Append(a, d)) = s \cup {m}
      <4>1. Append(a, d) \in Seq(M) /\ ToSet(Append(a, d)) = ToSet(a) \cup {d}
        BY <2>1, AppendIs
      <4> QED
        BY <3>4, <4>1 DEF HeadsOf
    <3>5. CASE c.to = m
      <4>1. Append(a, c) \in Seq(M) /\ c \in ToSet(Append(a, c)) /\ HeadsOf(Append(a, c)) = s \cup {m}
        BY <3>4, <3>5
      <4> DEFINE y == Append(a, c)
      <4> HIDE DEF y
      <4>2. \A x \in Subgraphs : v[i][y][x][c.from] \in K
        <5>1. y \in Seq(M) /\ c \in ToSet(y) /\ Left(Around(g, goal), HeadsOf(y)) < i
          BY <3>3, <4>1 DEF y, U
        <5> QED
          BY <5>1, GroundHas
      <4>3. \A x \in Subgraphs : v[i][Append(a, c)][x][c.from] \in Having(c)
        BY <4>2 DEF y
      <4> QED
        BY <2>1, <3>1, <3>5, <4>3, ExpandHas
    <3>6. CASE c.to # m
      <4>1. IsFiniteSet(Q) /\ Outside(Q, {m}) = Outside(R, s \cup {m})
        <5>1. IsFiniteSet(Q) /\ \A l : Outside(Q, {l}) = Outside(R, s \cup {l})
          <6> HIDE DEF s
          <6>1. IsFiniteSet(R)
            BY <1>4
          <6> QED
            BY <6>1, OutsideIs, ZenonT(40)
        <5> QED
          BY <5>1
      <4>2. \A p \in Q : p \in R /\ p[1] \notin s /\ p[2] \notin s
        BY DEF Outside
      <4>3. c.to \in ReachedBy(Q, {m})
        BY <2>1
      <4> HIDE DEF Q
      <4>4. PICK p \in Q : p[1] = m /\ p[2] # m /\ c.to \in ReachedBy(Outside(Q, {m}), {p[2]})
        BY <3>6, <4>1, <4>3, FirstStep
      <4>5. PICK d \in M : d.to = m /\ d.from = p[2]
        BY <1>4, <4>2, <4>4
      <4> DEFINE y == Append(a, d)
                 l == d.from
      <4>6. y \in Seq(M) /\ HeadsOf(y) = s \cup {m}
        BY <3>4, <4>5
      <4>7. l \notin s \cup {m} /\ c.to \in ReachedBy(Outside(R, s \cup {m}), {l})
        BY <4>1, <4>2, <4>4, <4>5
      <4>8. l \in U /\ l # root
        <5> DEFINE V == Outside(R, s \cup {m})
        <5>1. IsFiniteSet(V) /\ \A e \in V : e \in R
          BY <1>4, OutsideIs DEF Outside
        <5> HIDE DEF V
        <5>2. c.to = l \/ \E e \in V : e[1] = l
          <6>1. ASSUME \A e \in V : e[1] # l PROVE ReachedBy(V, {l}) \subseteq {l}
            <7>1. \A e \in V : e[1] \in {l} => e[2] \in {l}
              BY <6>1
            <7> QED
              BY <5>1, <7>1, ReachedByIs
          <6> QED
            BY <4>7, <6>1 DEF V
        <5>3. CASE c.to = l
          BY <1>2, <5>3
        <5>4. CASE \E e \in V : e[1] = l
          BY <1>2, <1>4, <5>1, <5>4
        <5> QED
          BY <5>2, <5>3, <5>4
      <4> HIDE DEF y, l
      <4>9. \A x \in Subgraphs : v[i][y][x][l] \in K
        <5>1. /\ l \notin HeadsOf(y) /\ Left(U, HeadsOf(y)) < i
              /\ c.to \in ReachedBy(Outside(R, HeadsOf(y)), {l})
          BY <3>3, <4>6, <4>7
        <5> QED
          BY <1>6, <4>6, <4>8, <5>1
      <4>10. \A x \in Subgraphs : v[i][Append(a, d)][x][d.from] \in Having(c)
        BY <4>9 DEF y, l
      <4> QED
        BY <2>1, <3>1, <4>5, <4>10, ExpandHas
    <3> QED
      BY <3>5, <3>6
  <2> QED
    BY <2>1
<1>7. k \in S
  <2> HIDE DEF S
  <2> QED
    BY <1>5, <1>6, NatSetInduction
<1> QED
  BY <1>7 DEF U, R

\* findSubgraph finds each connection upstream of the goal that leaves a node
\* from which the search gets on, unless it fails.
LEMMA FlowCovers ==
  ASSUME NEW g \in DirectedGraphs, NEW goal \in Nat, NEW root, goal # root,
         NEW G, Grounds(G, g, goal, root), NEW c \in AllMain(g), c.from \in G, c.to # root,
         c.to \in ReachedBy(Up(g, root), {goal})
  PROVE  FlowGraph(g, goal, root).failed \/ c \in FlowConns(g, goal, root)
<1>1. PICK v : /\ Searching(v, g, goal, root)
               /\ FlowGraph(g, goal, root) = v[Depth(g)][<<>>][NoGraph][goal]
  BY FlowSearch
<1>2. /\ Depth(g) \in Nat /\ Cardinality(Around(g, goal)) \in Nat
      /\ Cardinality(Around(g, goal)) < Depth(g) /\ goal \in Around(g, goal)
  BY AroundIs DEF Around
<1> DEFINE b == <<>>
<1>3. b \in Seq(AllMain(g)) /\ HeadsOf(b) = {}
  BY NothingIs DEF HeadsOf
<1>4. NoGraph \in Subgraphs
  BY NothingIs DEF Subgraphs, NoGraph
<1>5. Left(Around(g, goal), HeadsOf(b)) < Depth(g)
  <2>1. Around(g, goal) \ {} = Around(g, goal)
    OBVIOUS
  <2> QED
    BY <1>2, <1>3, <2>1 DEF Left
<1>6. Outside(Up(g, root), HeadsOf(b)) = Up(g, root)
  BY <1>3 DEF Outside
<1> HIDE DEF b
<1>7. v[Depth(g)][b][NoGraph][goal] \in Having(c)
  BY <1>1, <1>2, <1>3, <1>4, <1>5, <1>6, CoverHas
<1>8. FlowGraph(g, goal, root) \in Having(c)
  BY <1>1, <1>7 DEF b
<1> QED
  BY <1>8 DEF Having, FlowConns
-----------------------------------------------------------------------------
(***************************************************************************)
(* What filtering disabled nodes out leaves                                *)
(***************************************************************************)
LEMMA FilterReaches ==
  ASSUME NEW T, T \subseteq DirectedGraphs, NEW g \in T, NEW disabled,
         \A h \in T : \A n \in disabled : RemoveNode(h, n) \in T,
         NEW m \in disabled, m \in Nodes(g), NEW K,
         \A h \in T : RemoveNode(h, m) \in K,
         \A h \in T : \A n \in disabled : h \in K => RemoveNode(h, n) \in K
  PROVE  FilterDisabledNodes(g, disabled) \in K
<1> DEFINE f == [h \in DirectedGraphs |-> [n \in Nat |->
                   IF n \in disabled THEN RemoveNode(h, n) ELSE h]]
           s == g.nodes
<1>1. s \in Seq(Nat) /\ Nodes(g) = ToSet(s)
  BY GraphIs DEF Nodes
<1>2. FilterDisabledNodes(g, disabled) = Fold(f, g, s)
  BY DEF FilterDisabledNodes
<1> HIDE DEF s
<1>3. Len(s) \in Nat /\ (\A k \in 1..Len(s) : s[k] \in Nat)
      /\ \A x \in ToSet(s) : \E k \in 1..Len(s) : x = s[k]
  BY <1>1, NumbersAre
<1>4. PICK j \in 1..Len(s) : s[j] = m
  BY <1>1, <1>3
<1>5. ASSUME NEW h \in T, NEW n \in Nat PROVE f[h][n] = IF n \in disabled THEN RemoveNode(h, n) ELSE h
  OBVIOUS
<1> HIDE DEF f
<1>6. \A h \in T : \A k \in 1..Len(s) : f[h][s[k]] \in T
  BY <1>3, <1>5
<1>7. \A h \in T : f[h][s[j]] \in K
  BY <1>3, <1>4, <1>5
<1>8. \A h \in T : \A k \in 1..Len(s) : h \in K => f[h][s[k]] \in K
  <2> SUFFICES ASSUME NEW h \in T, NEW k \in 1..Len(s), h \in K PROVE f[h][s[k]] \in K
    OBVIOUS
  <2>1. f[h][s[k]] = IF s[k] \in disabled THEN RemoveNode(h, s[k]) ELSE h
    BY <1>3, <1>5
  <2>2. CASE s[k] \in disabled
    BY <2>1, <2>2
  <2>3. CASE s[k] \notin disabled
    BY <2>1, <2>3
  <2> QED
    BY <2>2, <2>3
<1>9. Fold(f, g, s) \in K
  BY <1>3, <1>6, <1>7, <1>8, FoldReaches
<1> QED
  BY <1>2, <1>9

LEMMA RemovedConns ==
  ASSUME NEW g \in DirectedGraphs, NEW n, NEW e \in ToSet(RemoveNode(g, n).conns)
  PROVE  \/ e \in ToSet(g.conns) /\ e.from # n /\ e.to # n
         \/ /\ Main(e)
            /\ \E c, d \in AllMain(g) : c.to = n /\ d.from = n /\ e.from = c.from /\ e.to = d.to
<1>1. ToSet(RemoveNode(g, n).conns) =
        {c \in ToSet(g.conns) : n \notin {c.from, c.to}}
          \cup {Joined(c, d) : c \in MainIn(g, n), d \in MainOut(g, n)}
  BY RemoveNodeIs
<1>2. CASE e \in {c \in ToSet(g.conns) : n \notin {c.from, c.to}}
  BY <1>2
<1>3. CASE e \in {Joined(c, d) : c \in MainIn(g, n), d \in MainOut(g, n)}
  <2>1. PICK c \in MainIn(g, n), d \in MainOut(g, n) : e = Joined(c, d)
    BY <1>3
  <2>2. c \in AllMain(g) /\ d \in AllMain(g) /\ c.to = n /\ d.from = n /\ c \in Conns /\ d \in Conns /\ Main(c)
    BY GraphIs DEF MainIn, MainOut, AllMain
  <2>3. e.from = c.from /\ e.to = d.to /\ e.type = c.type
    BY <2>1, <2>2, JoinedIs
  <2>4. Main(e)
    BY <2>2, <2>3 DEF Main
  <2> QED
    BY <2>2, <2>3, <2>4
<1> QED
  BY <1>1, <1>2, <1>3

\* Ways over connections of type main that leave no node of A and enter none
\* of B.
Cut(g, A, B) == {c \in AllMain(g) : c.from \notin A /\ c.to \notin B}

LEMMA CutFinite ==
  ASSUME NEW g \in DirectedGraphs, NEW A, NEW B
  PROVE  IsFiniteSet(Cut(g, A, B))
<1>1. Cut(g, A, B) \subseteq ToSet(g.conns) /\ IsFiniteSet(ToSet(g.conns))
  BY GraphIs DEF Cut, AllMain
<1> QED
  BY <1>1, FS_Subset

LEMMA RemoveKeepsWays ==
  ASSUME NEW g \in DirectedGraphs, NEW n, NEW A, NEW B, NEW x, NEW y, x # n, y # n,
         y \in Downstream(Cut(g, A, B), {x})
  PROVE  y \in Downstream(Cut(RemoveNode(g, n), A, B), {x})
<1> DEFINE h == RemoveNode(g, n)
           C == Cut(g, A, B)
           E == Cut(h, A, B)
           D == Downstream(E, {x})
           S == (D \ {n}) \cup {z \in {n} : \E c \in C : c.from \in D /\ c.to = n}
<1>1. /\ h \in DirectedGraphs
      /\ ToSet(h.conns) = {c \in ToSet(g.conns) : n \notin {c.from, c.to}}
                            \cup {Joined(c, d) : c \in MainIn(g, n), d \in MainOut(g, n)}
  BY RemoveNodeIs
<1> HIDE DEF h
<1>2. IsFiniteSet(C) /\ IsFiniteSet(E)
  BY <1>1, CutFinite
<1>3. /\ \A c \in C : /\ c \in ToSet(g.conns) /\ c \in Conns /\ Main(c)
                      /\ c.from \notin A /\ c.to \notin B
      /\ \A c \in ToSet(h.conns) : Main(c) /\ c.from \notin A /\ c.to \notin B => c \in E
  BY GraphIs DEF Cut, AllMain
<1> HIDE DEF C, E
<1>4. {x} \subseteq D /\ \A c \in E : c.from \in D => c.to \in D
  BY <1>2, DownstreamIs
<1> HIDE DEF D
<1>5. ASSUME NEW c \in C, c.from \in S PROVE c.to \in S
  <2>1. CASE c.from # n /\ c.to # n
    <3>1. c \in ToSet(h.conns)
      BY <1>1, <1>3, <2>1
    <3>2. c \in E /\ c.from \in D
      BY <1>3, <1>5, <2>1, <3>1
    <3> QED
      BY <1>4, <2>1, <3>2
  <2>2. CASE c.from # n /\ c.to = n
    BY <1>5, <2>2
  <2>3. CASE c.from = n
    <3>1. PICK b \in C : b.from \in D /\ b.to = n
      BY <1>5, <2>3
    <3> DEFINE j == Joined(b, c)
    <3>2. j \in ToSet(h.conns)
      BY <1>1, <1>3, <2>3, <3>1 DEF MainIn, MainOut
    <3>3. j.from = b.from /\ j.to = c.to /\ j.type = b.type
      BY <1>3, JoinedIs
    <3> HIDE DEF j
    <3>4. j \in E
      BY <1>3, <3>1, <3>2, <3>3 DEF Main
    <3>5. c.to \in D
      BY <1>4, <3>1, <3>3, <3>4
    <3> QED
      BY <3>1, <3>5
  <2> QED
    BY <2>1, <2>2, <2>3
<1>6. {x} \subseteq S
  BY <1>4
<1>7. Downstream(C, {x}) \subseteq S
  <2> HIDE DEF S
  <2> QED
    BY <1>2, <1>5, <1>6, DownstreamIs
<1>8. y \in D
  BY <1>7 DEF C
<1> QED
  BY <1>8 DEF D, E, h

LEMMA FilterKeepsWays ==
  ASSUME NEW g \in DirectedGraphs, NEW disabled, NEW A, NEW B, NEW x, NEW y,
         x \notin disabled, y \notin disabled, y \in Downstream(Cut(g, A, B), {x})
  PROVE  y \in Downstream(Cut(FilterDisabledNodes(g, disabled), A, B), {x})
<1> DEFINE T == {h \in DirectedGraphs : y \in Downstream(Cut(h, A, B), {x})}
<1>1. g \in T /\ T \subseteq DirectedGraphs
  OBVIOUS
<1>2. ASSUME NEW h \in T, NEW n \in disabled PROVE RemoveNode(h, n) \in T
  <2>1. RemoveNode(h, n) \in DirectedGraphs
    BY RemoveNodeIs
  <2>2. x # n /\ y # n
    OBVIOUS
  <2>3. y \in Downstream(Cut(RemoveNode(h, n), A, B), {x})
    BY <2>2, RemoveKeepsWays
  <2> QED
    BY <2>1, <2>3
<1>3. FilterDisabledNodes(g, disabled) \in T
  <2> HIDE DEF T
  <2> QED
    BY <1>1, <1>2, FilterIn
<1> QED
  BY <1>3

\* Each end of a connection of type main is one of a connection the user drew.
LEMMA FilterEnds ==
  ASSUME NEW g \in DirectedGraphs, NEW disabled
  PROVE  \A e \in AllMain(FilterDisabledNodes(g, disabled)) :
           \E c, d \in AllMain(g) : e.from = c.from /\ e.to = d.to
<1> DEFINE Old(h) == \A e \in AllMain(h) : \E c, d \in AllMain(g) : e.from = c.from /\ e.to = d.to
           T == {h \in DirectedGraphs : Old(h)}
<1>1. g \in T /\ T \subseteq DirectedGraphs
  OBVIOUS
<1>2. ASSUME NEW h \in T, NEW n \in disabled PROVE RemoveNode(h, n) \in T
  <2>1. RemoveNode(h, n) \in DirectedGraphs /\ h \in DirectedGraphs
    BY RemoveNodeIs
  <2>2. ASSUME NEW e \in AllMain(RemoveNode(h, n))
        PROVE  \E c, d \in AllMain(g) : e.from = c.from /\ e.to = d.to
    <3>1. e \in ToSet(RemoveNode(h, n).conns) /\ Main(e)
      BY DEF AllMain
    <3>2. \E c, d \in AllMain(h) : e.from = c.from /\ e.to = d.to
      BY <2>1, <3>1, RemovedConns DEF AllMain
    <3>3. PICK c \in AllMain(h), d \in AllMain(h) : e.from = c.from /\ e.to = d.to
      BY <3>2
    <3>4. Old(h)
      OBVIOUS
    <3> QED
      BY <3>3, <3>4
  <2> QED
    BY <2>1, <2>2
<1>3. FilterDisabledNodes(g, disabled) \in T
  <2> HIDE DEF T
  <2> QED
    BY <1>1, <1>2, FilterIn
<1> QED
  BY <1>3

\* A connection of another type has no end that is disabled.
LEMMA FilterSubs ==
  ASSUME NEW g \in DirectedGraphs, NEW disabled, disabled \subseteq Nodes(g),
         NEW c \in ToSet(FilterDisabledNodes(g, disabled).conns), ~Main(c)
  PROVE  c.from \notin disabled /\ c.to \notin disabled
<1> SUFFICES ASSUME NEW m \in disabled PROVE c.from # m /\ c.to # m
  OBVIOUS
<1> DEFINE T == DirectedGraphs
           K == {h \in T : \A e \in ToSet(h.conns) : ~Main(e) => e.from # m /\ e.to # m}
<1>1. \A h \in T : \A n : RemoveNode(h, n) \in T
  BY RemoveNodeIs
<1>2. \A h \in T : RemoveNode(h, m) \in K
  BY <1>1, RemovedConns
<1>3. \A h \in T : \A n \in disabled : h \in K => RemoveNode(h, n) \in K
  BY <1>1, RemovedConns
<1>4. FilterDisabledNodes(g, disabled) \in K
  <2> HIDE DEF K
  <2> QED
    BY <1>1, <1>2, <1>3, FilterReaches
<1> QED
  BY <1>4
\* Connections between disabled nodes, and the ways over them.
Within(g, disabled) == {c \in AllMain(g) : c.from \in disabled /\ c.to \in disabled}

After(C, x, y) == \E c \in C : c.from = x /\ y \in Downstream(C, {c.to})

LEMMA AfterTwice ==
  ASSUME NEW C, IsFiniteSet(C), NEW x, NEW y, NEW z, After(C, x, y), After(C, y, z)
  PROVE  After(C, x, z)
<1>1. PICK c \in C : c.from = x /\ y \in Downstream(C, {c.to})
  BY DEF After
<1>2. PICK d \in C : d.from = y /\ z \in Downstream(C, {d.to})
  BY DEF After
<1> DEFINE D == Downstream(C, {c.to})
<1>3. \A e \in C : e.from \in D => e.to \in D
  BY DownstreamIs
<1>4. {d.to} \subseteq D
  BY <1>1, <1>2, <1>3
<1> HIDE DEF D
<1>5. Downstream(C, {d.to}) \subseteq D
  BY <1>3, <1>4, DownstreamIs
<1>6. z \in D
  BY <1>2, <1>5
<1> QED
  BY <1>1, <1>6 DEF After, D

\* removeNode leaves no connection to or from a disabled node, where disabled
\* nodes form no loop.
LEMMA FilterLeavesNoEnds ==
  ASSUME NEW g \in DirectedGraphs, NEW disabled, disabled \subseteq Nodes(g),
         \A n \in disabled : ~After(Within(g, disabled), n, n),
         NEW c \in ToSet(FilterDisabledNodes(g, disabled).conns)
  PROVE  c.from \notin disabled /\ c.to \notin disabled
<1> SUFFICES ASSUME NEW m \in disabled PROVE c.from # m /\ c.to # m
  OBVIOUS
<1> DEFINE C == Within(g, disabled)
           T == {h \in DirectedGraphs : \A e \in Within(h, disabled) : After(C, e.from, e.to)}
           K == {h \in T : \A e \in ToSet(h.conns) : e.from # m /\ e.to # m}
<1>1. IsFiniteSet(C)
  <2>1. C \subseteq ToSet(g.conns) /\ IsFiniteSet(ToSet(g.conns))
    BY GraphIs DEF Within, AllMain
  <2> QED
    BY <2>1, FS_Subset
<1>2. g \in T
  <2>1. ASSUME NEW e \in C PROVE After(C, e.from, e.to)
    <3>1. {e.to} \subseteq Downstream(C, {e.to})
      <4> HIDE DEF C
      <4> QED
        BY <1>1, DownstreamIs
    <3> QED
      BY <3>1 DEF After
  <2> QED
    BY <2>1
<1>3. \A n \in disabled : ~After(C, n, n)
  OBVIOUS
<1> HIDE DEF C
<1>4. ASSUME NEW h \in T, NEW n \in disabled
      PROVE  /\ RemoveNode(h, n) \in T
             /\ \A e \in ToSet(RemoveNode(h, n).conns) : e.from # n /\ e.to # n
             /\ \A k \in disabled : (\A e \in ToSet(h.conns) : e.from # k /\ e.to # k)
                  => \A e \in ToSet(RemoveNode(h, n).conns) : e.from # k /\ e.to # k
  <2> DEFINE r == RemoveNode(h, n)
  <2>1. r \in DirectedGraphs /\ h \in DirectedGraphs
    BY RemoveNodeIs
  <2>2. \A e \in Within(h, disabled) : After(C, e.from, e.to)
    OBVIOUS
  <2>3. ASSUME NEW e \in ToSet(r.conns)
        PROVE  \/ e \in ToSet(h.conns) /\ e.from # n /\ e.to # n
               \/ /\ Main(e)
                  /\ \E a, b \in AllMain(h) : a.to = n /\ b.from = n /\ e.from = a.from /\ e.to = b.to
    BY <2>1, RemovedConns
  <2> HIDE DEF r, T
  <2>4. ASSUME NEW e \in ToSet(r.conns) PROVE e.from # n /\ e.to # n
    <3>1. CASE e.from # n /\ e.to # n
      BY <3>1
    <3>2. CASE ~(e.from # n /\ e.to # n)
      <4>1. PICK a \in AllMain(h), b \in AllMain(h) :
                   a.to = n /\ b.from = n /\ e.from = a.from /\ e.to = b.to
        BY <2>3, <3>2
      <4>2. CASE a.from = n
        <5>1. a \in Within(h, disabled)
          BY <4>1, <4>2 DEF Within
        <5> QED
          BY <1>3, <2>2, <4>1, <4>2, <5>1
      <4>3. CASE b.to = n
        <5>1. b \in Within(h, disabled)
          BY <4>1, <4>3 DEF Within
        <5> QED
          BY <1>3, <2>2, <4>1, <4>3, <5>1
      <4> QED
        BY <3>2, <4>1, <4>2, <4>3
    <3> QED
      BY <3>1, <3>2
  <2>5. ASSUME NEW e \in Within(r, disabled) PROVE After(C, e.from, e.to)
    <3>1. e \in ToSet(r.conns) /\ Main(e) /\ e.from \in disabled /\ e.to \in disabled
      BY DEF Within, AllMain
    <3>2. CASE e \in ToSet(h.conns)
      BY <2>2, <3>1, <3>2 DEF Within, AllMain
    <3>3. CASE \E a, b \in AllMain(h) : a.to = n /\ b.from = n /\ e.from = a.from /\ e.to = b.to
      <4>1. PICK a \in AllMain(h), b \in AllMain(h) :
                   a.to = n /\ b.from = n /\ e.from = a.from /\ e.to = b.to
        BY <3>3
      <4>2. a \in Within(h, disabled) /\ b \in Within(h, disabled)
        BY <3>1, <4>1 DEF Within
      <4>3. After(C, e.from, n) /\ After(C, n, e.to)
        BY <2>2, <4>1, <4>2
      <4> QED
        BY <1>1, <4>3, AfterTwice
    <3> QED
      BY <2>3, <3>1, <3>2, <3>3
  <2>6. r \in T
    BY <2>1, <2>5 DEF T
  <2>7. ASSUME NEW k \in disabled, \A e \in ToSet(h.conns) : e.from # k /\ e.to # k
        PROVE  \A e \in ToSet(r.conns) : e.from # k /\ e.to # k
    BY <2>3, <2>7 DEF AllMain
  <2> QED
    BY <2>4, <2>6, <2>7 DEF r
<1>5. FilterDisabledNodes(g, disabled) \in K
  <2>1. T \subseteq DirectedGraphs
    OBVIOUS
  <2>2. \A h \in T : RemoveNode(h, m) \in K
    <3> HIDE DEF T
    <3> QED
      BY <1>4
  <2>3. \A h \in T : \A n \in disabled : h \in K => RemoveNode(h, n) \in K
    <3> HIDE DEF T
    <3> QED
      BY <1>4
  <2> HIDE DEF T, K
  <2> QED
    BY <1>2, <1>4, <2>1, <2>2, <2>3, FilterReaches
<1> QED
  BY <1>5
-----------------------------------------------------------------------------
(***************************************************************************)
(* The assertions hold                                                     *)
(***************************************************************************)
LEMMA Reversed ==
  ASSUME NEW R, IsFiniteSet(R), NEW Q, IsFiniteSet(Q),
         \A p \in R : <<p[2], p[1]>> \in Q,
         NEW x, NEW y \in ReachedBy(R, {x})
  PROVE  x \in ReachedBy(Q, {y})
<1> DEFINE S == {z \in ReachedBy(R, {x}) : x \in ReachedBy(Q, {z})}
<1>1. ASSUME NEW z
      PROVE  /\ {z} \subseteq ReachedBy(R, {z}) /\ {z} \subseteq ReachedBy(Q, {z})
             /\ \A p \in R : p[1] \in ReachedBy(R, {z}) => p[2] \in ReachedBy(R, {z})
             /\ \A p \in Q : p[1] \in ReachedBy(Q, {z}) => p[2] \in ReachedBy(Q, {z})
             /\ \A T : {z} \subseteq T /\ (\A p \in R : p[1] \in T => p[2] \in T) => ReachedBy(R, {z}) \subseteq T
             /\ \A T : {z} \subseteq T /\ (\A p \in Q : p[1] \in T => p[2] \in T) => ReachedBy(Q, {z}) \subseteq T
  BY ReachedByIs
<1>2. {x} \subseteq S
  BY <1>1
<1>3. ASSUME NEW p \in R, p[1] \in S PROVE p[2] \in S
  <2> DEFINE w == <<p[2], p[1]>>
             T == ReachedBy(Q, {p[2]})
  <2>1. w \in Q /\ w[1] = p[2] /\ w[2] = p[1]
    OBVIOUS
  <2> HIDE DEF w
  <2>2. {p[2]} \subseteq T /\ \A v \in Q : v[1] \in T => v[2] \in T
    BY <1>1
  <2>3. {p[1]} \subseteq T
    BY <2>1, <2>2
  <2> HIDE DEF T
  <2>4. ReachedBy(Q, {p[1]}) \subseteq T
    <3> DEFINE X == {p[1]}
    <3>1. X \subseteq T
      BY <2>3
    <3> HIDE DEF X
    <3>2. ReachedBy(Q, X) \subseteq T
      BY <2>2, <3>1, ReachedByIs
    <3> QED
      BY <3>2 DEF X
  <2>5. x \in T
    BY <1>3, <2>4
  <2>6. p[2] \in ReachedBy(R, {x})
    BY <1>1, <1>3
  <2> QED
    BY <2>5, <2>6 DEF T
<1>4. ReachedBy(R, {x}) \subseteq S
  <2> HIDE DEF S
  <2> QED
    BY <1>1, <1>2, <1>3
<1> QED
  BY <1>4

Pairs(C) == {<<c.from, c.to>> : c \in C}

LEMMA PairsAre ==
  ASSUME NEW C, IsFiniteSet(C)
  PROVE  /\ IsFiniteSet(Pairs(C)) /\ \A N : Downstream(C, N) = ReachedBy(Pairs(C), N)
         /\ \A p \in Pairs(C) : \E c \in C : c.from = p[1] /\ c.to = p[2]
         /\ \A c \in C : <<c.from, c.to>> \in Pairs(C)
<1> DEFINE pair == [c \in C |-> <<c.from, c.to>>]
<1>1. Pairs(C) = {pair[c] : c \in C}
  BY DEF Pairs
<1>2. IsFiniteSet({pair[c] : c \in C})
  <2> HIDE DEF pair
  <2> QED
    BY FiniteImage
<1>3. \A N : Downstream(C, N) = ReachedBy(Pairs(C), N)
  BY DEF Downstream, Pairs
<1>4. ASSUME NEW p \in Pairs(C) PROVE \E c \in C : c.from = p[1] /\ c.to = p[2]
  <2>1. PICK c \in C : p = <<c.from, c.to>>
    BY DEF Pairs
  <2>2. p[1] = c.from /\ p[2] = c.to
    BY <2>1
  <2> QED
    BY <2>2
<1>5. \A c \in C : <<c.from, c.to>> \in Pairs(C)
  BY DEF Pairs
<1> QED
  BY <1>1, <1>2, <1>3, <1>4, <1>5

LEMMA UpstreamIsDownstream ==
  ASSUME NEW C, IsFiniteSet(C), NEW x, NEW y
  PROVE  x \in Upstream(C, {y}) <=> y \in Downstream(C, {x})
<1> DEFINE P == Pairs(C)
           pair == [c \in C |-> <<c.to, c.from>>]
           Q == {<<c.to, c.from>> : c \in C}
<1>1. /\ IsFiniteSet(P) /\ Downstream(C, {x}) = ReachedBy(P, {x})
      /\ \A p \in P : \E c \in C : c.from = p[1] /\ c.to = p[2]
      /\ \A c \in C : <<c.from, c.to>> \in P
  BY PairsAre
<1>2. IsFiniteSet(Q)
  <2>1. Q = {pair[c] : c \in C}
    OBVIOUS
  <2> HIDE DEF pair, Q
  <2> QED
    BY <2>1, FiniteImage
<1>3. Upstream(C, {y}) = ReachedBy(Q, {y})
  BY DEF Upstream
<1>4. \A p \in P : <<p[2], p[1]>> \in Q
  <2> HIDE DEF P
  <2>1. ASSUME NEW p \in P PROVE <<p[2], p[1]>> \in Q
    <3>1. PICK c \in C : c.from = p[1] /\ c.to = p[2]
      BY <1>1
    <3> QED
      BY <3>1
  <2> QED
    BY <2>1
<1>5. \A p \in Q : <<p[2], p[1]>> \in P
  <2> HIDE DEF P
  <2>1. ASSUME NEW p \in Q PROVE <<p[2], p[1]>> \in P
    <3>1. PICK c \in C : p = <<c.to, c.from>>
      OBVIOUS
    <3>2. p[1] = c.to /\ p[2] = c.from
      BY <3>1
    <3> QED
      BY <1>1, <3>2
  <2> QED
    BY <2>1
<1> HIDE DEF P, Q
<1>6. y \in ReachedBy(P, {x}) => x \in ReachedBy(Q, {y})
  BY <1>1, <1>2, <1>4, Reversed
<1>7. x \in ReachedBy(Q, {y}) => y \in ReachedBy(P, {x})
  BY <1>1, <1>2, <1>5, Reversed
<1> QED
  BY <1>1, <1>3, <1>6, <1>7

LEMMA SearchAtRoot ==
  ASSUME NEW g, NEW goal, NEW root, NEW deeper,
         NEW b \in Seq(Conns), NEW h \in Subgraphs, NEW n \in Nat
  PROVE  n = root => Search(g, goal, root, deeper)[b][h][n] = AddBranch(h, b, n, root)
<1> DEFINE e == [h EXCEPT !.failed = TRUE]
           fd == Fold(Above(b, deeper), h, ParentsOf(g, n))
           a == AddBranch(h, b, n, root)
           r == Search(g, goal, root, deeper)[b][h][n]
<1>1. r = IF n # root /\ n \notin Nodes(g) THEN e
          ELSE IF n # root /\ ~Visited(b, n) THEN fd
          ELSE IF n # root /\ n = goal THEN h
          ELSE a
  BY SearchStep
<1> HIDE DEF e, fd, a, r
<1>2. n = root => r = a
  BY <1>1
<1> QED
  BY <1>2 DEF a, r

\* The subgraph of a node that is its own trigger is the node.
LEMMA FlowOfRoot ==
  ASSUME NEW g \in DirectedGraphs, NEW root \in Nat
  PROVE  FlowConns(g, root, root) = {} /\ FlowNodes(g, root, root) = {root}
<1>1. PICK v : /\ Searching(v, g, root, root)
               /\ FlowGraph(g, root, root) = v[Depth(g)][<<>>][NoGraph][root]
  BY FlowSearch
<1> DEFINE k == Depth(g) - 1
           r == AddBranch(NoGraph, <<>>, root, root)
<1>2. k \in Nat /\ k + 1 = Depth(g)
  <2> DEFINE s == g.conns
  <2>1. s \in Seq(Conns)
    BY GraphIs
  <2> HIDE DEF s
  <2>2. Len(s) \in Nat
    BY <2>1
  <2>3. Depth(g) = Len(s) + 2
    BY DEF Depth, s
  <2> QED
    BY <2>2, <2>3
<1>3. <<>> \in Seq(Conns) /\ NoGraph \in Subgraphs /\ ToSet(<<>>) = {}
      /\ NoGraph.nodes = <<>> /\ NoGraph.conns = <<>>
  BY NothingIs DEF Subgraphs, NoGraph
<1> HIDE DEF k
<1>4. v[k + 1][<<>>][NoGraph][root] = r
  <2>1. v[k + 1] = Search(g, root, root, v[k])
    BY <1>1, <1>2 DEF Searching
  <2> DEFINE b == <<>>
  <2>2. b \in Seq(Conns)
    BY <1>3
  <2> HIDE DEF b
  <2> DEFINE n == root
             w == v[k]
  <2>3. n \in Nat /\ n = root
    OBVIOUS
  <2> HIDE DEF n, w
  <2>4. n = root => Search(g, root, root, w)[b][NoGraph][n] = AddBranch(NoGraph, b, n, root)
    BY <1>3, <2>2, <2>3, SearchAtRoot
  <2> QED
    BY <2>1, <2>4 DEF b, n, w
<1>5. ToSet(r.conns) = {} /\ ToSet(r.nodes) = {root}
  <2> DEFINE b == <<>>
             h == NoGraph
             n == root
             a == AddBranch(h, b, n, root)
  <2>1. b \in Seq(Conns) /\ h \in Subgraphs /\ n \in Nat
    BY <1>3
  <2>2. r = a /\ ToSet(b) = {} /\ ToSet(h.conns) = {} /\ ToSet(h.nodes) = {} /\ n = root
    BY <1>3
  <2> HIDE DEF b, n, h, r
  <2>3. /\ ToSet(a.conns) = ToSet(h.conns) \cup ToSet(b)
        /\ ToSet(a.nodes) = ToSet(h.nodes) \cup Ends(ToSet(b)) \cup (IF n = root THEN {n} ELSE {})
    BY <2>1, AddBranchIs
  <2>4. Ends({}) = {}
    BY DEF Ends
  <2> HIDE DEF a
  <2> QED
    BY <2>2, <2>3, <2>4
<1> QED
  BY <1>1, <1>2, <1>4, <1>5 DEF FlowConns, FlowNodes
-----------------------------------------------------------------------------
\* The workflow as the user drew it, what is left of it without its disabled
\* nodes, and the part of that which leads to the goal.
Drawn(q) == [nodes |-> q.nodes, conns |-> q.conns]

Enabled(q) == FilterDisabledNodes(Drawn(q), q.disabled)

Found(q, root) == FindSubgraph(Enabled(q), q.goal, root)

Part(q, root) == [nodes |-> Found(q, root).nodes, conns |-> Found(q, root).conns]

LoopFree(q) == \A n \in q.disabled : ~After(Within(Drawn(q), q.disabled), n, n)

LEMMA EnabledIs ==
  ASSUME NEW q, Asked(q)
  PROVE  /\ Drawn(q) \in DirectedGraphs /\ Nodes(Drawn(q)) = ToSet(q.nodes)
         /\ AllMain(Drawn(q)) = MainConns(q)
         /\ Enabled(q) \in DirectedGraphs
         /\ Nodes(Enabled(q)) = ToSet(q.nodes) \ q.disabled
         /\ SubConnsOf(Enabled(q), Drawn(q))
<1> DEFINE g == Drawn(q)
<1>1. g \in DirectedGraphs /\ Nodes(g) = ToSet(q.nodes) /\ AllMain(g) = MainConns(q)
  BY DEF Asked, Drawn, DirectedGraphs, Nodes, AllMain, MainConns
<1> HIDE DEF g
<1>2. /\ FilterDisabledNodes(g, q.disabled) \in DirectedGraphs
      /\ Nodes(FilterDisabledNodes(g, q.disabled)) = Nodes(g) \ q.disabled
      /\ SubConnsOf(FilterDisabledNodes(g, q.disabled), g)
  BY <1>1, FilterIs
<1> QED
  BY <1>1, <1>2 DEF Enabled, g

\* Unless they form a loop, no connection leads to a disabled node or from one.
LEMMA EnabledEnds ==
  ASSUME NEW q, Asked(q), LoopFree(q), NEW c \in ToSet(Enabled(q).conns)
  PROVE  c.from \in Nodes(Enabled(q)) /\ c.to \in Nodes(Enabled(q))
<1> DEFINE g == Drawn(q)
           d == q.disabled
           e == Enabled(q)
<1>1. /\ g \in DirectedGraphs /\ Nodes(g) = ToSet(q.nodes) /\ AllMain(g) = MainConns(q)
      /\ Nodes(e) = ToSet(q.nodes) \ d /\ SubConnsOf(e, g)
  BY EnabledIs
<1>2. d \subseteq Nodes(g) /\ \A n \in d : ~After(Within(g, d), n, n)
  BY <1>1 DEF Asked, LoopFree
<1>3. e = FilterDisabledNodes(g, d) /\ c \in ToSet(FilterDisabledNodes(g, d).conns)
  BY DEF Enabled
<1>4. \A x \in ToSet(g.conns) : x.from \in ToSet(q.nodes) /\ x.to \in ToSet(q.nodes)
  BY DEF Asked, Drawn
<1> HIDE DEF g, d
<1>5. c.from \notin d /\ c.to \notin d
  BY <1>1, <1>2, <1>3, FilterLeavesNoEnds
<1>6. c.from \in ToSet(q.nodes) /\ c.to \in ToSet(q.nodes)
  <2>1. CASE Main(c)
    <3>1. c \in AllMain(FilterDisabledNodes(g, d))
      BY <1>3, <2>1 DEF AllMain
    <3>2. \E x, y \in AllMain(g) : c.from = x.from /\ c.to = y.to
      BY <1>1, <3>1, FilterEnds
    <3>3. AllMain(g) \subseteq ToSet(g.conns)
      BY DEF AllMain
    <3> QED
      BY <1>4, <3>2, <3>3
  <2>2. CASE ~Main(c)
    <3>1. c \in ToSet(g.conns)
      BY <1>1, <2>2 DEF SubConnsOf
    <3> QED
      BY <1>4, <3>1
  <2> QED
    BY <2>1, <2>2
<1> QED
  BY <1>1, <1>5, <1>6

LEMMA SearchesWell ==
  ASSUME NEW q, Asked(q), LoopFree(q), NEW root
  PROVE  ~FlowGraph(Enabled(q), q.goal, root).failed
<1> DEFINE g == Enabled(q)
           goal == q.goal
           N == Nodes(g)
           T == {h \in Subgraphs : ~h.failed}
           M == AllMain(g)
<1>1. g \in DirectedGraphs /\ N = ToSet(q.nodes) \ q.disabled
  BY EnabledIs
<1>2. goal \in N
  BY <1>1 DEF Asked
<1>3. N \subseteq Nat
  BY <1>1, GraphIs
<1>4. \A n \in N : \A c \in MainIn(g, n) : c.from \in N
  BY EnabledEnds DEF MainIn
<1>5. NoGraph \in T
  BY NothingIs DEF Subgraphs, NoGraph
<1>6. KeepsAdding(T, N, g, root)
  <2> SUFFICES ASSUME NEW h \in T, NEW n \in N
               PROVE  \A b \in Seq(AllMain(g)) : AddBranch(h, b, n, root) \in T
    <3> HIDE DEF T, g
    <3> QED
      BY DEF KeepsAdding
  <2>0. M \subseteq Conns
    BY <1>1, GraphIs DEF AllMain
  <2> SUFFICES ASSUME NEW b \in Seq(M) PROVE AddBranch(h, b, n, root) \in T
    OBVIOUS
  <2> DEFINE r == AddBranch(h, b, n, root)
  <2>1. n \in Nat /\ h \in Subgraphs
    BY <1>3
  <2>2. b \in Seq(Conns)
    <3> HIDE DEF M
    <3> QED
      BY <2>0
  <2> HIDE DEF g, N, T
  <2>3. r \in Subgraphs /\ r.failed = h.failed
    BY <2>1, <2>2, AddBranchIs
  <2> QED
    BY <2>3 DEF T
<1>7. T \subseteq Subgraphs
  OBVIOUS
<1> HIDE DEF g, goal, N, T
<1>8. FlowGraph(g, goal, root) \in T
  BY <1>1, <1>2, <1>3, <1>4, <1>5, <1>6, <1>7, FlowKeeps
<1> QED
  BY <1>8 DEF T, g, goal

LEMMA FindsWell ==
  ASSUME NEW q, Asked(q), LoopFree(q), NEW root
  PROVE  ~Found(q, root).failed
<1> DEFINE g == Enabled(q)
           goal == q.goal
<1>1. g \in DirectedGraphs /\ goal \in Nat
  BY EnabledIs, GraphIs DEF Asked
<1>2. ~FlowGraph(g, goal, root).failed
  BY SearchesWell
<1>3. \A c \in ToSet(g.conns) : c.from \in Nodes(g)
  BY EnabledEnds
<1> HIDE DEF g, goal
<1> DEFINE flow == FlowGraph(g, goal, root)
           N == ToSet(flow.nodes)
           A == ConnsAbove(g, N)
<1>4. FindSubgraph(g, goal, root).failed <=> flow.failed \/ \E c \in A : c.from \notin Nodes(g)
  BY <1>1, SubgraphIs
<1>5. A \subseteq ToSet(g.conns)
  <2> HIDE DEF N
  <2> QED
    BY <1>1, ConnsAboveIs
<1> HIDE DEF flow, A
<1>6. ~FindSubgraph(g, goal, root).failed
  BY <1>2, <1>3, <1>4, <1>5 DEF flow
<1> QED
  BY <1>6 DEF Found, g, goal
\* The part has the nodes its connections lead to and from.
LEMMA PartIs ==
  ASSUME NEW q, Asked(q), NEW root
  PROVE  /\ Part(q, root) \in DirectedGraphs
         /\ AllMain(Part(q, root)) = FlowConns(Enabled(q), q.goal, root)
         /\ ToSet(Part(q, root).conns) \subseteq ToSet(Enabled(q).conns)
         /\ FlowNodes(Enabled(q), q.goal, root) \subseteq Nodes(Part(q, root))
         /\ \A n \in Nodes(Part(q, root)) :
              \/ n \in FlowNodes(Enabled(q), q.goal, root)
              \/ \E c \in ToSet(Part(q, root).conns) : ~Main(c) /\ n \in {c.from, c.to}
         /\ \A c \in ToSet(Part(q, root).conns) :
              c.from \in Nodes(Part(q, root)) /\ c.to \in Nodes(Part(q, root))
<1> DEFINE g == Enabled(q)
           goal == q.goal
           found == FindSubgraph(g, goal, root)
           flow == FlowGraph(g, goal, root)
           C == ToSet(flow.conns)
           N == ToSet(flow.nodes)
           subs == {c \in ConnsAbove(g, N) : ~Main(c)}
           part == [nodes |-> found.nodes, conns |-> found.conns]
<1>1. g \in DirectedGraphs /\ goal \in Nat
  BY EnabledIs, GraphIs DEF Asked
<1>2. part = Part(q, root) /\ part.nodes = found.nodes /\ part.conns = found.conns
  BY DEF Part, Found
<1>3. FlowConns(g, goal, root) = C /\ FlowNodes(g, goal, root) = N
  BY DEF FlowConns, FlowNodes
<1> HIDE DEF g, goal
<1>4. /\ part \in DirectedGraphs
      /\ ToSet(found.conns) = C \cup subs /\ ToSet(found.nodes) = N \cup Ends(subs)
  BY <1>1, SubgraphIs
<1>5. C \subseteq AllMain(g) /\ Ends(C) \subseteq N
  BY <1>1, FlowIs
<1>6. subs \subseteq ToSet(g.conns)
  <2> HIDE DEF N
  <2> QED
    BY <1>1, ConnsAboveIs
<1>7. \A c \in subs : ~Main(c)
  OBVIOUS
<1> HIDE DEF flow, C, N, subs, found, part
<1>8. ToSet(part.conns) = C \cup subs /\ Nodes(part) = N \cup Ends(subs)
  BY <1>2, <1>4 DEF Nodes
<1>9. AllMain(part) = C
  BY <1>5, <1>7, <1>8 DEF AllMain
<1>10. \A c \in ToSet(part.conns) : c.from \in Nodes(part) /\ c.to \in Nodes(part)
  BY <1>5, <1>8 DEF Ends
<1>11. \A n \in Nodes(part) : n \in N \/ \E c \in ToSet(part.conns) : ~Main(c) /\ n \in {c.from, c.to}
  BY <1>7, <1>8 DEF Ends
<1>12. ToSet(part.conns) \subseteq ToSet(g.conns)
  BY <1>5, <1>6, <1>8 DEF AllMain
<1>13. N \subseteq Nodes(part)
  BY <1>8
<1> QED
  BY <1>2, <1>3, <1>4, <1>9, <1>10, <1>11, <1>12, <1>13 DEF g, goal

LEMMA CutIsAll ==
  ASSUME NEW g
  PROVE  Cut(g, {}, {}) = AllMain(g)
BY DEF Cut, AllMain

\* The goal is downstream of a node the search begins at, unless that is disabled.
LEMMA RootLeads ==
  ASSUME NEW q, Asked(q), NEW root \in StartingPoints(q), root \notin q.disabled
  PROVE  q.goal \in Downstream(AllMain(Enabled(q)), {root})
<1> DEFINE g == Drawn(q)
           d == q.disabled
           goal == q.goal
           C == MainConns(q)
<1>1. g \in DirectedGraphs /\ AllMain(g) = C
  BY EnabledIs
<1>2. IsFiniteSet(C)
  <2>1. C \subseteq ToSet(g.conns) /\ IsFiniteSet(ToSet(g.conns))
    BY <1>1, GraphIs DEF AllMain
  <2> HIDE DEF C
  <2> QED
    BY <2>1, FS_Subset
<1>3. root \in Upstream(C, {goal})
  BY StartingPointsAre
<1>4. goal \notin d
  BY DEF Asked
<1> HIDE DEF g, d, goal, C
<1>5. goal \in Downstream(C, {root})
  BY <1>2, <1>3, UpstreamIsDownstream
<1> DEFINE A == {}
<1>6. \A h : Cut(h, A, A) = AllMain(h)
  BY CutIsAll
<1> HIDE DEF A
<1>7. goal \in Downstream(Cut(g, A, A), {root})
  BY <1>1, <1>5, <1>6
<1>8. root \notin d
  BY DEF d
<1>9. goal \in Downstream(Cut(FilterDisabledNodes(g, d), A, A), {root})
  BY <1>1, <1>4, <1>7, <1>8, FilterKeepsWays
<1> QED
  BY <1>6, <1>9 DEF Enabled, g, d, goal

LEMMA RootFound ==
  ASSUME NEW q, Asked(q), LoopFree(q), NEW root \in StartingPoints(q), root \notin q.disabled
  PROVE  root \in FlowNodes(Enabled(q), q.goal, root)
<1> DEFINE g == Enabled(q)
           goal == q.goal
           M == AllMain(g)
           N == FlowNodes(g, goal, root)
<1>1. g \in DirectedGraphs
  BY EnabledIs
<1>2. goal \in Nat /\ root \in Nat
  BY StartingPointsAre DEF Asked
<1>3. ~FlowGraph(g, goal, root).failed
  BY SearchesWell
<1>4. goal \in Downstream(M, {root})
  BY RootLeads
<1>5. IsFiniteSet(M) /\ M \subseteq ToSet(g.conns)
  <2>1. M \subseteq ToSet(g.conns) /\ IsFiniteSet(ToSet(g.conns))
    BY <1>1, GraphIs DEF AllMain
  <2> HIDE DEF M
  <2> QED
    BY <2>1, FS_Subset
<1> HIDE DEF g, goal, M, N
<1>6. CASE root = goal
  <2>1. FlowNodes(g, root, root) = {root}
    BY <1>1, <1>2, FlowOfRoot
  <2> QED
    BY <1>6, <2>1 DEF N, g, goal
<1>7. CASE root # goal
  <2> DEFINE R == Pairs(M)
             S == Outside(R, {root})
  <2>1. /\ IsFiniteSet(R) /\ Downstream(M, {root}) = ReachedBy(R, {root})
        /\ \A p \in R : \E c \in M : c.from = p[1] /\ c.to = p[2]
    BY <1>5, PairsAre
  <2> HIDE DEF R
  <2>2. PICK p \in R : p[1] = root /\ p[2] # root /\ goal \in ReachedBy(S, {p[2]})
    <3>1. goal \in ReachedBy(R, {root}) /\ goal # root
      BY <1>4, <1>7, <2>1
    <3> QED
      BY <2>1, <3>1, FirstStep
  <2>3. PICK c \in M : c.from = root /\ c.to = p[2]
    BY <2>1, <2>2
  <2> DEFINE Q == Up(g, root)
             x == c.to
  <2>4. IsFiniteSet(Q) /\ \A d \in M : d.to # root => <<d.to, d.from>> \in Q
    BY <1>1, UpIs DEF M
  <2>5. IsFiniteSet(S)
    BY <2>1, OutsideIs
  <2> HIDE DEF Q
  <2>6. \A e \in S : <<e[2], e[1]>> \in Q
    <3>1. \A e \in S : e \in R /\ e[2] # root
      BY DEF Outside
    <3> HIDE DEF S
    <3>2. ASSUME NEW e \in S PROVE <<e[2], e[1]>> \in Q
      <4>1. PICK d \in M : d.from = e[1] /\ d.to = e[2]
        BY <2>1, <3>1
      <4> QED
        BY <2>4, <3>1, <4>1
    <3> QED
      BY <3>2
  <2>7. goal \in ReachedBy(S, {x}) /\ x # root
    BY <2>2, <2>3
  <2> HIDE DEF S, x
  <2>8. x \in ReachedBy(Q, {goal})
    BY <2>4, <2>5, <2>6, <2>7, Reversed
  <2> DEFINE G == {root}
  <2>9. Grounds(G, g, goal, root) /\ c.from \in G
    BY <1>2, <1>7, <2>3 DEF Grounds
  <2> HIDE DEF G
  <2>10. c \in AllMain(g) /\ c.to # root /\ c.to \in ReachedBy(Up(g, root), {goal}) /\ goal # root
    BY <1>7, <2>7, <2>8 DEF x, Q, M
  <2>11. c \in FlowConns(g, goal, root)
    BY <1>1, <1>2, <1>3, <2>9, <2>10, FlowCovers
  <2>12. Ends(FlowConns(g, goal, root)) \subseteq N
    BY <1>1, <1>2, FlowIs DEF FlowConns, FlowNodes, N
  <2>13. root \in N
    BY <2>3, <2>11, <2>12 DEF Ends
  <2> QED
    BY <2>13 DEF N, g, goal
<1> QED
  BY <1>6, <1>7
\* The start nodes are the node the search began at, or come after it.
LEMMA StartsReached ==
  ASSUME NEW g \in DirectedGraphs, NEW q, NEW root \in Nat, NEW data
  PROVE  ToSet(FindStartNodes(g, q, root, data)) \subseteq Reach(g, root)
<1> DEFINE N == Reach(g, root)
           T == {s \in Seq(Nat) : ToSet(s) \subseteq N}
<1>1. PICK v : /\ Starting(v, g, q, data)
               /\ FindStartNodes(g, q, root, data) = v[Depth(g)][{}][<<>>][root]
  BY FindSearch
<1>2. root \in N /\ \A c \in ToSet(g.conns) : c.from \in N => c.to \in N
  BY ReachIs
<1>3. N \subseteq Nat
  <2>1. \A c \in ToSet(g.conns) : c.to \in Nat
    BY GraphIs DEF Conns
  <2> DEFINE S == Nat
  <2>2. root \in S /\ \A c \in ToSet(g.conns) : c.from \in S => c.to \in S
    BY <2>1
  <2> HIDE DEF S
  <2>3. N \subseteq S
    BY <2>2, ReachIs
  <2> QED
    BY <2>3 DEF S
<1> HIDE DEF N
<1>4. ClosedFor(N, g, q, data)
  BY <1>2, <1>3 DEF ClosedFor, FlowsFrom
<1>5. KeepsFinding(T, N, g, q, data)
  <2>1. ASSUME NEW found \in T, NEW n \in N PROVE Add(found, n) \in T
    <3>1. found \in Seq(Nat) /\ n \in Nat /\ ToSet(found) \subseteq N
      BY <1>3
    <3>2. Add(found, n) \in Seq(Nat) /\ ToSet(Add(found, n)) = ToSet(found) \cup {n}
      BY <3>1, NatAddIs
    <3> QED
      BY <3>1, <3>2
  <2>2. T \subseteq Seq(Nat)
    OBVIOUS
  <2> HIDE DEF T
  <2> QED
    BY <2>1, <2>2 DEF KeepsFinding
<1> DEFINE b == <<>>
           s == {}
<1>6. b \in T /\ s \in SUBSET Nat
  BY NothingIs
<1>7. Depth(g) \in Nat
  BY DepthIs
<1> HIDE DEF T, b, s
<1>8. v[Depth(g)][s][b][root] \in T
  BY <1>1, <1>2, <1>4, <1>5, <1>6, <1>7, StartsKeep
<1>9. FindStartNodes(g, q, root, data) \in T
  BY <1>1, <1>8 DEF b, s
<1> QED
  BY <1>9 DEF T, N

\* A cycle with a start node on it has a first node on the way from the root.
LEMMA CyclesAreOnWay ==
  ASSUME NEW g \in DirectedGraphs, NEW root \in Nat, NEW starts \in Seq(Nat),
         ToSet(starts) \subseteq Reach(g, root)
  PROVE  /\ CyclesOf(g, starts) \in Seq(SUBSET Nat)
         /\ \A C \in ToSet(CyclesOf(g, starts)) : Component(C, g, root, Reach(g, root))
<1> DEFINE cycles == CyclesOf(g, starts)
           N == Reach(g, root)
<1>1. /\ cycles \in Seq(SUBSET Nat)
      /\ \A C \in ToSet(cycles) : C \in SUBSET Nat /\ C \cap ToSet(starts) # {}
                                  /\ \A x, y \in C : y \in Reach(g, x)
  BY CyclesAre
<1>2. \A m \in N : Reach(g, m) \subseteq N
  BY ReachIs
<1>3. DepthFirst(g, root) \in Seq(Nat) /\ N \subseteq ToSet(DepthFirst(g, root))
  BY DepthFirstIs
<1> HIDE DEF cycles
<1>4. ASSUME NEW C \in ToSet(cycles) PROVE Component(C, g, root, N)
  <2>1. PICK m \in C : m \in ToSet(starts)
    BY <1>1
  <2>2. C \subseteq N
    BY <1>1, <1>2, <2>1
  <2> DEFINE df == DepthFirst(g, root)
             fs == Only(df, C)
  <2>3. df \in Seq(Nat) /\ m \in ToSet(df)
    BY <1>3, <2>1
  <2> HIDE DEF df
  <2>4. fs \in Seq(Nat) /\ ToSet(fs) = ToSet(df) \cap C
    BY <2>3, OnlyIs
  <2>5. FirstNodes(g, C, root) = fs
    BY DEF FirstNodes, df
  <2> HIDE DEF fs
  <2>6. fs # <<>>
    BY <2>1, <2>3, <2>4, NothingIs
  <2> QED
    BY <1>1, <2>2, <2>5, <2>6 DEF Component
<1> QED
  BY <1>1, <1>4 DEF cycles

\* The graph is the workflow and then the part of it that leads to the goal.
GraphIsPart ==
  /\ step \in {"trigger", "subgraph", "refused"} => graph = Drawn(request)
  /\ step \in {"start", "cycles", "clean", "stack", "run"} => graph = Part(request, trigger)

\* The start nodes can be reached from the node the search began at.
StartsOnWay ==
  step \in {"cycles", "clean", "stack", "run"} => ToSet(startNodes) \subseteq Reach(graph, trigger)

LEMMA GraphIsPartHolds == PartialSpec => []GraphIsPart
<1>1. Init => GraphIsPart
  BY DEF Init, GraphIsPart, Drawn
<1>2. GraphIsPart /\ [Next]_vars => GraphIsPart'
  <2> SUFFICES ASSUME GraphIsPart, [Next]_vars PROVE GraphIsPart'
    OBVIOUS
  <2>1. CASE FindTrigger
    <3>1. graph = Drawn(request) /\ UNCHANGED <<request, graph>> /\ step' \in {"refused", "subgraph"}
      BY <2>1 DEF FindTrigger, GraphIsPart
    <3> QED
      BY <3>1 DEF GraphIsPart, Drawn
  <2>2. CASE Subgraph
    <3>1. /\ UNCHANGED <<request, trigger>> /\ step' \in {"failed", "start"} /\ graph = Drawn(request)
          /\ graph' = LET found == FindSubgraph(FilterDisabledNodes(graph, request.disabled), request.goal, trigger)
                      IN  [nodes |-> found.nodes, conns |-> found.conns]
      BY <2>2 DEF Subgraph, GoOn, GraphIsPart
    <3>2. graph' = Part(request, trigger)
      BY <3>1 DEF Part, Found, Enabled
    <3>3. step' \notin {"trigger", "subgraph", "refused"}
      BY <3>1
    <3>4. Part(request, trigger)' = Part(request, trigger)
      BY <3>1 DEF Part, Found, Enabled, Drawn
    <3> QED
      BY <3>2, <3>3, <3>4 DEF GraphIsPart
  <2>3. ASSUME UNCHANGED <<request, trigger, graph>>,
               step \in {"start", "cycles", "clean", "stack"},
               step' \in {"start", "cycles", "clean", "stack", "run", "failed"}
        PROVE  GraphIsPart'
    <3>1. Part(request, trigger)' = Part(request, trigger)
      BY <2>3 DEF Part, Found, Enabled, Drawn
    <3>2. graph' = Part(request, trigger) /\ step' \notin {"trigger", "subgraph", "refused"}
      BY <2>3 DEF GraphIsPart
    <3> QED
      BY <3>1, <3>2 DEF GraphIsPart
  <2>4. CASE UNCHANGED vars
    BY <2>4 DEF vars, GraphIsPart, Part, Found, Enabled, Drawn
  <2>5. CASE StartNodes
    BY <2>3, <2>5 DEF StartNodes, GoOn
  <2>6. CASE Cycles
    BY <2>3, <2>6 DEF Cycles, GoOn
  <2>7. CASE Clean
    BY <2>3, <2>7 DEF Clean, GoOn
  <2>8. CASE RecreateStack
    BY <2>3, <2>8 DEF RecreateStack
  <2> QED
    BY <2>1, <2>2, <2>4, <2>5, <2>6, <2>7, <2>8 DEF Next
<1> QED
  BY <1>1, <1>2, PTL DEF PartialSpec
LEMMA CyclesGoOn ==
  ASSUME TypeOK, StartsOnWay, Cycles
  PROVE  /\ UNCHANGED <<request, trigger, graph>> /\ step' = "clean"
         /\ ToSet(startNodes') \subseteq Reach(graph, trigger)
<1> DEFINE cycles == CyclesOf(graph, startNodes)
           fails  == \E C \in ToSet(cycles) : FirstNodes(graph, C, trigger) = <<>>
           N == Reach(graph, trigger)
<1>1. /\ UNCHANGED <<request, trigger, graph>> /\ step = "cycles"
      /\ step' = IF fails THEN "failed" ELSE "clean"
      /\ startNodes' = IF fails THEN startNodes ELSE HandleCycles(graph, cycles, startNodes, trigger)
  BY DEF Cycles, GoOn
<1>2. trigger \in Nat
  BY <1>1, StartingPointsAre DEF TypeOK
<1>3. ToSet(startNodes) \subseteq N
  BY <1>1 DEF StartsOnWay
<1>4. /\ cycles \in Seq(SUBSET Nat)
      /\ \A C \in ToSet(cycles) : Component(C, graph, trigger, N)
  BY <1>2, <1>3, CyclesAreOnWay DEF TypeOK
<1> HIDE DEF cycles, N
<1>5. ~fails
  BY <1>4 DEF Component
<1> HIDE DEF fails
<1>6. StandIn(HandleCycles(graph, cycles, startNodes, trigger), graph, startNodes, N)
  BY <1>2, <1>3, <1>4, HandleCyclesIs DEF TypeOK
<1> QED
  BY <1>1, <1>5, <1>6 DEF StandIn, N

LEMMA StartsOnWayHolds == PartialSpec => []StartsOnWay
<1>1. Init => StartsOnWay
  BY DEF Init, StartsOnWay
<1>2. TypeOK /\ StartsOnWay /\ [Next]_vars => StartsOnWay'
  <2> SUFFICES ASSUME TypeOK, StartsOnWay, [Next]_vars PROVE StartsOnWay'
    OBVIOUS
  <2>1. CASE StartNodes
    <3>1. /\ UNCHANGED <<trigger, graph>> /\ step = "start"
          /\ startNodes' = FindStartNodes(graph, request, trigger, runData')
      BY <2>1 DEF StartNodes
    <3>2. trigger \in Nat
      BY <3>1, StartingPointsAre DEF TypeOK
    <3>3. ToSet(startNodes') \subseteq Reach(graph, trigger)
      BY <3>1, <3>2, StartsReached DEF TypeOK
    <3> QED
      BY <3>1, <3>3 DEF StartsOnWay
  <2>2. CASE Cycles
    BY <2>2, CyclesGoOn DEF StartsOnWay
  <2>3. CASE FindTrigger \/ Subgraph \/ Clean \/ RecreateStack
    BY <2>3 DEF FindTrigger, Subgraph, Clean, RecreateStack, GoOn, StartsOnWay
  <2>4. CASE UNCHANGED vars
    BY <2>4 DEF StartsOnWay, vars
  <2> QED
    BY <2>1, <2>2, <2>3, <2>4 DEF Next
<1> QED
  BY <1>1, <1>2, PartialIsTyped, PTL DEF PartialSpec

LEMMA LoopFreeIs == LoopFree(request) \/ DisabledLoop
<1> DEFINE C == {c \in ToSet(request.conns) : Main(c) /\ {c.from, c.to} \subseteq request.disabled}
           W == Within(Drawn(request), request.disabled)
<1>1. C = W
  BY DEF Within, Drawn, AllMain
<1>2. DisabledLoop <=> \E n \in request.disabled : \E c \in C : c.from = n /\ n \in Downstream(C, {c.to})
  BY DEF DisabledLoop
<1>3. LoopFree(request) <=> \A n \in request.disabled : ~\E c \in W : c.from = n /\ n \in Downstream(W, {c.to})
  BY DEF LoopFree, After
<1> HIDE DEF C, W
<1> QED
  BY <1>1, <1>2, <1>3

\* What the assertions depend on, whether or not they hold.
Sane == LoopFree(request) /\ trigger \notin request.disabled

LEMMA TriggerFound ==
  ASSUME TypeOK, GraphIsPart, Sane, step \in {"start", "cycles", "clean", "stack", "run"}
  PROVE  /\ trigger \in Nodes(graph)
         /\ Reach(graph, trigger) \subseteq Nodes(graph)
<1>1. /\ Asked(request) /\ LoopFree(request) /\ trigger \in StartingPoints(request)
      /\ trigger \notin request.disabled /\ graph = Part(request, trigger)
  BY DEF TypeOK, GraphIsPart, Sane
<1>2. trigger \in FlowNodes(Enabled(request), request.goal, trigger)
  BY <1>1, RootFound
<1>3. /\ trigger \in Nodes(graph)
      /\ \A c \in ToSet(graph.conns) : c.from \in Nodes(graph) /\ c.to \in Nodes(graph)
  BY <1>1, <1>2, PartIs
<1> DEFINE S == Nodes(graph)
<1> HIDE DEF S
<1>4. trigger \in S /\ \A c \in ToSet(graph.conns) : c.from \in S => c.to \in S
  BY <1>3 DEF S
<1>5. Reach(graph, trigger) \subseteq S
  BY <1>4, ReachIs DEF TypeOK
<1> QED
  BY <1>3, <1>5 DEF S

LEMMA AssertionsKept ==
  ASSUME TypeOK, GraphIsPart, StartsOnWay, AssertionsHold, [Next]_vars
  PROVE  AssertionsHold'
<1>1. step = "failed" \/ step' # "failed" => AssertionsHold'
  <2>1. CASE step' # "failed"
    BY <2>1 DEF AssertionsHold
  <2>2. CASE step = "failed"
    <3>1. UNCHANGED vars
      BY <2>2 DEF Next, FindTrigger, Subgraph, StartNodes, Cycles, Clean, RecreateStack
    <3> QED
      BY <3>1 DEF vars, AssertionsHold, DisabledLoop
  <2> QED
    BY <2>1, <2>2
<1>2. ASSUME UNCHANGED <<request, trigger>>, ~Sane PROVE AssertionsHold'
  <2>1. DisabledLoop \/ trigger \in request.disabled
    BY <1>2, LoopFreeIs DEF Sane
  <2>2. DisabledLoop' <=> DisabledLoop
    BY <1>2 DEF DisabledLoop
  <2> QED
    BY <1>2, <2>1, <2>2 DEF AssertionsHold
<1>3. CASE Subgraph
  <2>1. /\ UNCHANGED <<request, trigger>> /\ graph = Drawn(request)
        /\ step' = "failed" => FindSubgraph(FilterDisabledNodes(graph, request.disabled), request.goal, trigger).failed
    BY <1>3 DEF Subgraph, GoOn, GraphIsPart
  <2>2. step' = "failed" => Found(request, trigger).failed
    BY <2>1 DEF Found, Enabled
  <2>3. step' = "failed" => ~LoopFree(request)
    BY <2>2, FindsWell DEF TypeOK
  <2> QED
    BY <1>1, <1>2, <2>1, <2>3 DEF Sane
<1>4. CASE StartNodes
  <2>1. /\ UNCHANGED <<request, trigger>> /\ step = "start"
        /\ step' = "failed" => trigger \notin Nodes(graph)
    BY <1>4 DEF StartNodes, GoOn
  <2>2. step' = "failed" => ~Sane
    BY <2>1, TriggerFound
  <2> QED
    BY <1>1, <1>2, <2>1, <2>2
<1>5. CASE Clean
  <2>1. /\ UNCHANGED <<request, trigger>> /\ step = "clean"
        /\ step' = "failed" => ~(ToSet(startNodes) \subseteq Nodes(graph))
    BY <1>5 DEF Clean, GoOn
  <2>2. ToSet(startNodes) \subseteq Reach(graph, trigger)
    BY <2>1 DEF StartsOnWay
  <2>3. step' = "failed" => ~Sane
    BY <2>1, <2>2, TriggerFound
  <2> QED
    BY <1>1, <1>2, <2>1, <2>3
<1>6. CASE Cycles
  <2>1. step' # "failed"
    BY <1>6, CyclesGoOn
  <2> QED
    BY <1>1, <2>1
<1>7. CASE FindTrigger \/ RecreateStack
  <2>1. step' # "failed"
    BY <1>7 DEF FindTrigger, RecreateStack
  <2> QED
    BY <1>1, <2>1
<1>8. CASE UNCHANGED vars
  <2>1. step = "failed" \/ step' # "failed"
    BY <1>8 DEF vars
  <2> QED
    BY <1>1, <2>1
<1> QED
  BY <1>3, <1>4, <1>5, <1>6, <1>7, <1>8 DEF Next

\* No assertion of runPartialWorkflow2 fails, unless disabled nodes form a loop
\* or the parent that stands in for a trigger is disabled: no search comes to a
\* node that is not in the graph (findSubgraph, findStartNodes, cleanRunData),
\* and the trigger is connected to every cycle of a start node (handleCycles).
THEOREM PartialAssertionsHold == PartialSpec => []AssertionsHold
<1>1. Init => AssertionsHold
  BY DEF Init, AssertionsHold
<1>2. TypeOK /\ GraphIsPart /\ StartsOnWay /\ AssertionsHold /\ [Next]_vars => AssertionsHold'
  BY AssertionsKept
<1> QED
  BY <1>1, <1>2, PartialIsTyped, GraphIsPartHolds, StartsOnWayHolds, PTL DEF PartialSpec
-----------------------------------------------------------------------------
(***************************************************************************)
(* No stale data survives                                                  *)
(***************************************************************************)
\* The nodes that connections of the part lead from.
Feeders(q, root) == {c.from : c \in FlowConns(Enabled(q), q.goal, root)}

LEMMA FeedersAre ==
  ASSUME NEW q, Asked(q), NEW root, ~Found(q, root).failed
  PROVE  /\ ~FlowGraph(Enabled(q), q.goal, root).failed
         /\ FlowConns(Enabled(q), q.goal, root) \subseteq AllMain(Enabled(q))
         /\ Feeders(q, root) \subseteq Nodes(Enabled(q))
         /\ Feeders(q, root) \subseteq Nodes(Part(q, root))
<1> DEFINE g == Enabled(q)
           goal == q.goal
           flow == FlowGraph(g, goal, root)
           C == ToSet(flow.conns)
           N == ToSet(flow.nodes)
           A == ConnsAbove(g, N)
<1>1. g \in DirectedGraphs /\ goal \in Nat
  BY EnabledIs, GraphIs DEF Asked
<1>2. FlowConns(g, goal, root) = C /\ FlowNodes(g, goal, root) = N
  BY DEF FlowConns, FlowNodes
<1>3. N \subseteq Nodes(Part(q, root))
  BY <1>2, PartIs
<1>4. ~FindSubgraph(g, goal, root).failed
  BY DEF Found
<1> HIDE DEF g, goal
<1>5. FindSubgraph(g, goal, root).failed <=> flow.failed \/ \E c \in A : c.from \notin Nodes(g)
  BY <1>1, SubgraphIs
<1>6. C \subseteq AllMain(g) /\ Ends(C) \subseteq N
  BY <1>1, FlowIs
<1>7. \A c \in ToSet(g.conns) : c.to \in N => c \in A
  <2> HIDE DEF N
  <2> QED
    BY <1>1, ConnsAboveIs
<1> HIDE DEF flow, C, N, A
<1>8. \A c \in C : c.from \in N /\ c \in A
  BY <1>6, <1>7 DEF Ends, AllMain
<1>9. \A c \in C : c.from \in Nodes(g) /\ c.from \in Nodes(Part(q, root))
  BY <1>3, <1>4, <1>5, <1>8
<1>10. Feeders(q, root) = {c.from : c \in C}
  BY <1>2 DEF Feeders, g, goal
<1>11. ~flow.failed
  BY <1>4, <1>5
<1> QED
  BY <1>2, <1>6, <1>9, <1>10, <1>11 DEF g, goal, flow

\* What leads to the goal, over connections of type main.
LEMMA FeedingIs ==
  ASSUME NEW q, Asked(q), NEW root
  PROVE  Upstream(AllMain(Part(q, root)), {q.goal}) \subseteq Feeders(q, root) \cup {q.goal}
<1> DEFINE C == FlowConns(Enabled(q), q.goal, root)
           S == Feeders(q, root) \cup {q.goal}
           N == {q.goal}
<1>1. AllMain(Part(q, root)) = C /\ Part(q, root) \in DirectedGraphs
  BY PartIs
<1>2. IsFiniteSet(C)
  <2>1. AllMain(Part(q, root)) \subseteq ToSet(Part(q, root).conns) /\ IsFiniteSet(ToSet(Part(q, root).conns))
    BY <1>1, GraphIs DEF AllMain
  <2> QED
    BY <1>1, <2>1, FS_Subset
<1>3. N \subseteq S /\ \A c \in C : c.to \in S => c.from \in S
  BY DEF Feeders
<1> HIDE DEF C, S, N
<1>4. Upstream(C, N) \subseteq S
  BY <1>2, <1>3, UpstreamIs
<1> QED
  BY <1>1, <1>4 DEF S, N

\* The goal and what the search begins at, if they differ, have connections of
\* type main in the workflow.
LEMMA GoalAndRoot ==
  ASSUME NEW q, Asked(q), NEW root \in StartingPoints(q), root # q.goal
  PROVE  (\E d \in MainConns(q) : d.from = root) /\ (\E d \in MainConns(q) : d.to = q.goal)
<1> DEFINE C == MainConns(q)
           goal == q.goal
           N == {goal}
           U == Upstream(C, N)
<1>1. IsFiniteSet(C)
  <2>1. AllMain(Drawn(q)) \subseteq ToSet(Drawn(q).conns) /\ IsFiniteSet(ToSet(Drawn(q).conns))
        /\ AllMain(Drawn(q)) = C
    BY EnabledIs, GraphIs DEF AllMain
  <2> QED
    BY <2>1, FS_Subset
<1>2. root \in U /\ root # goal
  BY StartingPointsAre
<1> HIDE DEF C, goal, N, U
<1>3. ASSUME NEW S, N \subseteq S, \A c \in C : c.to \in S => c.from \in S
      PROVE  root \in S
  <2>1. U \subseteq S
    BY <1>1, <1>3, UpstreamIs DEF U
  <2> QED
    BY <1>2, <2>1
<1>4. \E d \in C : d.from = root
  <2> SUFFICES ASSUME \A d \in C : d.from # root PROVE FALSE
    OBVIOUS
  <2> DEFINE S == U \ {root}
  <2>1. N \subseteq U /\ \A c \in C : c.to \in U => c.from \in U
    BY <1>1, UpstreamIs DEF U
  <2>2. N \subseteq S /\ \A c \in C : c.to \in S => c.from \in S
    BY <1>2, <2>1 DEF N
  <2>3. root \in S
    <3> HIDE DEF S
    <3> QED
      BY <1>3, <2>2
  <2> QED
    BY <2>3
<1>5. \E d \in C : d.to = goal
  <2> SUFFICES ASSUME \A d \in C : d.to # goal PROVE FALSE
    OBVIOUS
  <2>1. \A c \in C : c.to \in N => c.from \in N
    BY DEF N
  <2>2. root \in N
    BY <1>3, <2>1
  <2> QED
    BY <1>2, <2>2 DEF N
<1> QED
  BY <1>4, <1>5 DEF C, goal
\* The part as it leads from the node the search began at to the goal.
LEMMA PartGrounded ==
  ASSUME NEW q, Asked(q), NEW root \in StartingPoints(q), root # q.goal
  PROVE  LET C == FlowConns(Enabled(q), q.goal, root)
             F == Feeders(q, root)
         IN  /\ root \in FlowNodes(Enabled(q), q.goal, root) => root \in F
             /\ q.goal \notin F
             /\ \A c \in C : c.to # root /\ c.from \in F /\ (c.to = q.goal \/ c.to \in F)
             /\ \A x \in F : x = root \/ \E d \in C : d.to = x
<1> DEFINE g == Enabled(q)
           goal == q.goal
           C == FlowConns(g, goal, root)
           N == FlowNodes(g, goal, root)
           F == Feeders(q, root)
<1>1. g \in DirectedGraphs /\ goal \in Nat /\ goal # root
  BY EnabledIs, GraphIs DEF Asked
<1>2. F = {c.from : c \in C}
  BY DEF Feeders
<1> HIDE DEF g, goal, F
<1>3. Grounded(C, N, goal, root)
  BY <1>1, FlowGrounded
<1> HIDE DEF C, N
<1>4. /\ root \in N => root \in F
      /\ goal \notin F
      /\ \A c \in C : c.to # root /\ c.from \in F /\ (c.to = goal \/ c.to \in F)
      /\ \A x \in F : x = root \/ \E d \in C : d.to = x
  BY <1>2, <1>3 DEF Grounded
<1> QED
  BY <1>4 DEF C, N, F, g, goal

\* What can be reached in the part leads to the goal: a connection of another
\* type comes from a sub-node, and nothing of type main leads there.
LEMMA ReachStays ==
  ASSUME NEW q, Asked(q), NEW root \in StartingPoints(q), root # q.goal
  PROVE  Reach(Part(q, root), root) \subseteq Feeders(q, root) \cup {q.goal, root}
<1> DEFINE e == Enabled(q)
           d == Drawn(q)
           p == Part(q, root)
           F == Feeders(q, root)
           goal == q.goal
           M == MainConns(q)
           S == F \cup {goal, root}
<1>1. /\ p \in DirectedGraphs /\ AllMain(p) = FlowConns(e, goal, root)
      /\ ToSet(p.conns) \subseteq ToSet(e.conns)
  BY PartIs
<1>2. /\ d \in DirectedGraphs /\ AllMain(d) = M /\ e = FilterDisabledNodes(d, q.disabled)
      /\ SubConnsOf(e, d) /\ e \in DirectedGraphs /\ ToSet(d.conns) = ToSet(q.conns)
  BY EnabledIs DEF Enabled, Drawn
<1>3. \A c \in AllMain(p) : c.from \in F /\ (c.to = goal \/ c.to \in F)
  BY <1>1, PartGrounded
<1>4. (\E x \in M : x.from = root) /\ (\E x \in M : x.to = goal)
  BY GoalAndRoot
<1>5. \A x \in S : \E y \in M : x \in {y.from, y.to}
  <2>1. FlowConns(e, goal, root) \subseteq AllMain(e)
    BY <1>2, FlowIs, GraphIs, EnabledIs DEF FlowConns, Asked
  <2>2. \A c \in AllMain(e) : \E y \in M : c.from = y.from
    BY <1>2, FilterEnds
  <2>3. \A x \in F : \E c \in FlowConns(e, goal, root) : x = c.from
    BY DEF Feeders
  <2> HIDE DEF e, F, M, goal
  <2> QED
    BY <1>4, <2>1, <2>2, <2>3
<1>6. \A c \in ToSet(q.conns) : ~Main(c) => \A y \in M : c.from \notin {y.from, y.to}
  <2>1. \A c \in ToSet(q.conns) : c.type = "main" \/ c.type = "ai"
    <3>1. d.conns = q.conns /\ d.conns \in Seq(Conns)
      BY <1>2, GraphIs DEF Drawn
    <3>2. ToSet(q.conns) \subseteq Conns
      <4> HIDE DEF d
      <4> QED
        BY <1>2, <3>1, GraphIs
    <3> HIDE DEF d
    <3>3. \A c \in Conns : c.type = "main" \/ c.type = "ai"
      BY DEF Conns
    <3> QED
      BY <3>2, <3>3
  <2>2. \A y \in M : y \in ToSet(q.conns) /\ y.type = "main"
    BY DEF MainConns, Main
  <2> HIDE DEF M
  <2> QED
    BY <2>1, <2>2 DEF Asked, Main
<1>7. \A c \in ToSet(p.conns) : ~Main(c) => c \in ToSet(q.conns)
  BY <1>1, <1>2 DEF SubConnsOf
<1> HIDE DEF p, F, goal, M, e, d
<1>8. ASSUME NEW c \in ToSet(p.conns), c.from \in S PROVE c.to \in S
  <2>1. CASE Main(c)
    BY <1>3, <2>1 DEF AllMain
  <2>2. CASE ~Main(c)
    BY <1>5, <1>6, <1>7, <1>8, <2>2
  <2> QED
    BY <2>1, <2>2
<1>9. root \in S
  OBVIOUS
<1> HIDE DEF S
<1>10. Reach(p, root) \subseteq S
  BY <1>1, <1>8, <1>9, ReachIs
<1> QED
  BY <1>10 DEF S, p, F, goal

\* When the node the search began at is in the part, it is enabled.
LEMMA RootEnabled ==
  ASSUME NEW q, Asked(q), NEW root \in StartingPoints(q), root # q.goal,
         ~Found(q, root).failed, root \in Nodes(Part(q, root))
  PROVE  root \notin q.disabled
<1> DEFINE e == Enabled(q)
           d == Drawn(q)
           p == Part(q, root)
<1>1. CASE root \in FlowNodes(e, q.goal, root)
  <2>1. root \in Feeders(q, root)
    BY <1>1, PartGrounded
  <2> QED
    BY <2>1, FeedersAre, EnabledIs
<1>2. CASE root \notin FlowNodes(e, q.goal, root)
  <2>1. PICK c \in ToSet(p.conns) : ~Main(c) /\ root \in {c.from, c.to}
    BY <1>2, PartIs
  <2>2. c \in ToSet(e.conns)
    BY PartIs
  <2>3. d \in DirectedGraphs /\ q.disabled \subseteq Nodes(d) /\ e = FilterDisabledNodes(d, q.disabled)
    BY EnabledIs DEF Asked, Enabled
  <2> HIDE DEF e, d
  <2>4. c.from \notin q.disabled /\ c.to \notin q.disabled
    BY <2>1, <2>2, <2>3, FilterSubs
  <2> QED
    BY <2>1, <2>4
<1> QED
  BY <1>1, <1>2
LEMMA DownstreamOn ==
  ASSUME NEW C, IsFiniteSet(C), NEW D, D \subseteq C, NEW x, NEW y, NEW z,
         y \in Downstream(D, {x}), z \in Downstream(C, {y})
  PROVE  z \in Downstream(C, {x})
<1> DEFINE S == Downstream(C, {x})
           X == {x}
           Y == {y}
<1>1. IsFiniteSet(D)
  BY FS_Subset
<1>2. X \subseteq S /\ \A c \in C : c.from \in S => c.to \in S
  BY DownstreamIs
<1> HIDE DEF S, X, Y
<1>3. Downstream(D, X) \subseteq S
  BY <1>1, <1>2, DownstreamIs
<1>4. Y \subseteq S
  BY <1>3 DEF X, Y
<1>5. Downstream(C, Y) \subseteq S
  BY <1>2, <1>4, DownstreamIs
<1> QED
  BY <1>5 DEF S, Y

\* The search grounds on these nodes: each comes after the root, or after another.
LEMMA FeedersGround ==
  ASSUME NEW q, Asked(q), NEW root \in StartingPoints(q), root # q.goal, ~Found(q, root).failed
  PROVE  Grounds(Feeders(q, root) \cup {root}, Enabled(q), q.goal, root)
<1> DEFINE C == FlowConns(Enabled(q), q.goal, root)
           F == Feeders(q, root)
           M == AllMain(Enabled(q))
           G == F \cup {root}
<1>1. /\ q.goal \notin F
      /\ \A c \in C : c.from \in F
      /\ \A x \in F : x = root \/ \E d \in C : d.to = x
  BY PartGrounded
<1>2. C \subseteq M /\ F \subseteq Nodes(Enabled(q))
  BY FeedersAre
<1>3. Nodes(Enabled(q)) \subseteq Nat /\ root \in Nat
  BY EnabledIs, GraphIs, StartingPointsAre
<1> HIDE DEF C, F, M
<1>4. G \subseteq Nat /\ q.goal \notin G
  BY <1>1, <1>2, <1>3
<1>5. \A x \in G : x = root \/ \E d \in M : d.to = x /\ d.from \in G
  BY <1>1, <1>2
<1> HIDE DEF G
<1>6. Grounds(G, Enabled(q), q.goal, root)
  BY <1>4, <1>5 DEF Grounds, M
<1> QED
  BY <1>6 DEF G, F

\* Up to the goal a way in what is enabled is one in the part, when it comes to
\* a node that leads to the goal.
LEMMA WayInPart ==
  ASSUME NEW q, Asked(q), NEW root \in StartingPoints(q), root # q.goal, ~Found(q, root).failed,
         NEW n \in Feeders(q, root) \cup {root},
         NEW m \in Upstream(AllMain(Part(q, root)), {q.goal}),
         m \in Downstream(Cut(Enabled(q), {q.goal}, {root}), {n})
  PROVE  m \in Reach(Part(q, root), n)
<1> DEFINE e == Enabled(q)
           goal == q.goal
           p == Part(q, root)
           C == FlowConns(e, goal, root)
           F == Feeders(q, root)
           G == F \cup {root}
           K == Cut(e, {goal}, {root})
           M == AllMain(e)
           D == {d \in M : d.to # root}
<1>1. e \in DirectedGraphs /\ goal \in Nat /\ goal # root /\ p \in DirectedGraphs
  BY EnabledIs, GraphIs, PartIs DEF Asked
<1>2. C \subseteq M /\ AllMain(p) = C /\ ~FlowGraph(e, goal, root).failed
  BY FeedersAre, PartIs
<1>3. \A c \in C : c.to # root /\ c.from \in F /\ (c.to = goal \/ c.to \in F)
  BY PartGrounded
<1>4. Grounds(G, e, goal, root)
  BY FeedersGround
<1>5. IsFiniteSet(M) /\ C \subseteq D /\ D \subseteq M /\ K \subseteq D
  <2>1. M \subseteq ToSet(e.conns) /\ IsFiniteSet(ToSet(e.conns))
    BY <1>1, GraphIs DEF AllMain
  <2>2. IsFiniteSet(M)
    <3> HIDE DEF M
    <3> QED
      BY <2>1, FS_Subset
  <2>3. C \subseteq D
    BY <1>2, <1>3
  <2> QED
    BY <2>2, <2>3 DEF Cut
<1>6. IsFiniteSet(D) /\ IsFiniteSet(C) /\ IsFiniteSet(K)
  <2> HIDE DEF D, C, K, M
  <2> QED
    BY <1>5, FS_Subset
<1>7. Up(e, root) = {<<d.to, d.from>> : d \in D}
  BY DEF Up
<1>8. ReachedBy(Up(e, root), {goal}) = Upstream(D, {goal})
  BY <1>7 DEF Upstream
<1>9. \A c \in K : c \in M /\ c.from # goal /\ c.to # root
  BY DEF Cut
<1>10. m \in Upstream(C, {goal}) /\ m \in Downstream(K, {n}) /\ n \in G
  BY <1>2
<1> HIDE DEF e, goal, p, C, F, K, M, D
<1>11. goal \in Downstream(D, {m})
  <2>1. goal \in Downstream(C, {m})
    BY <1>6, <1>10, UpstreamIsDownstream
  <2>2. goal \in Downstream(D, {goal})
    <3> DEFINE N == {goal}
    <3>1. N \subseteq Downstream(D, N)
      <4> HIDE DEF N
      <4> QED
        BY <1>6, DownstreamIs
    <3> QED
      BY <3>1
  <2> QED
    BY <1>5, <1>6, <2>1, <2>2, DownstreamOn
<1> DEFINE X == {n}
           W == Downstream(C, X)
           S == W \cup {c.to : c \in {d \in K : m \notin Downstream(K, {d.to})}}
<1>12. W \subseteq G \cup {goal}
  <2> DEFINE T == G \cup {goal}
  <2>1. X \subseteq T /\ \A c \in C : c.from \in T => c.to \in T
    BY <1>3, <1>10
  <2> HIDE DEF T, X
  <2>2. W \subseteq T
    BY <1>6, <2>1, DownstreamIs
  <2> QED
    BY <2>2 DEF T
<1>13. X \subseteq W /\ \A c \in C : c.from \in W => c.to \in W
  <2> HIDE DEF X
  <2> QED
    BY <1>6, DownstreamIs
<1>14. ASSUME NEW z PROVE {z} \subseteq Downstream(K, {z}) /\ \A c \in K : c.from \in Downstream(K, {z}) => c.to \in Downstream(K, {z})
  <2> DEFINE Z == {z}
  <2> HIDE DEF Z
  <2>1. Z \subseteq Downstream(K, Z) /\ \A c \in K : c.from \in Downstream(K, Z) => c.to \in Downstream(K, Z)
    BY <1>6, DownstreamIs
  <2> QED
    BY <2>1 DEF Z
<1> HIDE DEF G, W
<1>15. ASSUME NEW c \in K, c.from \in S PROVE c.to \in S
  <2>1. CASE m \notin Downstream(K, {c.to})
    BY <2>1
  <2>2. CASE m \in Downstream(K, {c.to})
    <3>1. m \in Downstream(K, {c.from})
      <4>1. c.to \in Downstream(K, {c.from})
        BY <1>14
      <4> DEFINE x == c.from
                 y == c.to
      <4>2. y \in Downstream(K, {x}) /\ m \in Downstream(K, {y}) /\ K \subseteq K
        BY <2>2, <4>1
      <4> HIDE DEF x, y
      <4>3. m \in Downstream(K, {x})
        BY <1>6, <4>2, DownstreamOn
      <4> QED
        BY <4>3 DEF x
    <3>2. c.from \in W
      BY <1>15, <3>1
    <3>3. c.from \in G
      BY <1>9, <1>12, <3>2
    <3>4. goal \in Downstream(D, {c.to})
      <4> DEFINE y == c.to
      <4>1. m \in Downstream(K, {y})
        BY <2>2
      <4> HIDE DEF y
      <4>2. goal \in Downstream(D, {y})
        BY <1>5, <1>6, <1>11, <4>1, DownstreamOn
      <4> QED
        BY <4>2 DEF y
    <3>5. c.to \in Upstream(D, {goal})
      <4> DEFINE y == c.to
      <4>1. goal \in Downstream(D, {y})
        BY <3>4
      <4> HIDE DEF y
      <4>2. y \in Upstream(D, {goal})
        BY <1>6, <4>1, UpstreamIsDownstream
      <4> QED
        BY <4>2 DEF y
    <3>6. c \in AllMain(e) /\ c.to # root /\ c.to \in ReachedBy(Up(e, root), {goal})
      BY <1>8, <1>9, <3>5 DEF M
    <3>7. c \in FlowConns(e, goal, root)
      BY <1>1, <1>2, <1>4, <3>3, <3>6, FlowCovers
    <3>8. c.to \in W
      BY <1>13, <3>2, <3>7 DEF C
    <3> QED
      BY <3>8
  <2> QED
    BY <2>1, <2>2
<1>16. X \subseteq S
  BY <1>13
<1>17. m \in S
  <2> HIDE DEF S
  <2>1. Downstream(K, X) \subseteq S
    BY <1>6, <1>15, <1>16, DownstreamIs
  <2> QED
    BY <1>10, <2>1 DEF X
<1>18. m \in W
  BY <1>14, <1>17
<1>19. W \subseteq Reach(p, n)
  <2> DEFINE Y == Reach(p, n)
  <2>1. n \in Y /\ \A c \in ToSet(p.conns) : c.from \in Y => c.to \in Y
    BY <1>1, ReachIs
  <2>2. C \subseteq ToSet(p.conns)
    BY <1>2 DEF AllMain
  <2>3. X \subseteq Y /\ \A c \in C : c.from \in Y => c.to \in Y
    BY <2>1, <2>2
  <2> HIDE DEF X, Y
  <2>4. Downstream(C, X) \subseteq Y
    BY <1>6, <2>3, DownstreamIs
  <2> QED
    BY <2>4 DEF W, Y
<1> QED
  BY <1>18, <1>19 DEF p
\* What is kept of the data of a run has nothing of the nodes of N, nor of what
\* comes after them.
CleanFor(g, data, N) == \A n \in N : Reach(g, n) \cap DOMAIN data = {}

LEMMA CleanIs ==
  ASSUME NEW g \in DirectedGraphs, NEW data, Kept(data), NEW N
  PROVE  /\ DOMAIN CleanRunData(data, g, N) \subseteq DOMAIN data \cap Nodes(g)
         /\ CleanFor(g, CleanRunData(data, g, N), N)
<1> DEFINE clean == CleanRunData(data, g, N)
<1>1. /\ DOMAIN clean \subseteq DOMAIN data \cap Nodes(g)
      /\ \A n \in N : n \notin DOMAIN clean /\ Children(g, n) \cap DOMAIN clean = {}
  BY CleanRunDataIs
<1>2. \A n : Reach(g, n) = {n} \cup Children(g, n)
  BY ReachIs
<1> HIDE DEF clean
<1>3. CleanFor(g, clean, N)
  BY <1>1, <1>2 DEF CleanFor
<1> QED
  BY <1>1, <1>3 DEF clean

\* The search for the subgraph did not fail, and the node it began at is in it
\* or is a start node.
WellFound ==
  /\ step \in {"start", "cycles", "clean", "stack", "run"} => ~Found(request, trigger).failed
  /\ step \in {"cycles", "clean"} => trigger \in Nodes(graph) \/ startNodes # <<>>
  /\ step \in {"stack", "run"} => trigger \in Nodes(graph)

LEMMA StartsStay ==
  ASSUME TypeOK, StartsOnWay, Cycles, startNodes # <<>>
  PROVE  startNodes' # <<>>
<1> DEFINE cycles == CyclesOf(graph, startNodes)
           fails  == \E C \in ToSet(cycles) : FirstNodes(graph, C, trigger) = <<>>
           N == Reach(graph, trigger)
           s == HandleCycles(graph, cycles, startNodes, trigger)
<1>1. step = "cycles" /\ startNodes' = IF fails THEN startNodes ELSE s
  BY DEF Cycles
<1>2. trigger \in Nat
  BY <1>1, StartingPointsAre DEF TypeOK
<1>3. ToSet(startNodes) \subseteq N
  BY <1>1 DEF StartsOnWay
<1>4. cycles \in Seq(SUBSET Nat) /\ \A C \in ToSet(cycles) : Component(C, graph, trigger, N)
  BY <1>2, <1>3, CyclesAreOnWay DEF TypeOK
<1> HIDE DEF cycles, N, fails
<1>5. StandIn(s, graph, startNodes, N)
  BY <1>2, <1>3, <1>4, HandleCyclesIs DEF TypeOK
<1>6. \E m : m \in ToSet(startNodes)
  BY NothingIs DEF TypeOK
<1> HIDE DEF s
<1>7. ToSet(s) # {}
  BY <1>5, <1>6 DEF StandIn
<1>8. s # <<>>
  BY <1>7, NothingIs
<1> QED
  BY <1>1, <1>8

\* Clean fails when the node the search began at is not in the part: then it is
\* the only start node there can be.
LEMMA CleanFindsTrigger ==
  ASSUME TypeOK, GraphIsPart, StartsOnWay, WellFound, Clean, step' # "failed"
  PROVE  trigger \in Nodes(graph)
<1>1. step = "clean" /\ ToSet(startNodes) \subseteq Nodes(graph)
  BY DEF Clean, GoOn
<1>2. ToSet(startNodes) \subseteq Reach(graph, trigger) /\ graph = Part(request, trigger)
  BY <1>1 DEF StartsOnWay, GraphIsPart
<1>3. \A c \in ToSet(graph.conns) : c.from \in Nodes(graph)
  BY <1>2, PartIs DEF TypeOK
<1> SUFFICES ASSUME trigger \notin Nodes(graph) PROVE FALSE
  OBVIOUS
<1> DEFINE S == {trigger}
<1>4. trigger \in S /\ \A c \in ToSet(graph.conns) : c.from \in S => c.to \in S
  BY <1>3
<1> HIDE DEF S
<1>5. Reach(graph, trigger) \subseteq S
  BY <1>4, ReachIs DEF TypeOK
<1>6. ToSet(startNodes) = {}
  BY <1>1, <1>2, <1>5 DEF S
<1>7. startNodes = <<>>
  BY <1>6, NothingIs DEF TypeOK
<1> QED
  BY <1>1, <1>7 DEF WellFound

LEMMA WellFoundHolds == PartialSpec => []WellFound
<1>1. Init => WellFound
  BY DEF Init, WellFound
<1>2. TypeOK /\ GraphIsPart /\ StartsOnWay /\ WellFound /\ [Next]_vars => WellFound'
  <2> SUFFICES ASSUME TypeOK, GraphIsPart, StartsOnWay, WellFound, [Next]_vars PROVE WellFound'
    OBVIOUS
  <2>1. ASSUME UNCHANGED <<request, trigger>> PROVE Found(request, trigger)' = Found(request, trigger)
    BY <2>1 DEF Found, Enabled, Drawn
  <2>2. CASE FindTrigger
    BY <2>2 DEF FindTrigger, WellFound
  <2>3. CASE Subgraph
    <3>1. /\ UNCHANGED <<request, trigger>> /\ graph = Drawn(request) /\ step' \in {"start", "failed"}
          /\ step' # "failed" => ~FindSubgraph(FilterDisabledNodes(graph, request.disabled), request.goal, trigger).failed
      BY <2>3 DEF Subgraph, GoOn, GraphIsPart
    <3>2. step' # "failed" => ~Found(request, trigger).failed
      BY <3>1 DEF Found, Enabled
    <3> QED
      BY <2>1, <3>1, <3>2 DEF WellFound
  <2>4. CASE StartNodes
    <3>1. /\ UNCHANGED <<request, trigger, graph>> /\ step = "start" /\ step' \in {"cycles", "failed"}
          /\ step' # "failed" => trigger \in Nodes(graph) \/ startNodes' # <<>>
      BY <2>4 DEF StartNodes, GoOn
    <3> QED
      BY <2>1, <3>1 DEF WellFound
  <2>5. CASE Cycles
    <3>1. UNCHANGED <<request, trigger, graph>> /\ step = "cycles" /\ step' = "clean"
      BY <2>5, CyclesGoOn DEF Cycles
    <3>2. startNodes # <<>> => startNodes' # <<>>
      BY <2>5, StartsStay
    <3> QED
      BY <2>1, <3>1, <3>2 DEF WellFound
  <2>6. CASE Clean
    <3>1. UNCHANGED <<request, trigger, graph>> /\ step = "clean" /\ step' \in {"stack", "failed"}
      BY <2>6 DEF Clean, GoOn
    <3>2. step' # "failed" => trigger \in Nodes(graph)
      BY <2>6, CleanFindsTrigger
    <3> QED
      BY <2>1, <3>1, <3>2 DEF WellFound
  <2>7. CASE RecreateStack
    <3>1. UNCHANGED <<request, trigger, graph>> /\ step = "stack" /\ step' = "run"
      BY <2>7 DEF RecreateStack
    <3> QED
      BY <2>1, <3>1 DEF WellFound
  <2>8. CASE UNCHANGED vars
    BY <2>1, <2>8 DEF WellFound, vars
  <2> QED
    BY <2>2, <2>3, <2>4, <2>5, <2>6, <2>7, <2>8 DEF Next
<1> QED
  BY <1>1, <1>2, PartialIsTyped, GraphIsPartHolds, StartsOnWayHolds, PTL DEF PartialSpec
\* What data is gone: that of what the user changed, of the start nodes, and of
\* the goal when it is the trigger itself.
DataCleaned ==
  /\ step \in {"cycles", "clean", "stack", "run"} =>
       DOMAIN runData \subseteq Nodes(graph) /\ CleanFor(graph, runData, request.dirty \cap Nodes(graph))
  /\ step \in {"stack", "run"} => CleanFor(graph, runData, ToSet(startNodes))
  /\ step \in {"stack", "run"} /\ trigger = request.goal => request.goal \notin DOMAIN runData

LEMMA DataCleanedHolds == PartialSpec => []DataCleaned
<1>1. Init => DataCleaned
  BY DEF Init, DataCleaned
<1>2. TypeOK /\ MissingCovered /\ DataCleaned /\ [Next]_vars => DataCleaned'
  <2> SUFFICES ASSUME TypeOK, MissingCovered, DataCleaned, [Next]_vars PROVE DataCleaned'
    OBVIOUS
  <2>0. graph \in DirectedGraphs /\ Kept(runData)
    BY DEF TypeOK
  <2>1. CASE FindTrigger \/ Subgraph
    <3>1. step' \notin {"cycles", "clean", "stack", "run"}
      BY <2>1 DEF FindTrigger, Subgraph, GoOn
    <3> QED
      BY <3>1 DEF DataCleaned
  <2>2. CASE StartNodes
    <3> DEFINE N == request.dirty \cap Nodes(graph)
    <3>1. /\ UNCHANGED <<request, trigger, graph>> /\ step' \in {"cycles", "failed"}
          /\ runData' = CleanRunData(runData, graph, N)
      BY <2>2 DEF StartNodes, GoOn
    <3> HIDE DEF N
    <3>2. /\ DOMAIN CleanRunData(runData, graph, N) \subseteq DOMAIN runData \cap Nodes(graph)
          /\ CleanFor(graph, CleanRunData(runData, graph, N), N)
      BY <2>0, CleanIs
    <3>3. DOMAIN runData' \subseteq Nodes(graph) /\ CleanFor(graph, runData', N)
      BY <3>1, <3>2
    <3> QED
      BY <3>1, <3>3 DEF DataCleaned, N
  <2>3. CASE Cycles
    <3>1. /\ UNCHANGED <<request, trigger, graph, runData>> /\ step = "cycles" /\ step' \in {"clean", "failed"}
      BY <2>3 DEF Cycles, GoOn
    <3> QED
      BY <3>1 DEF DataCleaned
  <2>4. CASE Clean
    <3> DEFINE N == ToSet(startNodes)
               D == request.dirty \cap Nodes(graph)
    <3>1. /\ UNCHANGED <<request, trigger, graph, startNodes>> /\ step = "clean" /\ step' \in {"stack", "failed"}
          /\ runData' = CleanRunData(runData, graph, N)
      BY <2>4 DEF Clean, GoOn
    <3>2. CleanFor(graph, runData, D)
      BY <3>1 DEF DataCleaned
    <3>3. trigger = request.goal => \E s \in N : request.goal \in Reach(graph, s)
      <4>1. Covered(startNodes, graph, request, runData, trigger)
        BY <3>1 DEF MissingCovered
      <4> DEFINE C == {c \in ToSet(graph.conns) : c.from # request.goal /\ Flows(c, runData, request.pinned)}
                 X == {trigger}
      <4>2. IsFiniteSet(C)
        <5>1. IsFiniteSet(ToSet(graph.conns))
          BY <2>0, GraphIs
        <5> QED
          BY <5>1, FS_Subset
      <4>3. X \subseteq Downstream(C, X)
        <5> HIDE DEF C, X
        <5> QED
          BY <4>2, DownstreamIs
      <4>4. trigger \in ReachedIn(graph, request, runData, trigger)
        BY <4>3 DEF ReachedIn
      <4> QED
        BY <4>1, <4>4 DEF Covered
    <3> HIDE DEF N, D
    <3>4. /\ DOMAIN CleanRunData(runData, graph, N) \subseteq DOMAIN runData \cap Nodes(graph)
          /\ CleanFor(graph, CleanRunData(runData, graph, N), N)
      BY <2>0, CleanIs
    <3>5. /\ DOMAIN runData' \subseteq DOMAIN runData /\ DOMAIN runData' \subseteq Nodes(graph)
          /\ CleanFor(graph, runData', N)
      BY <3>1, <3>4
    <3>6. CleanFor(graph, runData', D)
      BY <3>2, <3>5 DEF CleanFor
    <3>7. trigger = request.goal => request.goal \notin DOMAIN runData'
      BY <3>3, <3>5 DEF CleanFor
    <3> QED
      BY <3>1, <3>5, <3>6, <3>7 DEF DataCleaned, N, D
  <2>5. CASE RecreateStack
    <3>1. /\ UNCHANGED <<request, trigger, graph, runData, startNodes>> /\ step = "stack" /\ step' = "run"
      BY <2>5 DEF RecreateStack
    <3> QED
      BY <3>1 DEF DataCleaned
  <2>6. CASE UNCHANGED vars
    BY <2>6 DEF DataCleaned, vars
  <2> QED
    BY <2>1, <2>2, <2>3, <2>4, <2>5, <2>6 DEF Next
<1> QED
  BY <1>1, <1>2, PartialIsTyped, MissingCoveredHolds, PTL DEF PartialSpec

LEMMA StaleIsGone ==
  ASSUME TypeOK, GraphIsPart, StartsOnWay, WellFound, DataCleaned
  PROVE  NothingStaleSurvives
<1> DEFINE goal == request.goal
           C == {c \in ToSet(graph.conns) : Main(c)}
           feeding == Upstream(C, {goal})
           again == ToSet(startNodes) \cup (request.dirty \cap feeding)
           F == Feeders(request, trigger)
<1> SUFFICES ASSUME step \in {"stack", "run"}, NEW n \in again, NEW m \in Affected(n),
                    m \in feeding, m \in DOMAIN runData
             PROVE  FALSE
  BY DEF NothingStaleSurvives
<1>1. /\ Asked(request) /\ graph = Part(request, trigger) /\ graph \in DirectedGraphs
      /\ trigger \in StartingPoints(request) /\ ~Found(request, trigger).failed
      /\ trigger \in Nodes(graph)
  BY DEF TypeOK, GraphIsPart, WellFound
<1>2. /\ ToSet(startNodes) \subseteq Reach(graph, trigger)
      /\ DOMAIN runData \subseteq Nodes(graph) /\ CleanFor(graph, runData, request.dirty \cap Nodes(graph))
      /\ CleanFor(graph, runData, ToSet(startNodes))
      /\ trigger = goal => goal \notin DOMAIN runData
  BY DEF StartsOnWay, DataCleaned
<1>3. C = AllMain(graph) /\ feeding \subseteq F \cup {goal}
  <2>1. C = AllMain(graph)
    BY DEF AllMain
  <2> QED
    BY <1>1, <2>1, FeedingIs
<1>4. F \subseteq Nodes(graph) /\ F \subseteq ToSet(request.nodes) \ request.disabled
  BY <1>1, FeedersAre, EnabledIs
<1>5. ASSUME m \in Reach(graph, n) PROVE FALSE
  <2>1. CASE n \in ToSet(startNodes)
    BY <1>2, <1>5, <2>1 DEF CleanFor
  <2>2. CASE n \in Nodes(graph) /\ n \in request.dirty
    BY <1>2, <1>5, <2>2 DEF CleanFor
  <2>3. CASE n \notin Nodes(graph) /\ n \notin ToSet(startNodes)
    <3>1. n = goal
      BY <1>3, <1>4, <2>3
    <3> DEFINE S == {n}
    <3>2. n \in S /\ \A c \in ToSet(graph.conns) : c.from \in S => c.to \in S
      BY <1>1, <2>3, PartIs
    <3> HIDE DEF S
    <3>3. Reach(graph, n) \subseteq S
      BY <1>1, <3>2, ReachIs
    <3> QED
      BY <1>2, <1>5, <2>3, <3>3 DEF S
  <2> QED
    BY <2>1, <2>2, <2>3
<1> DEFINE K == Cut(Drawn(request), {goal}, {trigger})
<1>6. Affected(n) = Downstream(K, {n})
  <2> DEFINE J == {c \in ToSet(request.conns) : Main(c) /\ c.from # goal /\ c.to # trigger}
  <2>1. J = K
    BY DEF Cut, AllMain, Drawn
  <2>2. Affected(n) = Downstream(J, {n})
    BY DEF Affected
  <2> QED
    BY <2>1, <2>2
<1>7. Drawn(request) \in DirectedGraphs
  BY <1>1, EnabledIs
<1>8. IsFiniteSet(K) /\ \A c \in K : c.from # goal
  <2>1. \A c \in K : c.from # goal
    BY DEF Cut
  <2> DEFINE A == {goal}
             B == {trigger}
  <2> HIDE DEF A, B
  <2>2. IsFiniteSet(Cut(Drawn(request), A, B))
    BY <1>7, CutFinite
  <2> QED
    BY <2>1, <2>2 DEF A, B
<1>9. CASE trigger = goal
  <2>1. FlowConns(Enabled(request), trigger, trigger) = {}
    BY <1>1, EnabledIs, FlowOfRoot, StartingPointsAre
  <2>2. F = {}
    BY <1>9, <2>1 DEF Feeders
  <2>3. m = goal
    BY <1>3, <2>2
  <2> QED
    BY <1>2, <1>9, <2>3
<1>10. CASE trigger # goal /\ n = goal
  <2> DEFINE S == {n}
  <2>1. S \subseteq S /\ \A c \in K : c.from \in S => c.to \in S
    BY <1>8, <1>10
  <2> HIDE DEF S, K
  <2>2. Downstream(K, S) \subseteq S
    BY <1>8, <2>1, DownstreamIs
  <2>3. m = n
    BY <1>6, <2>2 DEF S
  <2>4. n \in Reach(graph, n)
    BY <1>1, ReachIs
  <2> QED
    BY <1>5, <2>3, <2>4
<1>11. CASE trigger # goal /\ n # goal
  <2>1. Reach(graph, trigger) \subseteq F \cup {goal, trigger}
    BY <1>1, <1>11, ReachStays
  <2>2. n \in F \cup {trigger}
    BY <1>2, <1>3, <1>11, <2>1
  <2>3. trigger \notin request.disabled
    BY <1>1, <1>11, RootEnabled
  <2>4. n \notin request.disabled /\ m \notin request.disabled
    <3>1. goal \notin request.disabled
      BY <1>1 DEF Asked
    <3> QED
      BY <1>3, <1>4, <2>2, <2>3, <3>1
  <2>5. m \in Downstream(Cut(Enabled(request), {goal}, {trigger}), {n})
    <3> DEFINE g == Drawn(request)
               A == {goal}
               B == {trigger}
               d == request.disabled
    <3>1. m \in Downstream(Cut(g, A, B), {n}) /\ g \in DirectedGraphs /\ n \notin d /\ m \notin d
      BY <1>6, <1>7, <2>4
    <3> HIDE DEF g, A, B, d
    <3>2. m \in Downstream(Cut(FilterDisabledNodes(g, d), A, B), {n})
      BY <3>1, FilterKeepsWays
    <3> QED
      BY <3>2 DEF g, A, B, d, Enabled
  <2>6. m \in Upstream(AllMain(Part(request, trigger)), {request.goal})
    BY <1>1, <1>3
  <2>7. m \in Reach(Part(request, trigger), n)
    <3> HIDE DEF C, feeding, again, K
    <3> QED
      BY <1>1, <1>11, <2>2, <2>5, <2>6, WayInPart
  <2> QED
    BY <1>1, <1>5, <2>7
<1> QED
  BY <1>9, <1>10, <1>11

\* Nothing that is computed from what is run again survives: once cleanRunData
\* is through, no node that leads to the goal kept its data and is downstream, in
\* the workflow as the user drew it, of a start node or of a node that the user
\* changed (filterDisabledNodes, findSubgraph, findStartNodes, handleCycles,
\* cleanRunData).
THEOREM PartialNothingStaleSurvives == PartialSpec => []NothingStaleSurvives
BY PartialIsTyped, GraphIsPartHolds, StartsOnWayHolds, WellFoundHolds, DataCleanedHolds, StaleIsGone, PTL
=============================================================================
