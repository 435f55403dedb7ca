------------------------------ MODULE Induction ------------------------------
(***************************************************************************)
(* Induction, in the form in which the proofs use it: on a set of numbers, *)
(* since the provers cannot instantiate an operator.  With it, what the    *)
(* folds of the community modules compute, and what Only does.             *)
(***************************************************************************)
EXTENDS Integers, Filter, SequenceTheorems, WellFoundedInduction, TLAPS

\* A set of naturals has a least element.
LEMMA Least ==
    ASSUME NEW T \in SUBSET Nat, T # {}
    PROVE  \E x \in T : \A y \in T : x <= y
<1> DEFINE R == OpToRel(<, Nat)
<1>1. IsWellFoundedOn(R, Nat)  BY NatLessThanWellFounded DEF OpToRel
<1>2. \A x, y \in Nat : y < x => <<y, x>> \in R  BY DEF OpToRel
<1> HIDE DEF R
<1>3. \E x \in T : \A y \in T : ~(<<y, x>> \in R)  BY <1>1, WFMin
<1>4. ASSUME NEW x \in T, NEW y \in T, ~(<<y, x>> \in R)  PROVE x <= y  BY <1>2, <1>4
<1> QED  BY <1>3, <1>4

\* A nonempty set of numbers up to n has a greatest element.
LEMMA Greatest ==
    ASSUME NEW n \in Nat, NEW T \in SUBSET (1 .. n), T # {}
    PROVE  \E x \in T : \A y \in T : y <= x
<1> DEFINE U == {n - x : x \in T}
<1>1. U \in SUBSET Nat /\ U # {}
  <2>1. PICK t \in T : TRUE  OBVIOUS
  <2>2. n - t \in U  OBVIOUS
  <2> QED  BY <2>2
<1>2. PICK u \in U : \A v \in U : u <= v  BY <1>1, Least
<1>3. PICK x \in T : u = n - x  BY <1>2
<1>4. ASSUME NEW y \in T  PROVE y <= x
  <2>1. n - x <= n - y  BY <1>2, <1>3
  <2> QED  BY <2>1
<1> QED  BY <1>3, <1>4

\* Induction up to n: P is the set of the numbers it holds of.
LEMMA UpTo ==
    ASSUME NEW n \in Nat, NEW P, 0 \in P, \A k \in 1 .. n : k - 1 \in P => k \in P
    PROVE  \A k \in 0 .. n : k \in P
<1> DEFINE T == {k \in 0 .. n : k \notin P}
<1> SUFFICES ASSUME T # {}  PROVE FALSE  OBVIOUS
<1>1. PICK k \in T : \A j \in T : k <= j
  <2>1. T \in SUBSET Nat  OBVIOUS
  <2> HIDE DEF T
  <2> QED  BY <2>1, Least
<1>2. k # 0 /\ k - 1 \in 0 .. n /\ k - 1 \notin T  BY <1>1
<1> QED  BY <1>1, <1>2

-----------------------------------------------------------------------------
(* Folds.                                                                   *)

LEMMA MaxOf ==
    ASSUME NEW n \in Nat, NEW S \in SUBSET (1 .. n), S # {}
    PROVE  Max(S) \in S /\ \A y \in S : y <= Max(S)
<1>1. \E x \in S : \A y \in S : x >= y  BY Greatest
<1> QED  BY <1>1 DEF Max

LEMMA MaxUpTo ==
    ASSUME NEW n \in Nat, NEW k \in 1 .. n
    PROVE  /\ 1 .. k \in SUBSET (1 .. n) /\ 1 .. k # {}
           /\ Max(1 .. k) = k /\ (1 .. k) \ {k} = 1 .. k - 1
<1>1. 1 .. k \in SUBSET (1 .. n) /\ k \in 1 .. k  OBVIOUS
<1>2. Max(1 .. k) \in 1 .. k /\ k <= Max(1 .. k)  BY <1>1, MaxOf, Zenon
<1> QED  BY <1>1, <1>2

\* What MapThenFoldSet computes where the chosen element is the greatest: G[k] is
\* what it does with element k.
Folds(it, n, base, G) ==
    /\ it[{}] = base
    /\ \A S \in SUBSET (1 .. n) : S # {} => it[S] = G[Max(S)][it[S \ {Max(S)}]]

\* The same, one element after the other.
Steps(f, n, base, G) == f[0] = base /\ \A k \in 1 .. n : f[k] = G[k][f[k - 1]]

LEMMA FoldExists ==
    ASSUME NEW n \in Nat, NEW T, NEW base \in T, NEW G \in [1 .. n -> [T -> T]]
    PROVE  \E it \in [SUBSET (1 .. n) -> T] : Folds(it, n, base, G)
<1> DEFINE Solves(it, k) ==
              /\ it \in [SUBSET (1 .. k) -> T]
              /\ \A S \in SUBSET (1 .. k) :
                    it[S] = IF S = {} THEN base ELSE G[Max(S)][it[S \ {Max(S)}]]
           P == {k \in 0 .. n : \E it : Solves(it, k)}
<1> HIDE DEF Solves
<1>1. 0 \in P
  <2> DEFINE it == [S \in SUBSET (1 .. 0) |-> base]
  <2>1. \A S \in SUBSET (1 .. 0) : S = {}  OBVIOUS
  <2>2. it \in [SUBSET (1 .. 0) -> T] /\ \A S \in SUBSET (1 .. 0) : it[S] = base
    OBVIOUS
  <2> HIDE DEF it
  <2>3. Solves(it, 0)  BY <2>1, <2>2 DEF Solves
  <2> QED  BY <2>3
<1>2. ASSUME NEW k \in 1 .. n, k - 1 \in P  PROVE k \in P
  <2>1. PICK h : Solves(h, k - 1)  BY <1>2
  <2> DEFINE it == [S \in SUBSET (1 .. k) |->
                       IF k \in S THEN G[k][h[S \ {k}]] ELSE h[S]]
  <2>2. ASSUME NEW S \in SUBSET (1 .. k)
        PROVE  it[S] \in T /\ it[S] = IF S = {} THEN base ELSE G[Max(S)][it[S \ {Max(S)}]]
    <3>1. CASE k \in S
      <4>1. Max(S) \in S /\ k <= Max(S)
        <5>1. k \in Nat /\ S # {}  BY <3>1
        <5> QED  BY <3>1, <5>1, MaxOf, Zenon
      <4>2. Max(S) = k /\ S \ {k} \in SUBSET (1 .. k - 1) /\ S \ {k} \in SUBSET (1 .. k)
        <5> DEFINE m == Max(S)
        <5>1. m \in 1 .. k /\ k <= m  BY <4>1
        <5> HIDE DEF m
        <5>2. m = k  BY <5>1
        <5> QED  BY <5>2 DEF m
      <4>3. it[S \ {k}] = h[S \ {k}] /\ h[S \ {k}] \in T  BY <2>1, <4>2 DEF Solves
      <4>4. it[S] = G[k][h[S \ {k}]]  BY <3>1
      <4> QED  BY <3>1, <4>2, <4>3, <4>4
    <3>2. CASE k \notin S
      <4>1. S \in SUBSET (1 .. k - 1)  BY <3>2
      <4>2. it[S] = h[S] /\ h[S] \in T  BY <2>1, <3>2, <4>1 DEF Solves
      <4>3. CASE S = {}  BY <2>1, <4>1, <4>2, <4>3 DEF Solves
      <4>4. CASE S # {}
        <5>1. S \ {Max(S)} \in SUBSET (1 .. k - 1) /\ S \ {Max(S)} \in SUBSET (1 .. k)
               /\ k \notin S \ {Max(S)}
          BY <3>2, <4>1
        <5>2. it[S \ {Max(S)}] = h[S \ {Max(S)}]  BY <5>1
        <5> QED  BY <2>1, <4>1, <4>2, <4>4, <5>2 DEF Solves
      <4> QED  BY <4>3, <4>4
    <3> QED  BY <3>1, <3>2
  <2>3. it \in [SUBSET (1 .. k) -> T]  BY <2>2
  <2> HIDE DEF it
  <2>4. Solves(it, k)  BY <2>2, <2>3 DEF Solves
  <2> QED  BY <2>4
<1>3. n \in P
  <2> HIDE DEF P
  <2>1. \A k \in 0 .. n : k \in P  BY <1>1, <1>2, UpTo
  <2> QED  BY <2>1
<1> QED  BY <1>3 DEF Solves, Folds

LEMMA FoldSteps ==
    ASSUME NEW n \in Nat, NEW T, NEW base \in T, NEW G \in [1 .. n -> [T -> T]], NEW it,
           it[{}] = base,
           \A S \in SUBSET (1 .. n) : S # {} /\ it[S \ {Max(S)}] \in T =>
                it[S] = G[Max(S)][it[S \ {Max(S)}]]
    PROVE  \E f \in [0 .. n -> T] : f[n] = it[1 .. n] /\ Steps(f, n, base, G)
<1> DEFINE f == [k \in 0 .. n |-> it[1 .. k]]
           P == {k \in 0 .. n : f[k] \in T}
<1>1. 1 .. 0 = {}  OBVIOUS
<1>2. f[0] = base /\ f[n] = it[1 .. n]  BY <1>1
<1>3. ASSUME NEW k \in 1 .. n, f[k - 1] \in T  PROVE f[k] = G[k][f[k - 1]] /\ f[k] \in T
  <2>1. k - 1 \in 0 .. n /\ k \in 0 .. n  OBVIOUS
  <2>2. f[k - 1] = it[1 .. k - 1] /\ f[k] = it[1 .. k]  BY <2>1
  <2>3. PICK D : D = 1 .. k  OBVIOUS
  <2>4. /\ D \in SUBSET (1 .. n) /\ D # {} /\ Max(D) = k /\ D \ {k} = 1 .. k - 1
    BY <2>3, MaxUpTo
  <2>5. it[D] = G[Max(D)][it[D \ {Max(D)}]]  BY <1>3, <2>2, <2>4
  <2>6. f[k] = G[k][f[k - 1]]  BY <2>2, <2>3, <2>4, <2>5
  <2>7. G[k] \in [T -> T]  OBVIOUS
  <2> HIDE DEF f
  <2> QED  BY <1>3, <2>6, <2>7
<1>4. \A k \in 0 .. n : k \in P
  <2>1. 0 \in P  BY <1>2
  <2>2. ASSUME NEW k \in 1 .. n, k - 1 \in P  PROVE k \in P
    <3>1. f[k - 1] \in T  BY <2>2
    <3> QED  BY <1>3, <3>1
  <2> HIDE DEF P
  <2> QED  BY <2>1, <2>2, UpTo
<1>5. \A k \in 0 .. n : f[k] \in T  BY <1>4
<1>6. f \in [0 .. n -> T]  BY <1>5
<1>7. \A k \in 1 .. n : f[k - 1] \in T  BY <1>5
<1> HIDE DEF f, P
<1> QED  BY <1>2, <1>3, <1>6, <1>7 DEF Steps

LEMMA StepsExist ==
    ASSUME NEW n \in Nat, NEW T, NEW base \in T, NEW G \in [1 .. n -> [T -> T]]
    PROVE  \E f \in [0 .. n -> T] : Steps(f, n, base, G)
<1>1. PICK it \in [SUBSET (1 .. n) -> T] : Folds(it, n, base, G)  BY FoldExists
<1>2. it[{}] = base  BY <1>1 DEF Folds
<1>3. \A S \in SUBSET (1 .. n) : S # {} => it[S] = G[Max(S)][it[S \ {Max(S)}]]
  BY <1>1 DEF Folds
<1> DEFINE f == [k \in 0 .. n |-> it[1 .. k]]
<1>4. f \in [0 .. n -> T]
  <2>1. \A k \in 0 .. n : 1 .. k \in SUBSET (1 .. n)  OBVIOUS
  <2> QED  BY <2>1
<1>5. f[0] = base
  <2>1. 1 .. 0 = {}  OBVIOUS
  <2> QED  BY <1>2, <2>1
<1>6. ASSUME NEW k \in 1 .. n  PROVE f[k] = G[k][f[k - 1]]
  <2>1. f[k - 1] = it[1 .. k - 1] /\ f[k] = it[1 .. k]  OBVIOUS
  <2>2. PICK D : D = 1 .. k  OBVIOUS
  <2>3. /\ D \in SUBSET (1 .. n) /\ D # {} /\ Max(D) = k /\ D \ {k} = 1 .. k - 1
    BY <2>2, MaxUpTo
  <2>4. it[D] = G[Max(D)][it[D \ {Max(D)}]]  BY <1>3, <2>3
  <2> QED  BY <2>1, <2>2, <2>3, <2>4
<1> HIDE DEF f
<1> QED  BY <1>4, <1>5, <1>6 DEF Steps

\* A fold over a sequence, with its operator as a function.
RunOf(op, base, s) ==
    LET run[k \in 0 .. Len(s)] == IF k = 0 THEN base ELSE op[s[k]][run[k - 1]]
    IN  run[Len(s)]

\* The same, one element after the other: f[k] is what the first k make of base.
Runs(f, T, op, base, s) ==
    /\ f \in [0 .. Len(s) -> T]
    /\ f[0] = base /\ f[Len(s)] = RunOf(op, base, s)
    /\ \A k \in 1 .. Len(s) : f[k] = op[s[k]][f[k - 1]]

LEMMA RunSteps ==
    ASSUME NEW T, NEW X, NEW op \in [X -> [T -> T]], NEW base \in T, NEW s \in Seq(X)
    PROVE  \E f : Runs(f, T, op, base, s)
<1> DEFINE n == Len(s)
           G == [k \in 1 .. n |-> op[s[k]]]
           Body(f) == [k \in 0 .. n |-> IF k = 0 THEN base ELSE op[s[k]][f[k - 1]]]
           f == CHOOSE f : f = Body(f)
<1>1. n \in Nat /\ \A k \in 1 .. n : s[k] \in X  OBVIOUS
<1>2. RunOf(op, base, s) = f[n]  BY Zenon DEF RunOf
<1> HIDE DEF n
<1>3. \A k \in 1 .. n : op[s[k]] \in [T -> T] /\ \A t \in T : op[s[k]][t] \in T  BY <1>1
<1>4. G \in [1 .. n -> [T -> T]] /\ \A t \in T, k \in 1 .. n : G[k][t] = op[s[k]][t]
  BY <1>3
<1> HIDE DEF G
<1>5. PICK h \in [0 .. n -> T] : Steps(h, n, base, G)  BY <1>1, <1>4, StepsExist
<1>6. h = Body(h)
  <2>1. \A k \in 1 .. n : h[k - 1] \in T /\ h[k] = op[s[k]][h[k - 1]]
    BY <1>1, <1>4, <1>5 DEF Steps
  <2> QED  BY <1>1, <1>5, <2>1 DEF Steps
<1>7. f = Body(f)
  <2> HIDE DEF Body
  <2> QED  BY <1>6
<1> HIDE DEF f
<1>8. f[0] = base /\ \A k \in 1 .. n : f[k] = op[s[k]][f[k - 1]]  BY <1>1, <1>7
<1> DEFINE P == {k \in 0 .. n : f[k] \in T}
<1>9. \A k \in 0 .. n : k \in P
  <2>1. 0 \in P  BY <1>1, <1>8
  <2>2. ASSUME NEW k \in 1 .. n, k - 1 \in P  PROVE k \in P
    BY <1>1, <1>3, <1>8, <2>2
  <2> HIDE DEF P
  <2> QED  BY <1>1, <2>1, <2>2, UpTo
<1>10. f \in [0 .. n -> T]  BY <1>7, <1>9
<1> QED  BY <1>2, <1>8, <1>10 DEF Runs, n

LEMMA RunType ==
    ASSUME NEW T, NEW X, NEW op \in [X -> [T -> T]]
    PROVE  \A base \in T, s \in Seq(X) : RunOf(op, base, s) \in T
<1> SUFFICES ASSUME NEW base \in T, NEW s \in Seq(X)  PROVE RunOf(op, base, s) \in T
  OBVIOUS
<1>1. PICK f : Runs(f, T, op, base, s)  BY RunSteps
<1>2. PICK n \in Nat : n = Len(s)  OBVIOUS
<1>3. f \in [0 .. n -> T] /\ f[n] = RunOf(op, base, s)  BY <1>1, <1>2 DEF Runs
<1> QED  BY <1>3

LEMMA RunEmpty ==
    ASSUME NEW T, NEW X, NEW op \in [X -> [T -> T]]
    PROVE  \A base \in T : RunOf(op, base, <<>>) = base
<1> SUFFICES ASSUME NEW base \in T  PROVE RunOf(op, base, <<>>) = base  OBVIOUS
<1>1. PICK e : e = <<>>  OBVIOUS
<1>2. e \in Seq(X) /\ Len(e) = 0  BY <1>1
<1>3. PICK f : Runs(f, T, op, base, e)  BY <1>2, RunSteps
<1>4. f[0] = base /\ f[0] = RunOf(op, base, e)  BY <1>2, <1>3 DEF Runs
<1> QED  BY <1>1, <1>4

LEMMA RunAppend ==
    ASSUME NEW T, NEW X, NEW op \in [X -> [T -> T]]
    PROVE  \A base \in T, s \in Seq(X), x \in X :
              RunOf(op, base, Append(s, x)) = op[x][RunOf(op, base, s)]
<1> SUFFICES ASSUME NEW base \in T, NEW s \in Seq(X), NEW x \in X
             PROVE  RunOf(op, base, Append(s, x)) = op[x][RunOf(op, base, s)]
  OBVIOUS
<1>1. PICK n \in Nat : n = Len(s)  OBVIOUS
<1>2. PICK t : t = Append(s, x)  OBVIOUS
<1>3. t \in Seq(X) /\ Len(t) = n + 1 /\ t[n + 1] = x /\ \A k \in 1 .. n : t[k] = s[k]
  BY <1>1, <1>2
<1>4. PICK f : Runs(f, T, op, base, s)  BY RunSteps
<1>5. PICK g : Runs(g, T, op, base, t)  BY <1>3, RunSteps
<1>6. /\ f[0] = base /\ f[n] = RunOf(op, base, s)
      /\ \A k \in 1 .. n : f[k] = op[s[k]][f[k - 1]]
  BY <1>1, <1>4 DEF Runs
<1>7. /\ g[0] = base /\ g[n + 1] = RunOf(op, base, t)
      /\ \A k \in 1 .. n + 1 : g[k] = op[t[k]][g[k - 1]]
  BY <1>3, <1>5 DEF Runs
<1> DEFINE P == {k \in 0 .. n : f[k] = g[k]}
<1>8. 0 \in P  BY <1>6, <1>7
<1>9. ASSUME NEW k \in 1 .. n, k - 1 \in P  PROVE k \in P
  <2>1. f[k - 1] = g[k - 1] /\ k \in 0 .. n /\ k \in 1 .. n + 1 /\ s[k] = t[k]
    BY <1>3, <1>9
  <2>2. f[k] = g[k]  BY <1>6, <1>7, <2>1
  <2> QED  BY <2>1, <2>2
<1> HIDE DEF P
<1>10. n \in P
  <2>1. \A k \in 0 .. n : k \in P  BY <1>8, <1>9, UpTo
  <2> QED  BY <2>1
<1>11. f[n] = g[n] /\ n + 1 \in 1 .. n + 1 /\ (n + 1) - 1 = n  BY <1>10 DEF P
<1>12. g[n + 1] = op[x][f[n]]  BY <1>3, <1>7, <1>11
<1> QED  BY <1>2, <1>6, <1>7, <1>12

\* What FoldLeft chooses, if its operator is op on T and X; it[D] is the fold over
\* the elements at the places in D.
FoldOf(it, T, X, op, base, s) ==
    /\ it \in [SUBSET (DOMAIN s) -> T]
    /\ \A D \in SUBSET (DOMAIN s) :
          /\ D # {} => /\ Max(D) \in DOMAIN s /\ s[Max(D)] \in X
                       /\ D \ {Max(D)} \in SUBSET (DOMAIN s)
          /\ it[D] = IF D = {} THEN base ELSE op[s[Max(D)]][it[D \ {Max(D)}]]

LEMMA FoldFun ==
    ASSUME NEW T, NEW X, NEW op \in [X -> [T -> T]]
    PROVE  \A base \in T, s \in Seq(X) : \E it : FoldOf(it, T, X, op, base, s)
<1> SUFFICES ASSUME NEW base \in T, NEW s \in Seq(X)
             PROVE  \E it : FoldOf(it, T, X, op, base, s)
  OBVIOUS
<1>1. PICK n \in Nat : n = Len(s)  OBVIOUS
<1>2. DOMAIN s = 1 .. n /\ \A k \in 1 .. n : s[k] \in X  BY <1>1
<1> DEFINE G == [k \in 1 .. n |-> op[s[k]]]
<1>3. G \in [1 .. n -> [T -> T]] /\ \A t \in T, k \in 1 .. n : G[k][t] = op[s[k]][t]
  BY <1>2
<1> HIDE DEF G
<1>4. PICK it \in [SUBSET (1 .. n) -> T] : Folds(it, n, base, G)  BY <1>3, FoldExists
<1>5. ASSUME NEW D \in SUBSET (1 .. n)
      PROVE  /\ D # {} => Max(D) \in 1 .. n /\ s[Max(D)] \in X /\ D \ {Max(D)} \in SUBSET (1 .. n)
             /\ it[D] = IF D = {} THEN base ELSE op[s[Max(D)]][it[D \ {Max(D)}]]
  <2>1. CASE D = {}  BY <1>4, <2>1 DEF Folds
  <2>2. CASE D # {}
    <3>1. Max(D) \in D  BY <2>2, MaxOf, Zenon
    <3>2. PICK m : m = Max(D)  OBVIOUS
    <3>3. m \in 1 .. n /\ D \ {m} \in SUBSET (1 .. n) /\ s[m] \in X  BY <1>2, <3>1, <3>2
    <3>4. it[D] = G[m][it[D \ {m}]]  BY <1>4, <2>2, <3>2 DEF Folds
    <3>5. it[D \ {m}] \in T  BY <1>4, <3>3
    <3> QED  BY <1>3, <2>2, <3>2, <3>3, <3>4, <3>5
  <2> QED  BY <2>1, <2>2
<1> QED  BY <1>2, <1>4, <1>5 DEF FoldOf

\* The same, as far as it is known before it is known to be in T.
FoldsAs(it, T, X, op, base, s) ==
    /\ it[{}] = base
    /\ \A D \in SUBSET (DOMAIN s) : D # {} /\ s[Max(D)] \in X /\ it[D \ {Max(D)}] \in T =>
          it[D] = op[s[Max(D)]][it[D \ {Max(D)}]]

LEMMA FoldRun ==
    ASSUME NEW T, NEW X, NEW op \in [X -> [T -> T]]
    PROVE  \A base \in T, s \in Seq(X) : \A it :
              FoldsAs(it, T, X, op, base, s) => it[DOMAIN s] = RunOf(op, base, s)
<1> SUFFICES ASSUME NEW base \in T, NEW s \in Seq(X), NEW it, FoldsAs(it, T, X, op, base, s)
             PROVE  it[DOMAIN s] = RunOf(op, base, s)
  OBVIOUS
<1>0. /\ it[{}] = base
      /\ \A D \in SUBSET (DOMAIN s) : D # {} /\ s[Max(D)] \in X /\ it[D \ {Max(D)}] \in T =>
            it[D] = op[s[Max(D)]][it[D \ {Max(D)}]]
  BY DEF FoldsAs
<1>1. PICK n \in Nat : n = Len(s)  OBVIOUS
<1>2. DOMAIN s = 1 .. n /\ \A k \in 1 .. n : s[k] \in X  BY <1>1
<1> DEFINE G == [k \in 1 .. n |-> op[s[k]]]
<1>3. G \in [1 .. n -> [T -> T]] /\ \A t \in T, k \in 1 .. n : G[k][t] = op[s[k]][t]
  BY <1>2
<1> HIDE DEF G
<1>4. ASSUME NEW D \in SUBSET (1 .. n), D # {}, it[D \ {Max(D)}] \in T
      PROVE  it[D] = G[Max(D)][it[D \ {Max(D)}]]
  <2>1. Max(D) \in D  BY <1>4, MaxOf, Zenon
  <2>2. Max(D) \in 1 .. n  BY <2>1
  <2> QED  BY <1>0, <1>2, <1>3, <1>4, <2>2
<1>5. PICK f \in [0 .. n -> T] : f[n] = it[1 .. n] /\ Steps(f, n, base, G)
  <2>1. \A S \in SUBSET (1 .. n) : S # {} /\ it[S \ {Max(S)}] \in T =>
            it[S] = G[Max(S)][it[S \ {Max(S)}]]
    BY <1>4
  <2>2. it[{}] = base /\ G \in [1 .. n -> [T -> T]]  BY <1>0, <1>3
  <2> QED  BY <2>1, <2>2, FoldSteps
<1>6. PICK g : Runs(g, T, op, base, s)  BY RunSteps
<1>7. f[0] = base /\ \A k \in 1 .. n : f[k - 1] \in T /\ f[k] = op[s[k]][f[k - 1]]
  BY <1>3, <1>5 DEF Steps
<1>8. /\ g[0] = base /\ g[n] = RunOf(op, base, s)
      /\ \A k \in 1 .. n : g[k] = op[s[k]][g[k - 1]]
  BY <1>1, <1>6 DEF Runs
<1> DEFINE P == {k \in 0 .. n : f[k] = g[k]}
<1>9. 0 \in P  BY <1>7, <1>8
<1>10. ASSUME NEW k \in 1 .. n, k - 1 \in P  PROVE k \in P
  <2>1. f[k - 1] = g[k - 1] /\ k \in 0 .. n  BY <1>10
  <2>2. f[k] = g[k]  BY <1>7, <1>8, <2>1
  <2> QED  BY <2>1, <2>2
<1> HIDE DEF P
<1>11. n \in P
  <2>1. \A k \in 0 .. n : k \in P  BY <1>9, <1>10, UpTo
  <2> QED  BY <2>1
<1> QED  BY <1>2, <1>5, <1>8, <1>11 DEF P

\* Only, one element after the other: f[k] is what it has kept of the first k.
Keeps(f, X, s, S) ==
    /\ f \in [0 .. Len(s) -> Seq(X)]
    /\ f[0] = <<>> /\ f[Len(s)] = Only(s, S)
    /\ \A k \in 1 .. Len(s) :
          f[k] = IF s[k] \in S THEN Append(f[k - 1], s[k]) ELSE f[k - 1]

LEMMA OnlySteps ==
    ASSUME NEW X, NEW s \in Seq(X), NEW S
    PROVE  \E f : Keeps(f, X, s, S)
<1> DEFINE n == Len(s)
           T == Seq(X)
           Keep(t, x) == IF x \in S THEN Append(t, x) ELSE t
           G == [k \in 1 .. n |-> [t \in T |-> Keep(t, s[k])]]
           Body(f) == [k \in 0 .. n |-> IF k = 0 THEN <<>> ELSE Keep(f[k - 1], s[k])]
           f == CHOOSE f : f = Body(f)
<1>1. n \in Nat /\ <<>> \in T  OBVIOUS
<1>2. \A t \in T, k \in 1 .. n : Keep(t, s[k]) \in T  OBVIOUS
<1>3. Only(s, S) = f[n]  BY Zenon DEF Only
<1> HIDE DEF n, T, Keep
<1>4. G \in [1 .. n -> [T -> T]] /\ \A t \in T, k \in 1 .. n : G[k][t] = Keep(t, s[k])
  BY <1>2
<1> HIDE DEF G
<1>5. PICK h \in [0 .. n -> T] : Steps(h, n, <<>>, G)
  BY <1>1, <1>4, StepsExist
<1>6. h = Body(h)
  <2>1. \A k \in 1 .. n : h[k - 1] \in T /\ h[k] = Keep(h[k - 1], s[k])
    BY <1>1, <1>4, <1>5 DEF Steps
  <2> QED  BY <1>1, <1>5, <2>1 DEF Steps
<1>7. f = Body(f)
  <2> HIDE DEF Body
  <2> QED  BY <1>6
<1> HIDE DEF f
<1>8. f[0] = <<>> /\ \A k \in 1 .. n : f[k] = Keep(f[k - 1], s[k])  BY <1>1, <1>7
<1> DEFINE P == {k \in 0 .. n : f[k] \in T}
<1>9. \A k \in 0 .. n : k \in P
  <2>1. 0 \in P  BY <1>1, <1>8
  <2>2. ASSUME NEW k \in 1 .. n, k - 1 \in P  PROVE k \in P
    BY <1>1, <1>2, <1>8, <2>2
  <2> HIDE DEF P
  <2> QED  BY <1>1, <2>1, <2>2, UpTo
<1>10. f \in [0 .. n -> T]  BY <1>7, <1>9
<1> QED  BY <1>3, <1>8, <1>10 DEF Keeps, n, T, Keep

LEMMA OnlyAppend ==
    ASSUME NEW X, NEW S
    PROVE  \A s \in Seq(X), x \in X :
              Only(Append(s, x), S) = IF x \in S THEN Append(Only(s, S), x) ELSE Only(s, S)
<1> SUFFICES ASSUME NEW s \in Seq(X), NEW x \in X
             PROVE  Only(Append(s, x), S) =
                        IF x \in S THEN Append(Only(s, S), x) ELSE Only(s, S)
  OBVIOUS
<1> DEFINE n == Len(s)
           t == Append(s, x)
<1>1. /\ n \in Nat /\ t \in Seq(X) /\ Len(t) = n + 1 /\ t[n + 1] = x
      /\ \A k \in 1 .. n : t[k] = s[k]
  OBVIOUS
<1> HIDE DEF t
<1>2. PICK f : Keeps(f, X, s, S)  BY OnlySteps
<1>3. PICK g : Keeps(g, X, t, S)  BY <1>1, OnlySteps
<1> HIDE DEF n
<1>4. /\ f \in [0 .. n -> Seq(X)] /\ f[0] = <<>> /\ f[n] = Only(s, S)
      /\ \A k \in 1 .. n : f[k] = IF s[k] \in S THEN Append(f[k - 1], s[k]) ELSE f[k - 1]
  BY <1>2 DEF Keeps, n
<1>5. /\ g[0] = <<>> /\ g[n + 1] = Only(t, S)
      /\ \A k \in 1 .. n + 1 : g[k] = IF t[k] \in S THEN Append(g[k - 1], t[k]) ELSE g[k - 1]
  BY <1>1, <1>3 DEF Keeps
<1> DEFINE P == {j \in 0 .. n : f[j] = g[j]}
<1>6. 0 \in P  BY <1>1, <1>4, <1>5
<1>7. ASSUME NEW k \in 1 .. n, k - 1 \in P  PROVE k \in P
  <2>1. f[k - 1] = g[k - 1] /\ k \in 0 .. n /\ k \in 1 .. n + 1 /\ s[k] = t[k]
    BY <1>1, <1>7
  <2>2. f[k] = g[k]  BY <1>4, <1>5, <2>1
  <2> QED  BY <2>1, <2>2
<1> HIDE DEF P
<1>8. n \in P
  <2>1. \A k \in 0 .. n : k \in P  BY <1>1, <1>6, <1>7, UpTo
  <2> QED  BY <1>1, <2>1
<1>9. f[n] = g[n] /\ n \in 0 .. n /\ n + 1 \in 1 .. n + 1 /\ (n + 1) - 1 = n
  BY <1>1, <1>8 DEF P
<1>10. g[n + 1] = IF x \in S THEN Append(f[n], x) ELSE f[n]  BY <1>1, <1>5, <1>9
<1> QED  BY <1>4, <1>5, <1>9, <1>10 DEF t

LEMMA OnlyEmpty ==
    ASSUME NEW S
    PROVE  Only(<<>>, S) = <<>>
<1>1. <<>> \in Seq({}) /\ Len(<<>>) = 0  OBVIOUS
<1> DEFINE e == <<>>
<1> HIDE DEF e
<1>2. e \in Seq({}) /\ Len(e) = 0  BY <1>1 DEF e
<1>3. PICK f : Keeps(f, {}, e, S)  BY <1>2, OnlySteps
<1>4. f[0] = <<>> /\ f[0] = Only(e, S)  BY <1>2, <1>3 DEF Keeps
<1> QED  BY <1>4 DEF e

\* Induction on the length of a sequence: Q is the set of those it holds of.
LEMMA ByAppend ==
    ASSUME NEW X, NEW Q, <<>> \in Q,
           \A s \in Seq(X), x \in X : s \in Q => Append(s, x) \in Q
    PROVE  \A s \in Seq(X) : s \in Q
<1> SUFFICES ASSUME NEW s \in Seq(X)  PROVE s \in Q  OBVIOUS
<1> DEFINE n == Len(s)
           F(k) == SubSeq(s, 1, k)
           P == {k \in 0 .. n : F(k) \in Q}
<1>1. F(0) = <<>> /\ F(n) = s /\ n \in Nat  OBVIOUS
<1>2. ASSUME NEW k \in 1 .. n
      PROVE  F(k - 1) \in Seq(X) /\ s[k] \in X /\ F(k) = Append(F(k - 1), s[k])
  OBVIOUS
<1> HIDE DEF F, n
<1>3. 0 \in P  BY <1>1
<1>4. ASSUME NEW k \in 1 .. n, k - 1 \in P  PROVE k \in P
  <2>1. F(k - 1) \in Q  BY <1>4
  <2>2. F(k) \in Q  BY <1>2, <2>1
  <2> QED  BY <1>1, <2>2
<1> HIDE DEF P
<1>5. n \in P
  <2>1. \A k \in 0 .. n : k \in P  BY <1>1, <1>3, <1>4, UpTo
  <2> QED  BY <1>1, <2>1
<1> QED  BY <1>1, <1>5 DEF P

-----------------------------------------------------------------------------
(* What Only keeps.                                                         *)

LEMMA OnlyType ==
    ASSUME NEW X, NEW s \in Seq(X), NEW S
    PROVE  Only(s, S) \in Seq(X)
<1>1. PICK f : Keeps(f, X, s, S)  BY OnlySteps
<1> DEFINE n == Len(s)
<1>2. n \in Nat /\ f \in [0 .. n -> Seq(X)] /\ f[n] = Only(s, S)  BY <1>1 DEF Keeps
<1> HIDE DEF n
<1> QED  BY <1>2

LEMMA AppendConcat ==
    ASSUME NEW X
    PROVE  \A s, t \in Seq(X), x \in X : s \o Append(t, x) = Append(s \o t, x)
OBVIOUS

LEMMA RunConcat ==
    ASSUME NEW T, NEW X, NEW op \in [X -> [T -> T]]
    PROVE  \A base \in T, s \in Seq(X), t \in Seq(X) :
              RunOf(op, base, s \o t) = RunOf(op, RunOf(op, base, s), t)
<1> SUFFICES ASSUME NEW base \in T, NEW s \in Seq(X), NEW t \in Seq(X)
             PROVE  RunOf(op, base, s \o t) = RunOf(op, RunOf(op, base, s), t)
  OBVIOUS
<1>1. PICK a \in T : a = RunOf(op, base, s)  BY RunType
<1> DEFINE Q == {u \in Seq(X) : RunOf(op, base, s \o u) = RunOf(op, a, u)}
<1>2. <<>> \in Q
  <2>1. <<>> \in Seq(X) /\ s \o <<>> = s  OBVIOUS
  <2>2. RunOf(op, a, <<>>) = a  BY RunEmpty
  <2> QED  BY <1>1, <2>1, <2>2
<1>3. ASSUME NEW u \in Seq(X), NEW x \in X, u \in Q  PROVE Append(u, x) \in Q
  <2>1. PICK v : v = s \o u  OBVIOUS
  <2>2. v \in Seq(X) /\ s \o Append(u, x) = Append(v, x)  BY <2>1, AppendConcat
  <2>3. RunOf(op, base, v) = RunOf(op, a, u)  BY <1>3, <2>1
  <2> HIDE DEF Q
  <2>4. \A b \in T, w \in Seq(X), y \in X : RunOf(op, b, Append(w, y)) = op[y][RunOf(op, b, w)]
    BY RunAppend
  <2>5. /\ RunOf(op, base, Append(v, x)) = op[x][RunOf(op, base, v)]
        /\ RunOf(op, a, Append(u, x)) = op[x][RunOf(op, a, u)]
    BY <2>2, <2>4, Zenon
  <2>6. Append(u, x) \in Seq(X)  OBVIOUS
  <2> QED  BY <2>2, <2>3, <2>5, <2>6 DEF Q
<1> HIDE DEF Q
<1>4. t \in Q  BY <1>2, <1>3, ByAppend
<1> QED  BY <1>1, <1>4 DEF Q

LEMMA OnlyConcat ==
    ASSUME NEW X, NEW s \in Seq(X), NEW t \in Seq(X), NEW S
    PROVE  Only(s \o t, S) = Only(s, S) \o Only(t, S)
<1> DEFINE Q == {u \in Seq(X) : Only(s \o u, S) = Only(s, S) \o Only(u, S)}
<1>1. <<>> \in Q
  <2>1. <<>> \in Seq(X) /\ s \o <<>> = s  OBVIOUS
  <2>2. Only(s, S) \o <<>> = Only(s, S)  BY OnlyType
  <2> QED  BY <2>1, <2>2, OnlyEmpty
<1>2. ASSUME NEW u \in Seq(X), NEW x \in X, u \in Q  PROVE Append(u, x) \in Q
  <2>1. PICK v, a, b : v = s \o u /\ a = Only(s, S) /\ b = Only(u, S)  OBVIOUS
  <2>2. v \in Seq(X) /\ a \in Seq(X) /\ b \in Seq(X)
    BY <2>1, OnlyType
  <2>3. s \o Append(u, x) = Append(v, x)  BY <2>1, AppendConcat
  <2>4. Only(v, S) = a \o b  BY <1>2, <2>1
  <2> HIDE DEF Q
  <2>5. Only(Append(v, x), S) = IF x \in S THEN Append(Only(v, S), x) ELSE Only(v, S)
    BY <2>2, OnlyAppend
  <2>6. Only(Append(u, x), S) = IF x \in S THEN Append(b, x) ELSE b
    BY <2>1, OnlyAppend
  <2>7. Append(a \o b, x) = a \o Append(b, x)
    <3>1. \A c, d \in Seq(X), y \in X : c \o Append(d, y) = Append(c \o d, y)
      BY AppendConcat
    <3>2. a \in Seq(X) /\ b \in Seq(X)  BY <2>2
    <3> QED  BY <3>1, <3>2, Zenon
  <2>8. Only(s \o Append(u, x), S) = a \o Only(Append(u, x), S)
    BY <2>3, <2>4, <2>5, <2>6, <2>7
  <2>9. Append(u, x) \in Seq(X)  OBVIOUS
  <2> QED  BY <2>1, <2>8, <2>9 DEF Q
<1> HIDE DEF Q
<1>3. t \in Q  BY <1>1, <1>2, ByAppend
<1> QED  BY <1>3 DEF Q

\* What is kept is what was there, and in S.
LEMMA OnlyMembers ==
    ASSUME NEW X, NEW s \in Seq(X), NEW S
    PROVE  \A x : (\E i \in 1 .. Len(Only(s, S)) : Only(s, S)[i] = x)
                    <=> x \in S /\ \E i \in 1 .. Len(s) : s[i] = x
<1> DEFINE In(u, x) == \E i \in 1 .. Len(u) : u[i] = x
           Q == {u \in Seq(X) : \A x : In(Only(u, S), x) <=> x \in S /\ In(u, x)}
<1>1. <<>> \in Q  BY OnlyEmpty
<1>2. ASSUME NEW u \in Seq(X), NEW y \in X  PROVE \A x : In(Append(u, y), x) <=> In(u, x) \/ x = y
  <2>1. /\ Len(Append(u, y)) = Len(u) + 1 /\ Append(u, y)[Len(u) + 1] = y
        /\ \A i \in 1 .. Len(u) : Append(u, y)[i] = u[i]
        /\ Len(u) \in Nat
    OBVIOUS
  <2>2. Len(u) + 1 \in 1 .. Len(Append(u, y))  BY <2>1
  <2>3. \A i \in 1 .. Len(u) : i \in 1 .. Len(Append(u, y))  BY <2>1
  <2>4. \A i \in 1 .. Len(Append(u, y)) : i \in 1 .. Len(u) \/ i = Len(u) + 1  BY <2>1
  <2> QED  BY <2>1, <2>2, <2>3, <2>4
<1>3. ASSUME NEW u \in Seq(X), NEW y \in X, u \in Q  PROVE Append(u, y) \in Q
  <2>1. Append(u, y) \in Seq(X) /\ Only(u, S) \in Seq(X)  BY OnlyType
  <2>2. \A x : In(Only(u, S), x) <=> x \in S /\ In(u, x)  BY <1>3
  <2>3. \A x : In(Append(u, y), x) <=> In(u, x) \/ x = y  BY <1>2
  <2>4. \A x : In(Append(Only(u, S), y), x) <=> In(Only(u, S), x) \/ x = y  BY <1>2, <2>1
  <2>5. Only(Append(u, y), S) = IF y \in S THEN Append(Only(u, S), y) ELSE Only(u, S)
    BY OnlyAppend
  <2> HIDE DEF In
  <2>6. \A x : In(Only(Append(u, y), S), x) <=> x \in S /\ In(Append(u, y), x)
    <3>1. CASE y \in S  BY <2>2, <2>3, <2>4, <2>5, <3>1
    <3>2. CASE y \notin S  BY <2>2, <2>3, <2>5, <3>2
    <3> QED  BY <3>1, <3>2
  <2> QED  BY <2>1, <2>6
<1> HIDE DEF Q
<1>4. s \in Q  BY <1>1, <1>3, ByAppend
<1> QED  BY <1>4 DEF Q

\* All is kept if all is in S.
LEMMA OnlyAll ==
    ASSUME NEW X, NEW s \in Seq(X), NEW S, \A i \in 1 .. Len(s) : s[i] \in S
    PROVE  Only(s, S) = s
<1>1. PICK f : Keeps(f, X, s, S)  BY OnlySteps
<1> DEFINE n == Len(s)
           F(k) == SubSeq(s, 1, k)
           P == {k \in 0 .. n : f[k] = F(k)}
<1>2. F(0) = <<>> /\ F(n) = s /\ n \in Nat  OBVIOUS
<1>3. \A k \in 1 .. n : F(k) = Append(F(k - 1), s[k])  OBVIOUS
<1>4. /\ f[0] = <<>> /\ f[n] = Only(s, S)
      /\ \A k \in 1 .. n : f[k] = Append(f[k - 1], s[k])
  BY <1>1 DEF Keeps
<1> HIDE DEF F, n
<1>5. 0 \in P  BY <1>2, <1>4
<1>6. ASSUME NEW k \in 1 .. n, k - 1 \in P  PROVE k \in P
  <2>1. k \in 0 .. n /\ f[k - 1] = F(k - 1)  BY <1>2, <1>6
  <2> QED  BY <1>3, <1>4, <2>1
<1> HIDE DEF P
<1>7. n \in P
  <2>1. \A k \in 0 .. n : k \in P  BY <1>2, <1>5, <1>6, UpTo
  <2> QED  BY <1>2, <2>1
<1> QED  BY <1>2, <1>4, <1>7 DEF P

\* Nothing is kept if nothing is in S.
LEMMA OnlyNone ==
    ASSUME NEW X, NEW s \in Seq(X), NEW S, \A i \in 1 .. Len(s) : s[i] \notin S
    PROVE  Only(s, S) = <<>>
<1>1. Only(s, S) \in Seq(X)  BY OnlyType
<1>2. ASSUME NEW i \in 1 .. Len(Only(s, S))  PROVE FALSE
  <2>1. PICK x : x = Only(s, S)[i]  OBVIOUS
  <2>2. x \in S /\ \E j \in 1 .. Len(s) : s[j] = x  BY <2>1, OnlyMembers
  <2> QED  BY <2>2
<1>3. Len(Only(s, S)) \in Nat  BY <1>1
<1>4. Len(Only(s, S)) = 0  BY <1>2, <1>3
<1> QED  BY <1>1, <1>4

\* To keep those in S before keeping those in R takes nothing, if the elements that
\* are in R are in S.
LEMMA OnlyTwice ==
    ASSUME NEW X, NEW s \in Seq(X), NEW S, NEW R,
           \A i \in 1 .. Len(s) : s[i] \in R => s[i] \in S
    PROVE  Only(Only(s, S), R) = Only(s, R)
<1>1. PICK f : Keeps(f, X, s, S)  BY OnlySteps
<1>2. PICK g : Keeps(g, X, s, R)  BY OnlySteps
<1> DEFINE n == Len(s)
           P == {k \in 0 .. n : Only(f[k], R) = g[k]}
<1>3. n \in Nat /\ \A k \in 1 .. n : s[k] \in X  OBVIOUS
<1>4. /\ f \in [0 .. n -> Seq(X)]
      /\ f[0] = <<>> /\ f[n] = Only(s, S) /\ g[0] = <<>> /\ g[n] = Only(s, R)
  BY <1>1, <1>2 DEF Keeps
<1>5. /\ \A k \in 1 .. n : f[k] = IF s[k] \in S THEN Append(f[k - 1], s[k]) ELSE f[k - 1]
      /\ \A k \in 1 .. n : g[k] = IF s[k] \in R THEN Append(g[k - 1], s[k]) ELSE g[k - 1]
  BY <1>1, <1>2 DEF Keeps
<1>6. \A k \in 1 .. n : s[k] \in R => s[k] \in S  OBVIOUS
<1> HIDE DEF n
<1>7. 0 \in P  BY <1>3, <1>4, OnlyEmpty
<1>8. ASSUME NEW k \in 1 .. n, k - 1 \in P  PROVE k \in P
  <2>1. Only(f[k - 1], R) = g[k - 1] /\ f[k - 1] \in Seq(X) /\ k \in 0 .. n  BY <1>3, <1>4, <1>8
  <2>2. Only(Append(f[k - 1], s[k]), R) =
            IF s[k] \in R THEN Append(Only(f[k - 1], R), s[k]) ELSE Only(f[k - 1], R)
    <3> DEFINE v == f[k - 1]
               x == s[k]
    <3>1. v \in Seq(X) /\ x \in X  BY <1>3, <2>1
    <3> HIDE DEF v, x
    <3>2. Only(Append(v, x), R) = IF x \in R THEN Append(Only(v, R), x) ELSE Only(v, R)
      BY <3>1, OnlyAppend
    <3> QED  BY <3>2 DEF v, x
  <2>3. Only(f[k], R) = g[k]  BY <1>5, <1>6, <2>1, <2>2
  <2> QED  BY <2>1, <2>3
<1> HIDE DEF P
<1>9. n \in P
  <2>1. \A k \in 0 .. n : k \in P  BY <1>3, <1>7, <1>8, UpTo
  <2> QED  BY <1>3, <2>1
<1> QED  BY <1>4, <1>9 DEF P

LEMMA OnlyShorter ==
    ASSUME NEW X, NEW s \in Seq(X), NEW S
    PROVE  Len(Only(s, S)) <= Len(s)
<1>1. PICK f : Keeps(f, X, s, S)  BY OnlySteps
<1> DEFINE n == Len(s)
           P == {k \in 0 .. n : Len(f[k]) <= k}
<1>2. n \in Nat /\ \A k \in 1 .. n : s[k] \in X  OBVIOUS
<1>3. /\ f \in [0 .. n -> Seq(X)] /\ f[0] = <<>> /\ f[n] = Only(s, S)
      /\ \A k \in 1 .. n : f[k] = IF s[k] \in S THEN Append(f[k - 1], s[k]) ELSE f[k - 1]
  BY <1>1 DEF Keeps
<1> HIDE DEF n
<1>4. 0 \in P  BY <1>2, <1>3
<1>5. ASSUME NEW k \in 1 .. n, k - 1 \in P  PROVE k \in P
  <2>1. f[k - 1] \in Seq(X) /\ Len(f[k - 1]) <= k - 1 /\ k \in 0 .. n  BY <1>2, <1>3, <1>5
  <2>2. Len(f[k]) <= k
    <3>1. PICK t, x : t = f[k - 1] /\ x = s[k]  OBVIOUS
    <3>2. t \in Seq(X) /\ x \in X /\ Len(t) \in Nat /\ Len(t) <= k - 1  BY <1>2, <2>1, <3>1
    <3>3. Len(Append(t, x)) = Len(t) + 1  BY <3>2
    <3>4. f[k] = Append(t, x) \/ f[k] = t  BY <1>3, <3>1
    <3> QED  BY <3>2, <3>3, <3>4
  <2> QED  BY <2>1, <2>2
<1> HIDE DEF P
<1>6. n \in P
  <2>1. \A k \in 0 .. n : k \in P  BY <1>2, <1>4, <1>5, UpTo
  <2> QED  BY <1>2, <2>1
<1> QED  BY <1>3, <1>6 DEF P, n

\* No element twice.
Distinct(s) == \A i, j \in 1 .. Len(s) : s[i] = s[j] => i = j

LEMMA DistinctAppend ==
    ASSUME NEW X
    PROVE  \A u \in Seq(X), x \in X :
              Distinct(Append(u, x)) <=> (Distinct(u) /\ \A i \in 1 .. Len(u) : u[i] # x)
<1> SUFFICES ASSUME NEW u \in Seq(X), NEW x \in X
             PROVE  Distinct(Append(u, x)) <=> Distinct(u) /\ \A i \in 1 .. Len(u) : u[i] # x
  OBVIOUS
<1>1. PICK n \in Nat : n = Len(u)  OBVIOUS
<1>2. PICK v : v = Append(u, x)  OBVIOUS
<1>3. Len(v) = n + 1 /\ v[n + 1] = x /\ \A i \in 1 .. n : v[i] = u[i]  BY <1>1, <1>2
<1>4. /\ \A i \in 1 .. n + 1 : i \in 1 .. n \/ i = n + 1
      /\ n + 1 \in 1 .. n + 1 /\ \A i \in 1 .. n : i \in 1 .. n + 1 /\ i # n + 1
  OBVIOUS
<1>5. Distinct(v) <=> \A i, j \in 1 .. n + 1 : v[i] = v[j] => i = j  BY <1>3 DEF Distinct
<1>6. Distinct(u) <=> \A i, j \in 1 .. n : u[i] = u[j] => i = j  BY <1>1 DEF Distinct
<1>7. ASSUME \A i, j \in 1 .. n + 1 : v[i] = v[j] => i = j
      PROVE  Distinct(u) /\ \A i \in 1 .. n : u[i] # x
  BY <1>3, <1>4, <1>6, <1>7
<1>8. ASSUME \A i, j \in 1 .. n : u[i] = u[j] => i = j, \A i \in 1 .. n : u[i] # x
      PROVE  \A i, j \in 1 .. n + 1 : v[i] = v[j] => i = j
  BY <1>3, <1>4, <1>8
<1> QED  BY <1>1, <1>2, <1>5, <1>6, <1>7, <1>8

LEMMA OnlyFrom ==
    ASSUME NEW X, NEW S
    PROVE  \A u \in Seq(X) : \A x :
              (\A i \in 1 .. Len(u) : u[i] # x) => \A i \in 1 .. Len(Only(u, S)) : Only(u, S)[i] # x
<1> SUFFICES ASSUME NEW u \in Seq(X)
             PROVE  \A x : (\A i \in 1 .. Len(u) : u[i] # x)
                             => \A i \in 1 .. Len(Only(u, S)) : Only(u, S)[i] # x
  OBVIOUS
<1>1. \A x : (\E i \in 1 .. Len(Only(u, S)) : Only(u, S)[i] = x)
                  <=> x \in S /\ \E i \in 1 .. Len(u) : u[i] = x
  BY OnlyMembers
<1> QED  BY <1>1, Zenon

LEMMA OnlyDistinct ==
    ASSUME NEW X, NEW s \in Seq(X), NEW S, Distinct(s)
    PROVE  Distinct(Only(s, S))
<1> DEFINE Q == {u \in Seq(X) : Distinct(u) => Distinct(Only(u, S))}
<1>1. <<>> \in Q
  <2>1. <<>> \in Seq(X) /\ Distinct(<<>>)  BY DEF Distinct
  <2> QED  BY <2>1, OnlyEmpty
<1>2. ASSUME NEW u \in Seq(X), NEW x \in X, u \in Q  PROVE Append(u, x) \in Q
  <2>1. PICK o : o = Only(u, S)  OBVIOUS
  <2>2. Append(u, x) \in Seq(X)  OBVIOUS
  <2>3. ASSUME Distinct(Append(u, x))  PROVE Distinct(Only(Append(u, x), S))
    <3>1. Distinct(u) /\ \A i \in 1 .. Len(u) : u[i] # x  BY <2>3, DistinctAppend
    <3>2. Distinct(o)  BY <1>2, <2>1, <3>1
    <3>3. Only(Append(u, x), S) = IF x \in S THEN Append(o, x) ELSE o  BY <2>1, OnlyAppend
    <3>4. \A i \in 1 .. Len(o) : o[i] # x  BY <2>1, <3>1, OnlyFrom
    <3>5. o \in Seq(X)  BY <2>1, OnlyType
    <3>6. Distinct(Append(o, x))  BY <3>2, <3>4, <3>5, DistinctAppend
    <3> QED  BY <3>2, <3>3, <3>6
  <2> QED  BY <2>2, <2>3
<1> HIDE DEF Q
<1>3. s \in Q  BY <1>1, <1>2, ByAppend
<1> QED  BY <1>3 DEF Q

=============================================================================
