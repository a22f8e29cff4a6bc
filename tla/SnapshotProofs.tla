--------------------------- MODULE SnapshotProofs ---------------------------
(***************************************************************************)
(* What the pure parts that components share compute, for inputs of every  *)
(* length: Combine, ladders of checks, loops, the sort, MatchAll,          *)
(* NewSnapshot.                                                            *)
(***************************************************************************)
EXTENDS Snapshot, ModelDecision, FiniteSetTheorems, FunctionTheorems, WellFoundedInduction, TLAPS

-----------------------------------------------------------------------------
(* What Combine selects, for lists of every length                         *)

(* A nonempty set of naturals has a least element.                         *)
LEMMA LeastNat ==
    ASSUME NEW S, S \subseteq Nat, S # {}
    PROVE  \E x \in S : \A y \in S : x <= y
<1> DEFINE R == OpToRel(<, Nat)
<1>1. IsWellFoundedOn(R, Nat)
  BY Zenon, NatLessThanWellFounded
<1>2. \A x, y \in Nat : x < y => <<x, y>> \in R
  BY Zenon DEF OpToRel
<1> HIDE DEF R
<1>3. PICK x \in S : \A y \in S : ~(<<y, x>> \in R)
  BY Zenon, <1>1, WFMin
<1>4. ASSUME NEW y \in S PROVE x <= y
  <2>1. x \in Nat /\ y \in Nat
    BY Zenon
  <2>2. ~(y < x)
    BY Zenon, <1>2, <1>3, <2>1
  <2> QED
    BY <2>1, <2>2
<1> QED
  BY Zenon, <1>4

(* Min, as loops that stop early use it, picks an element.                 *)
LEMMA MinOfNats ==
    ASSUME NEW S, S \subseteq Nat, S # {}
    PROVE  Min(S) \in S
BY Zenon, LeastNat DEF Min

(* Max, as loops that run to the end use it, picks the greatest element.   *)
LEMMA MaxOfRange ==
    ASSUME NEW n \in Nat, NEW S, S \subseteq 1..n, S # {}
    PROVE  Max(S) \in S /\ \A j \in S : Max(S) >= j
<1> DEFINE D == {n - i : i \in S}
<1>1. D \subseteq Nat /\ D # {}
  <2>1. PICK i \in S : TRUE
    BY Zenon
  <2>2. n - i \in D
    BY Zenon, <2>1
  <2>3. \A j \in S : n - j \in Nat
    OBVIOUS
  <2> QED
    BY Zenon, <2>2, <2>3
<1>2. PICK m \in D : \A d \in D : m <= d
  <2> HIDE DEF D
  <2> QED BY Zenon, <1>1, LeastNat
<1>3. PICK i \in S : m = n - i
  BY Zenon, <1>2
<1>4. ASSUME NEW j \in S PROVE i >= j
  <2>1. m <= n - j
    BY Zenon, <1>2
  <2>2. i \in 1..n /\ j \in 1..n
    BY Zenon
  <2> QED
    BY <1>3, <2>1, <2>2
<1> QED
  BY Zenon, <1>4 DEF Max

(* The loop of Combine returns one of its inputs or NotApplicable.         *)
LEMMA SelectPicks ==
    ASSUME NEW algorithm, NEW T, NEW decisions \in Seq(T)
    PROVE  \/ Select(algorithm, decisions) = NotApplicableDecision
           \/ \E k \in DOMAIN decisions : Select(algorithm, decisions) = decisions[k]
<1> DEFINE I == {i \in 1..Len(decisions) : IsDecisive(algorithm, decisions[i].outcome)}
           J == {i \in 1..Len(decisions) : decisions[i].outcome # "NotApplicable"}
<1>a. I \subseteq Nat /\ I \subseteq DOMAIN decisions
  OBVIOUS
<1>b. Len(decisions) \in Nat /\ J \subseteq 1..Len(decisions) /\ J \subseteq DOMAIN decisions
  OBVIOUS
<1>3. Select(algorithm, decisions) =
        CASE I # {} -> decisions[Min(I)]
          [] I = {} /\ J # {} -> decisions[Max(J)]
          [] OTHER -> NotApplicableDecision
  BY Zenon DEF Select
<1> HIDE DEF I, J
<1>1. I # {} => Min(I) \in DOMAIN decisions
  BY Zenon, <1>a, MinOfNats
<1>2. J # {} => Max(J) \in DOMAIN decisions
  BY Zenon, <1>b, MaxOfRange
<1> QED
  BY Zenon, <1>1, <1>2, <1>3

(* The loop of Combine stops at a decisive decision, else it returns an    *)
(* applicable one if there is any.                                         *)
LEMMA SelectCases ==
    ASSUME NEW algorithm, NEW T, NEW decisions \in Seq(T)
    PROVE  LET selected == Select(algorithm, decisions)
               Decisive(i) == IsDecisive(algorithm, decisions[i].outcome) IN
           \/ \E i \in DOMAIN decisions : Decisive(i) /\ selected = decisions[i]
           \/ /\ \A i \in DOMAIN decisions : ~Decisive(i)
              /\ \E i \in DOMAIN decisions :
                   decisions[i].outcome # "NotApplicable" /\ selected = decisions[i]
           \/ /\ \A i \in DOMAIN decisions :
                   ~Decisive(i) /\ decisions[i].outcome = "NotApplicable"
              /\ selected = NotApplicableDecision
<1> DEFINE I == {i \in 1..Len(decisions) : IsDecisive(algorithm, decisions[i].outcome)}
           J == {i \in 1..Len(decisions) : decisions[i].outcome # "NotApplicable"}
<1>1. /\ I \subseteq Nat /\ J \subseteq 1..Len(decisions)
      /\ DOMAIN decisions = 1..Len(decisions) /\ Len(decisions) \in Nat
      /\ 0 \notin I /\ 0 \notin J
  OBVIOUS
<1>2. /\ \A i \in I : i \in DOMAIN decisions /\ IsDecisive(algorithm, decisions[i].outcome)
      /\ \A i \in DOMAIN decisions : IsDecisive(algorithm, decisions[i].outcome) => i \in I
      /\ \A i \in J : i \in DOMAIN decisions /\ decisions[i].outcome # "NotApplicable"
      /\ \A i \in DOMAIN decisions : decisions[i].outcome # "NotApplicable" => i \in J
  BY Zenon, <1>1
<1>3. Select(algorithm, decisions) =
        CASE I # {} -> decisions[Min(I)]
          [] I = {} /\ J # {} -> decisions[Max(J)]
          [] OTHER -> NotApplicableDecision
  BY Zenon DEF Select
<1> HIDE DEF I, J
<1>4. I # {} => Min(I) \in I
  BY Zenon, <1>1, MinOfNats
<1>5. J # {} => Max(J) \in J
  BY Zenon, <1>1, MaxOfRange
<1>6. CASE I # {}
  <2>1. Select(algorithm, decisions) = decisions[Min(I)]
    BY Zenon, <1>1, <1>3, <1>4, <1>6
  <2> QED
    BY Zenon, <1>2, <1>4, <1>6, <2>1
<1>7. CASE I = {} /\ J # {}
  <2>1. Select(algorithm, decisions) = decisions[Max(J)]
    BY Zenon, <1>1, <1>3, <1>5, <1>7
  <2> QED
    BY Zenon, <1>2, <1>5, <1>7, <2>1
<1>8. CASE I = {} /\ J = {}
  <2>1. Select(algorithm, decisions) = NotApplicableDecision
    BY Zenon, <1>3, <1>8
  <2> QED
    BY Zenon, <1>2, <1>8, <2>1
<1> QED
  BY Zenon, <1>6, <1>7, <1>8

-----------------------------------------------------------------------------
(* Ladders of checks                                                       *)

(* Two checks return the error of the first that fails.                    *)
LEMMA TwoChecks ==
    ASSUME NEW a \in BOOLEAN, NEW b \in BOOLEAN, NEW x, NEW y
    PROVE  FirstError(<< <<a, x>>, <<b, y>> >>) = IF a THEN x ELSE IF b THEN y ELSE "none"
<1> DEFINE checks == << <<a, x>>, <<b, y>> >>
           I == {i \in 1..Len(checks) : checks[i][1]}
<1>1. /\ Len(checks) = 2 /\ checks[1][1] = a /\ checks[2][1] = b
      /\ checks[1][2] = x /\ checks[2][2] = y
  BY Zenon
<1>2. FirstError(checks) =
        IF I = {} THEN "none" ELSE checks[Min(I)][2]
  BY Zenon DEF FirstError
<1>3. \A i : i \in I <=> i \in 1..2 /\ checks[i][1]
  BY Zenon, <1>1
<1> HIDE DEF checks, I
<1>4. /\ \A i \in I : i = 1 \/ i = 2
      /\ 1 \in I <=> a
      /\ 2 \in I <=> b
  BY <1>1, <1>3
<1>5. I # {} => Min(I) \in I /\ \A i \in I : Min(I) <= i
  BY <1>4, LeastNat DEF Min
<1> QED
  BY <1>1, <1>2, <1>4, <1>5 DEF checks

(* Three checks return the error of the first that fails.                  *)
LEMMA ThreeChecks ==
    ASSUME NEW a \in BOOLEAN, NEW b \in BOOLEAN, NEW c \in BOOLEAN, NEW x, NEW y, NEW z
    PROVE  FirstError(<< <<a, x>>, <<b, y>>, <<c, z>> >>) =
             IF a THEN x ELSE IF b THEN y ELSE IF c THEN z ELSE "none"
<1> DEFINE checks == << <<a, x>>, <<b, y>>, <<c, z>> >>
           I == {i \in 1..Len(checks) : checks[i][1]}
<1>1. /\ Len(checks) = 3
      /\ checks[1][1] = a /\ checks[2][1] = b /\ checks[3][1] = c
      /\ checks[1][2] = x /\ checks[2][2] = y /\ checks[3][2] = z
  BY Zenon
<1>2. FirstError(checks) =
        IF I = {} THEN "none" ELSE checks[Min(I)][2]
  BY Zenon DEF FirstError
<1>3. \A i : i \in I <=> i \in 1..3 /\ checks[i][1]
  BY Zenon, <1>1
<1> HIDE DEF checks, I
<1>4. /\ \A i \in I : i = 1 \/ i = 2 \/ i = 3
      /\ 1 \in I <=> a
      /\ 2 \in I <=> b
      /\ 3 \in I <=> c
  BY <1>1, <1>3
<1>5. I # {} => Min(I) \in I /\ \A i \in I : Min(I) <= i
  BY <1>4, LeastNat DEF Min
<1> QED
  BY <1>1, <1>2, <1>4, <1>5 DEF checks

-----------------------------------------------------------------------------
(* Recursion                                                               *)

(* A set of naturals that holds 0 and every successor of its elements is   *)
(* all of them: induction, with the set in place of a predicate.           *)
LEMMA Induct ==
    ASSUME NEW S, 0 \in S, \A n \in Nat : n \in S => n + 1 \in S
    PROVE  Nat \subseteq S
<1> SUFFICES ASSUME Nat \ S # {} PROVE FALSE
  BY Zenon
<1>1. PICK n \in Nat \ S : \A k \in Nat \ S : n <= k
  BY Zenon, LeastNat
<1>2. n # 0 /\ n - 1 \in Nat
  BY <1>1
<1>3. n - 1 \in S
  BY <1>1, <1>2
<1> QED
  BY <1>1, <1>2, <1>3

(* A loop that starts with v0 and takes the given steps.                   *)
Steps(f, V, v0, step) ==
    f \in [Nat -> V] /\ f[0] = v0 /\ \A n \in Nat : f[n+1] = step[<<n, f[n]>>]

LEMMA NatRecursion ==
    ASSUME NEW V, NEW v0 \in V, NEW step \in [Nat \X V -> V]
    PROVE  \E f : Steps(f, V, v0, step)
<1> DEFINE Runs(n, g) == /\ g \in [0..n -> V] /\ g[0] = v0
                         /\ \A i \in 0..(n-1) : g[i+1] = step[<<i, g[i]>>]
           S == {n \in Nat : \E g : Runs(n, g)}
           T(n, k, g, h) == {i \in Nat : i <= n /\ i <= k => g[i] = h[i]}
<1>1. 0 \in S
  <2> DEFINE g == [i \in 0..0 |-> v0]
  <2>1. Runs(0, g)
    OBVIOUS
  <2> QED BY Zenon, <2>1
<1>2. ASSUME NEW n \in Nat, n \in S PROVE n + 1 \in S
  <2>1. PICK g : Runs(n, g)
    BY Zenon, <1>2
  <2> DEFINE h == [i \in 0..(n+1) |-> IF i = n + 1 THEN step[<<n, g[n]>>] ELSE g[i]]
  <2>2. g[n] \in V /\ step[<<n, g[n]>>] \in V
    BY <2>1
  <2>3. h \in [0..(n+1) -> V] /\ h[0] = v0
    BY <2>1, <2>2
  <2>4. ASSUME NEW i \in 0..n PROVE h[i+1] = step[<<i, h[i]>>]
    <3>1. CASE i = n
      <4>1. h[n+1] = step[<<n, g[n]>>] /\ h[n] = g[n]
        OBVIOUS
      <4> HIDE DEF h
      <4> QED BY Zenon, <3>1, <4>1
    <3>2. CASE i # n
      <4>1. i \in 0..(n-1) /\ i + 1 \in 0..n /\ i + 1 # n + 1 /\ i # n + 1
        BY <3>2
      <4> QED BY <2>1, <4>1
    <3> QED BY Zenon, <3>1, <3>2
  <2>5. Runs(n+1, h)
    <3>1. 0..((n+1)-1) = 0..n
      OBVIOUS
    <3> HIDE DEF h
    <3> QED BY Zenon, <2>3, <2>4, <3>1
  <2> HIDE DEF h, Runs
  <2> QED BY <2>5
<1>3. \A n \in Nat : \E g : Runs(n, g)
  <2> HIDE DEF Runs
  <2> QED BY Zenon, <1>1, <1>2, Induct
<1>4. ASSUME NEW n \in Nat, NEW k \in Nat, NEW g, NEW h, Runs(n, g), Runs(k, h)
      PROVE  \A i \in Nat : i <= n /\ i <= k => g[i] = h[i]
  <2>1. 0 \in T(n, k, g, h)
    BY Zenon, <1>4
  <2>2. ASSUME NEW i \in Nat, i \in T(n, k, g, h) PROVE i + 1 \in T(n, k, g, h)
    <3> SUFFICES ASSUME i + 1 <= n, i + 1 <= k PROVE g[i+1] = h[i+1]
      OBVIOUS
    <3>1. i \in 0..(n-1) /\ i \in 0..(k-1) /\ g[i] = h[i]
      BY <2>2
    <3> QED BY Zenon, <1>4, <3>1
  <2>3. Nat \subseteq T(n, k, g, h)
    <3> HIDE DEF T
    <3> QED BY Zenon, <2>1, <2>2, Induct
  <2> QED BY Zenon, <2>3
<1> DEFINE run(n) == CHOOSE g : Runs(n, g)
           f == [n \in Nat |-> run(n)[n]]
<1>5. \A n \in Nat : Runs(n, run(n))
  <2> HIDE DEF Runs
  <2> QED BY Zenon, <1>3
<1>6. \A n \in Nat : run(n)[n] \in V
  <2> SUFFICES ASSUME NEW n \in Nat PROVE run(n)[n] \in V
    BY Zenon
  <2>1. run(n) \in [0..n -> V]
    BY Zenon, <1>5
  <2> HIDE DEF run
  <2> QED BY <2>1
<1>7. f \in [Nat -> V]
  BY Zenon, <1>6
<1>8. run(0)[0] = v0
  BY Zenon, <1>5
<1>9. f[0] = v0
  BY Zenon, <1>8
<1>10. ASSUME NEW n \in Nat PROVE f[n+1] = step[<<n, f[n]>>]
  <2>1. Runs(n+1, run(n+1)) /\ Runs(n, run(n))
    <3>1. n + 1 \in Nat
      OBVIOUS
    <3> HIDE DEF Runs, run
    <3> QED BY Zenon, <1>5, <3>1
  <2>2. run(n+1)[n] = run(n)[n]
    <3>1. n + 1 \in Nat /\ n <= n + 1 /\ n <= n
      OBVIOUS
    <3> HIDE DEF Runs, run
    <3> QED BY <1>4, <2>1, <3>1
  <2>3. n \in 0..((n+1)-1)
    OBVIOUS
  <2>4. run(n+1)[n+1] = step[<<n, run(n+1)[n]>>]
    <3> HIDE DEF run
    <3> QED BY Zenon, <2>1, <2>3
  <2>5. f[n+1] = run(n+1)[n+1] /\ f[n] = run(n)[n]
    <3> HIDE DEF run
    <3> QED OBVIOUS
  <2> HIDE DEF run, f, Runs
  <2> QED BY Zenon, <2>2, <2>4, <2>5
<1> HIDE DEF f
<1> QED BY Zenon, <1>7, <1>9, <1>10 DEF Steps

(* Applying F over and over.                                               *)
Orbit(s, G, g0, F) == s \in [Nat -> G] /\ s[0] = g0 /\ \A n \in Nat : s[n+1] = F[s[n]]

LEMMA Iterates ==
    ASSUME NEW G, NEW g0 \in G, NEW F \in [G -> G]
    PROVE  \E s : Orbit(s, G, g0, F)
<1> DEFINE step == [p \in Nat \X G |-> F[p[2]]]
<1>1. step \in [Nat \X G -> G]
  BY Zenon
<1>2. \A n \in Nat : \A g \in G : step[<<n, g>>] = F[g]
  BY Zenon
<1> HIDE DEF step
<1>3. PICK s : Steps(s, G, g0, step)
  BY Zenon, <1>1, NatRecursion
<1>4. \A n \in Nat : s[n] \in G /\ s[n+1] = step[<<n, s[n]>>]
  BY Zenon, <1>3 DEF Steps
<1>5. \A n \in Nat : s[n+1] = F[s[n]]
  BY Zenon, <1>2, <1>4
<1> QED BY Zenon, <1>3, <1>5 DEF Steps, Orbit

(* The functions that take values from A.                                  *)
Within(D, V, A) == {g \in [D -> V] : \A d \in D : g[d] \in A[d]}

(* What F makes of a function at d depends on arguments of a smaller       *)
(* measure only.                                                           *)
Contracts(F, G, D, m) ==
    \A f, g \in G : \A n \in Nat :
        (\A d \in D : m[d] < n => f[d] = g[d]) => \A d \in D : m[d] <= n => F[f][d] = F[g][d]

(* A recursion whose value at d depends only on values at arguments of a   *)
(* smaller measure has a solution.                                         *)
LEMMA FixedPoint ==
    ASSUME NEW D, NEW V, NEW A \in [D -> SUBSET V], NEW m \in [D -> Nat],
           NEW g0 \in Within(D, V, A), NEW F \in [Within(D, V, A) -> Within(D, V, A)],
           Contracts(F, Within(D, V, A), D, m)
    PROVE  \E f \in Within(D, V, A) : F[f] = f
<1> DEFINE G == Within(D, V, A)
<1> HIDE DEF G
<1>0. /\ F \in [G -> G] /\ g0 \in G
      /\ \A f, g \in G : \A n \in Nat :
           (\A d \in D : m[d] < n => f[d] = g[d]) => \A d \in D : m[d] <= n => F[f][d] = F[g][d]
  BY Zenon DEF G, Contracts
<1>1. PICK s : Orbit(s, G, g0, F)
  BY Zenon, <1>0, Iterates
<1>2. s \in [Nat -> G] /\ s[0] = g0 /\ \A n \in Nat : s[n+1] = F[s[n]]
  BY Zenon, <1>1 DEF Orbit
<1>3. \A n \in Nat : s[n] \in G /\ s[n+1] \in G /\ s[n+1] = F[s[n]]
  BY <1>2
<1> DEFINE S == {n \in Nat : \A d \in D : m[d] < n => s[n][d] = s[n+1][d]}
<1>4. 0 \in S
  OBVIOUS
<1>5. ASSUME NEW n \in Nat, n \in S PROVE n + 1 \in S
  <2>1. s[n] \in G /\ s[n+1] \in G /\ s[n+1] = F[s[n]] /\ s[(n+1)+1] = F[s[n+1]]
    <3>1. n + 1 \in Nat
      OBVIOUS
    <3> QED BY Zenon, <1>3, <3>1
  <2>2. \A d \in D : m[d] < n => s[n][d] = s[n+1][d]
    BY Zenon, <1>5
  <2>3. \A d \in D : m[d] <= n => F[s[n]][d] = F[s[n+1]][d]
    BY Zenon, <1>0, <2>1, <2>2
  <2>4. \A d \in D : m[d] < n + 1 => m[d] <= n
    OBVIOUS
  <2> QED BY <2>1, <2>3, <2>4
<1>6. \A n \in Nat : \A d \in D : m[d] < n => s[n][d] = s[n+1][d]
  <2>1. Nat \subseteq S
    <3> HIDE DEF S
    <3> QED BY Zenon, <1>4, <1>5, Induct
  <2> QED BY Zenon, <2>1
<1>7. ASSUME NEW d \in D PROVE \A j \in Nat : s[m[d] + 1 + j][d] = s[m[d] + 1][d]
  <2> DEFINE T == {j \in Nat : s[m[d] + 1 + j][d] = s[m[d] + 1][d]}
  <2>1. m[d] \in Nat
    BY Zenon
  <2>2. 0 \in T
    BY <2>1
  <2>3. ASSUME NEW j \in Nat, j \in T PROVE j + 1 \in T
    <3>1. m[d] + 1 + j \in Nat /\ m[d] < m[d] + 1 + j /\ (m[d] + 1 + j) + 1 = m[d] + 1 + (j + 1)
      BY <2>1
    <3>2. s[m[d] + 1 + j][d] = s[(m[d] + 1 + j) + 1][d]
      BY Zenon, <1>6, <3>1
    <3> QED BY <2>3, <3>1, <3>2
  <2>4. Nat \subseteq T
    <3> HIDE DEF T
    <3> QED BY Zenon, <2>2, <2>3, Induct
  <2> QED BY Zenon, <2>4
<1> DEFINE f == [d \in D |-> s[m[d] + 1][d]]
<1>8. \A d \in D : m[d] + 1 \in Nat /\ s[m[d] + 1] \in G
  BY <1>3
<1>9. f \in G
  BY Zenon, <1>8 DEF G, Within
<1>10. ASSUME NEW d \in D PROVE F[f][d] = f[d]
  <2> DEFINE k == m[d]
  <2>1. k \in Nat /\ s[k] \in G /\ s[k+1] = F[s[k]]
    BY Zenon, <1>3
  <2>2. ASSUME NEW e \in D, m[e] < k PROVE f[e] = s[k][e]
    <3>1. m[e] \in Nat /\ k - (m[e] + 1) \in Nat /\ m[e] + 1 + (k - (m[e] + 1)) = k
      <4>1. m[e] \in Nat
        BY Zenon
      <4> HIDE DEF k
      <4> QED BY <2>1, <2>2, <4>1
    <3>2. s[m[e] + 1 + (k - (m[e] + 1))][e] = s[m[e] + 1][e]
      BY Zenon, <1>7, <3>1
    <3> QED BY Zenon, <3>1, <3>2
  <2>3. F[f][d] = F[s[k]][d]
    <3> HIDE DEF f
    <3>1. k <= k
      BY <2>1
    <3> QED BY Zenon, <1>0, <1>9, <2>1, <2>2, <3>1
  <2> QED BY Zenon, <2>1, <2>3
<1>11. F[f] \in G /\ f \in G
  BY Zenon, <1>0, <1>9
<1>12. F[f] = f
  <2> HIDE DEF f
  <2>1. F[f] \in [D -> V] /\ f \in [D -> V]
    BY Zenon, <1>11 DEF G, Within
  <2> QED BY <1>10, <2>1
<1> QED BY Zenon, <1>9, <1>12 DEF G

(* A loop of n rounds.                                                     *)
Walk(g, n, V, v0, step) ==
    g \in [0..n -> V] /\ g[0] = v0 /\ \A i \in 1..n : g[i] = step[<<i, g[i-1]>>]

LEMMA WalkExists ==
    ASSUME NEW n \in Nat, NEW V, NEW v0 \in V, NEW step \in [(1..n) \X V -> V]
    PROVE  \E g : Walk(g, n, V, v0, step)
<1> DEFINE full == [p \in Nat \X V |-> IF p[1] + 1 \in 1..n THEN step[<<p[1] + 1, p[2]>>] ELSE p[2]]
<1>1. full \in [Nat \X V -> V]
  <2> SUFFICES ASSUME NEW i \in Nat, NEW v \in V
               PROVE  (IF i + 1 \in 1..n THEN step[<<i + 1, v>>] ELSE v) \in V
    BY Zenon
  <2> QED BY Zenon
<1>2. ASSUME NEW i \in 1..n, NEW v \in V PROVE full[<<i - 1, v>>] = step[<<i, v>>]
  <2>1. i - 1 \in Nat /\ (i - 1) + 1 = i
    OBVIOUS
  <2>2. full[<<i - 1, v>>] = IF (i - 1) + 1 \in 1..n THEN step[<<(i - 1) + 1, v>>] ELSE v
    BY Zenon, <2>1
  <2> HIDE DEF full
  <2> QED BY Zenon, <2>1, <2>2
<1> HIDE DEF full
<1>3. PICK f : Steps(f, V, v0, full)
  BY Zenon, <1>1, NatRecursion
<1>4. f \in [Nat -> V] /\ f[0] = v0 /\ \A k \in Nat : f[k+1] = full[<<k, f[k]>>]
  BY Zenon, <1>3 DEF Steps
<1> DEFINE g == [i \in 0..n |-> f[i]]
<1>5. g \in [0..n -> V] /\ g[0] = v0
  BY <1>4
<1>6. ASSUME NEW i \in 1..n PROVE g[i] = step[<<i, g[i-1]>>]
  <2>1. i - 1 \in Nat /\ i - 1 \in 0..n /\ i \in 0..n /\ (i - 1) + 1 = i
    OBVIOUS
  <2>2. f[i] = full[<<i - 1, f[i-1]>>] /\ f[i-1] \in V
    BY Zenon, <1>4, <2>1
  <2>3. g[i] = f[i] /\ g[i-1] = f[i-1]
    BY Zenon, <2>1
  <2> HIDE DEF g
  <2> QED BY Zenon, <1>2, <2>2, <2>3
<1> HIDE DEF g
<1> QED BY Zenon, <1>5, <1>6 DEF Walk

LEMMA WalkIsUnique ==
    ASSUME NEW n \in Nat, NEW V, NEW v0, NEW step, NEW g, Walk(g, n, V, v0, step),
           NEW h, h[0] = v0,
           \A i \in 1..n : h[i-1] \in V => h[i] = step[<<i, h[i-1]>>]
    PROVE  \A i \in 0..n : h[i] = g[i]
<1>1. g \in [0..n -> V] /\ g[0] = v0 /\ \A i \in 1..n : g[i] = step[<<i, g[i-1]>>]
  BY Zenon DEF Walk
<1> DEFINE S == {i \in Nat : i \in 0..n => h[i] = g[i]}
<1>2. 0 \in S
  BY Zenon, <1>1
<1>3. ASSUME NEW i \in Nat, i \in S PROVE i + 1 \in S
  <2> SUFFICES ASSUME i + 1 \in 0..n PROVE h[i+1] = g[i+1]
    OBVIOUS
  <2>1. i \in 0..n /\ i + 1 \in 1..n /\ (i + 1) - 1 = i
    OBVIOUS
  <2>2. h[i] = g[i] /\ g[i] \in V
    BY Zenon, <1>1, <1>3, <2>1
  <2> QED BY Zenon, <1>1, <2>1, <2>2
<1>4. Nat \subseteq S
  <2> HIDE DEF S
  <2> QED BY Zenon, <1>2, <1>3, Induct
<1> QED BY <1>4

-----------------------------------------------------------------------------
(* Loops                                                                   *)

(* f sends pairs of V and E to V; a run of Loop calls f once for every     *)
(* element of the list.                                                    *)
Sends(f, V, E) == \A v \in V : \A e \in E : f[<<v, e>>] \in V

Alike(f, g, V, E) == \A v \in V : \A e \in E : f[<<v, e>>] = g[<<v, e>>]

Ran(after, V, f, start, list) ==
    /\ after \in [0..Len(list) -> V] /\ after[0] = start
    /\ \A i \in 1..Len(list) : after[i] = f[<<after[i-1], list[i]>>]
    /\ Loop(f, start, list) = after[Len(list)]

LEMMA LoopRuns ==
    ASSUME NEW V, NEW E, NEW f, Sends(f, V, E), NEW start \in V, NEW list \in Seq(E)
    PROVE  \E after : Ran(after, V, f, start, list)
<1> DEFINE n == Len(list)
           step == [p \in (1..n) \X V |-> f[<<p[2], list[p[1]]>>]]
           F(a) == [i \in 0..n |-> IF i = 0 THEN start ELSE f[<<a[i-1], list[i]>>]]
           h == CHOOSE a : a = F(a)
<1>1. n \in Nat /\ \A i \in 1..n : list[i] \in E
  OBVIOUS
<1>2. step \in [(1..n) \X V -> V] /\ \A i \in 1..n : \A v \in V : step[<<i, v>>] = f[<<v, list[i]>>]
  <2> HIDE DEF n
  <2> SUFFICES ASSUME NEW i \in 1..n, NEW v \in V PROVE f[<<v, list[i]>>] \in V
    BY Zenon
  <2> QED BY Zenon, <1>1 DEF Sends
<1>3. Loop(f, start, list) = h[n]
  BY Zenon DEF Loop
<1>4. \A a : \A i \in 0..n : F(a)[i] = IF i = 0 THEN start ELSE f[<<a[i-1], list[i]>>]
  BY Zenon
<1>5. \A a : F(a) = [i \in 0..n |-> F(a)[i]]
  BY Zenon
<1> HIDE DEF F, step, n
<1>6. PICK g : Walk(g, n, V, start, step)
  BY Zenon, <1>1, <1>2, WalkExists
<1>7. /\ g \in [0..n -> V] /\ g[0] = start
      /\ \A i \in 1..n : g[i] = f[<<g[i-1], list[i]>>]
  <2>1. g \in [0..n -> V] /\ g[0] = start /\ \A i \in 1..n : g[i] = step[<<i, g[i-1]>>]
    BY Zenon, <1>6 DEF Walk
  <2>2. \A i \in 1..n : i - 1 \in 0..n
    BY <1>1
  <2>3. \A i \in 1..n : g[i-1] \in V
    BY Zenon, <2>1, <2>2
  <2> QED BY Zenon, <1>2, <2>1, <2>3
<1>8. g = F(g)
  <2>1. \A i \in 0..n : g[i] = F(g)[i]
    <3> SUFFICES ASSUME NEW i \in 0..n PROVE g[i] = F(g)[i]
      BY Zenon
    <3>1. i = 0 \/ i \in 1..n
      BY <1>1
    <3>2. i = 0 => F(g)[i] = start
      BY Zenon, <1>4
    <3>3. i \in 1..n => F(g)[i] = f[<<g[i-1], list[i]>>]
      <4>1. i \in 1..n => i # 0
        BY <1>1
      <4> QED BY Zenon, <1>4, <4>1
    <3> QED BY Zenon, <1>7, <3>1, <3>2, <3>3
  <2> QED BY Zenon, <1>5, <1>7, <2>1
<1>9. h = F(h)
  BY Zenon, <1>8
<1> HIDE DEF h
<1>10. h[0] = start /\ \A i \in 1..n : h[i] = f[<<h[i-1], list[i]>>]
  <2>1. \A i \in 0..n : h[i] = IF i = 0 THEN start ELSE f[<<h[i-1], list[i]>>]
    BY Zenon, <1>4, <1>9
  <2>2. 0 \in 0..n /\ \A i \in 1..n : i \in 0..n /\ i # 0
    BY <1>1
  <2> QED BY Zenon, <2>1, <2>2
<1>11. \A i \in 0..n : h[i] = g[i]
  <2>1. \A i \in 1..n : h[i-1] \in V => h[i] = step[<<i, h[i-1]>>]
    BY Zenon, <1>2, <1>10
  <2> QED BY <1>1, <1>6, <1>10, <2>1, WalkIsUnique
<1>12. Loop(f, start, list) = g[n]
  BY <1>1, <1>3, <1>11
<1> QED
  BY Zenon, <1>7, <1>12 DEF Ran, n

(* Two functions that agree on all a loop may meet run alike.              *)
LEMMA LoopsAgree ==
    ASSUME NEW P, NEW E, NEW f, NEW g, Sends(f, P, E), NEW start \in P, NEW list \in Seq(E),
           Alike(f, g, P, E)
    PROVE  Loop(f, start, list) \in P /\ Loop(f, start, list) = Loop(g, start, list)
<1> DEFINE n == Len(list)
<1>1. n \in Nat /\ \A i \in 1..n : list[i] \in E
  OBVIOUS
<1>2. PICK a : Ran(a, P, f, start, list)
  BY Zenon, LoopRuns
<1>3. Sends(g, P, E)
  BY Zenon DEF Sends, Alike
<1>4. PICK b : Ran(b, P, g, start, list)
  BY Zenon, <1>3, LoopRuns
<1>5. /\ a \in [0..n -> P] /\ a[0] = start /\ Loop(f, start, list) = a[n]
      /\ \A i \in 1..n : a[i] = f[<<a[i-1], list[i]>>]
  BY Zenon, <1>2 DEF Ran
<1>6. /\ b \in [0..n -> P] /\ b[0] = start /\ Loop(g, start, list) = b[n]
      /\ \A i \in 1..n : b[i] = g[<<b[i-1], list[i]>>]
  BY Zenon, <1>4 DEF Ran
<1> HIDE DEF n
<1> DEFINE S == {i \in Nat : i \in 0..n => a[i] = b[i]}
<1>7. 0 \in S
  BY Zenon, <1>5, <1>6
<1>8. ASSUME NEW i \in Nat, i \in S PROVE i + 1 \in S
  <2> SUFFICES ASSUME i + 1 \in 0..n PROVE a[i+1] = b[i+1]
    OBVIOUS
  <2>1. i \in 0..n /\ i + 1 \in 1..n /\ (i + 1) - 1 = i
    BY <1>1
  <2>2. a[i] \in P /\ a[i] = b[i] /\ list[i+1] \in E
    BY Zenon, <1>1, <1>5, <1>8, <2>1
  <2>3. a[i+1] = f[<<a[i], list[i+1]>>] /\ b[i+1] = g[<<a[i], list[i+1]>>]
    BY Zenon, <1>5, <1>6, <2>1, <2>2
  <2> QED BY Zenon, <2>2, <2>3 DEF Alike
<1>9. Nat \subseteq S
  <2> HIDE DEF S
  <2> QED BY Zenon, <1>7, <1>8, Induct
<1>10. a[n] \in P /\ a[n] = b[n]
  BY <1>1, <1>5, <1>9
<1> QED BY Zenon, <1>5, <1>6, <1>10

(* Filtered keeps the elements in S, and keeps them apart.                 *)
LEMMA FilteredKeeps ==
    ASSUME NEW T, NEW list \in Seq(T), NEW K
    PROVE  /\ Filtered(list, K) \in Seq(T)
           /\ Range(Filtered(list, K)) = Range(list) \cap K
           /\ (\A i, j \in DOMAIN list : list[i] = list[j] => i = j) =>
                 \A i, j \in DOMAIN Filtered(list, K) :
                     Filtered(list, K)[i] = Filtered(list, K)[j] => i = j
<1> DEFINE n == Len(list)
           V == Seq(T)
           Next1(v, e) == IF e \in K THEN Append(v, e) ELSE v
           step == [p \in (1..n) \X V |-> Next1(p[2], list[p[1]])]
           F(a) == [i \in 0..n |-> IF i = 0 THEN <<>> ELSE Next1(a[i-1], list[i])]
           h == CHOOSE a : a = F(a)
<1>1. n \in Nat /\ (\A i \in 1..n : list[i] \in T) /\ DOMAIN list = 1..n /\ <<>> \in V
  OBVIOUS
<1>2. \A v \in V : \A e \in T : Next1(v, e) \in V
  OBVIOUS
<1>3. Filtered(list, K) = h[n]
  BY Zenon DEF Filtered
<1>4. \A a : \A i \in 0..n : F(a)[i] = IF i = 0 THEN <<>> ELSE Next1(a[i-1], list[i])
  BY Zenon
<1>5. \A a : F(a) = [i \in 0..n |-> F(a)[i]]
  BY Zenon
<1> HIDE DEF Next1, F, n, V
<1>6. step \in [(1..n) \X V -> V] /\ \A i \in 1..n : \A v \in V : step[<<i, v>>] = Next1(v, list[i])
  BY Zenon, <1>1, <1>2
<1> HIDE DEF step
<1>7. PICK g : Walk(g, n, V, <<>>, step)
  BY Zenon, <1>1, <1>6, WalkExists
<1>8. g \in [0..n -> V] /\ g[0] = <<>> /\ \A i \in 1..n : g[i] = Next1(g[i-1], list[i])
  <2>1. g \in [0..n -> V] /\ g[0] = <<>> /\ \A i \in 1..n : g[i] = step[<<i, g[i-1]>>]
    BY Zenon, <1>7 DEF Walk
  <2>2. \A i \in 1..n : i - 1 \in 0..n
    BY <1>1
  <2>3. \A i \in 1..n : g[i-1] \in V
    BY Zenon, <2>1, <2>2
  <2> QED BY Zenon, <1>6, <2>1, <2>3
<1>9. g = F(g)
  <2>1. \A i \in 0..n : i = 0 \/ (i \in 1..n /\ i # 0)
    BY <1>1
  <2>2. ASSUME NEW i \in 0..n PROVE g[i] = F(g)[i]
    <3>1. F(g)[i] = IF i = 0 THEN <<>> ELSE Next1(g[i-1], list[i])
      BY Zenon, <1>4
    <3> QED BY Zenon, <1>8, <2>1, <3>1
  <2> QED BY Zenon, <1>5, <1>8, <2>2
<1>10. h = F(h)
  BY Zenon, <1>9
<1> HIDE DEF h
<1>11. h[0] = <<>> /\ \A i \in 1..n : h[i] = Next1(h[i-1], list[i])
  <2>1. 0 \in 0..n /\ \A i \in 1..n : i \in 0..n /\ i # 0
    BY <1>1
  <2> QED BY Zenon, <1>4, <1>10, <2>1
<1>12. \A i \in 0..n : h[i] = g[i]
  <2>1. \A i \in 1..n : h[i-1] \in V => h[i] = step[<<i, h[i-1]>>]
    BY Zenon, <1>6, <1>11
  <2> QED BY <1>1, <1>7, <1>11, <2>1, WalkIsUnique
<1>13. Filtered(list, K) = g[n] /\ g[n] \in V
  BY <1>1, <1>3, <1>8, <1>12
<1> DEFINE Apart(s, k) == \A i, j \in 1..k : s[i] = s[j] => i = j
           Inv(i) == /\ Range(g[i]) = {list[j] : j \in 1..i} \cap K
                     /\ Apart(list, n) => Apart(g[i], Len(g[i]))
           S == {i \in Nat : i \in 0..n => Inv(i)}
<1>14. 0 \in S
  <2>1. Range(<<>>) = {} /\ Len(<<>>) = 0
    BY DEF Range
  <2> QED BY <1>8, <2>1
<1>15. ASSUME NEW i \in Nat, i \in S PROVE i + 1 \in S
  <2> SUFFICES ASSUME i + 1 \in 0..n PROVE Inv(i + 1)
    OBVIOUS
  <2>1. i \in 0..n /\ i + 1 \in 1..n /\ (i + 1) - 1 = i
    BY <1>1
  <2> DEFINE v == g[i]
             e == list[i+1]
             w == g[i+1]
             k == Len(v)
  <2>2. v \in Seq(T) /\ e \in T /\ w = Next1(v, e) /\ Inv(i)
    BY Zenon, <1>1, <1>8, <1>15, <2>1 DEF V
  <2>3. {list[j] : j \in 1..(i+1)} = {list[j] : j \in 1..i} \cup {e}
    <3>1. 1..(i+1) = (1..i) \cup {i+1}
      OBVIOUS
    <3> QED BY Zenon, <3>1
  <2>4. CASE e \notin K
    <3>1. w = v
      BY Zenon, <2>2, <2>4 DEF Next1
    <3> QED BY Zenon, <2>2, <2>3, <2>4, <3>1
  <2>5. CASE e \in K
    <3>1. w = Append(v, e)
      BY Zenon, <2>2, <2>5 DEF Next1
    <3> HIDE DEF v, e, w
    <3>2. k \in Nat /\ Len(w) = k + 1 /\ w[k+1] = e /\ \A j \in 1..k : w[j] = v[j] /\ DOMAIN w = 1..(k+1) /\ DOMAIN v = 1..k
      BY <2>2, <3>1
    <3>3. 1..(k+1) = (1..k) \cup {k+1}
      BY <3>2
    <3>4. DOMAIN w = 1..(k+1) /\ DOMAIN v = 1..k
      BY <2>2, <3>1
    <3>5. Range(w) = Range(v) \cup {e}
      BY <3>2, <3>3, <3>4 DEF Range
    <3>6. ASSUME Apart(list, n) PROVE Apart(w, Len(w))
      <4>1. \A j \in 1..k : v[j] # e
        <5> SUFFICES ASSUME NEW j \in 1..k, v[j] = e PROVE FALSE
          BY Zenon
        <5>1. e \in Range(v)
          BY Zenon, <3>4 DEF Range
        <5>2. e \in {list[l] : l \in 1..i}
          BY Zenon, <2>2, <5>1 DEF v
        <5>3. PICK l \in 1..i : list[l] = list[i+1]
          BY Zenon, <5>2 DEF e
        <5>4. l \in 1..n /\ i + 1 \in 1..n /\ l # i + 1
          BY <1>1, <2>1
        <5> QED BY Zenon, <3>6, <5>3, <5>4
      <4>2. Apart(v, k)
        BY Zenon, <2>2, <3>6 DEF v
      <4>3. \A a, b \in 1..(k+1) : w[a] = w[b] => a = b
        BY Zenon, <3>2, <3>3, <4>1, <4>2
      <4> QED BY Zenon, <3>2, <4>3
    <3>7. Range(w) = {list[j] : j \in 1..(i+1)} \cap K
      <4>1. Range(v) = {list[j] : j \in 1..i} \cap K
        BY Zenon, <2>2 DEF v
      <4> QED BY Zenon, <2>3, <2>5, <3>5, <4>1
    <3> QED BY Zenon, <3>6, <3>7 DEF w
  <2> QED BY Zenon, <2>4, <2>5
<1>16. Nat \subseteq S
  <2> HIDE DEF S
  <2> QED BY Zenon, <1>14, <1>15, Induct
<1>17. Inv(n)
  BY <1>1, <1>16
<1> HIDE DEF S
<1>18. Range(list) = {list[j] : j \in 1..n} /\ DOMAIN g[n] = 1..Len(g[n])
  BY <1>1, <1>13 DEF Range, V
<1> QED BY Zenon, <1>1, <1>13, <1>17, <1>18 DEF V

-----------------------------------------------------------------------------
(* What the matching entries make of a decision                            *)

DecisionRecord ==
    [outcome: {"NotApplicable", "Allow", "Deny"},
     reason: {"", "Allow", "ExplicitDeny", "LimitExceeded"},
     matched: Seq(Nat), err: {"none", "ErrMatchLimitExceeded"}]

(* The first n entries were matched: all is recorded, a deny prevails.     *)
Tally(entries, n, decision) ==
    /\ decision.err = "none"
    /\ Len(decision.matched) = n
    /\ \A j \in 1..n : decision.matched[j] = entries[j].id
    /\ decision.outcome = "NotApplicable" <=> n = 0
    /\ decision.outcome = "Deny" <=> \E j \in 1..n : entries[j].effect = "Deny"

LEMMA LimitDecision == Refused("ErrMatchLimitExceeded") \in DecisionRecord
<1>1. "ErrMatchLimitExceeded" # "ContextError"
  BY Zenon
<1>2. Refused("ErrMatchLimitExceeded") =
          [outcome |-> "Deny", reason |-> "LimitExceeded", matched |-> <<>>, err |-> "ErrMatchLimitExceeded"]
  BY Zenon, <1>1 DEF Refused
<1>3. <<>> \in Seq(Nat)
  OBVIOUS
<1>4. \A s \in Seq(Nat) :
          [outcome |-> "Deny", reason |-> "LimitExceeded", matched |-> s, err |-> "ErrMatchLimitExceeded"]
              \in DecisionRecord
  BY Zenon DEF DecisionRecord
<1> QED BY Zenon, <1>2, <1>3, <1>4

LEMMA MatchType ==
    ASSUME NEW d \in DecisionRecord, NEW id \in Nat, NEW effect \in {"Allow", "Deny"}, NEW max
    PROVE  Match(d, id, effect, max) \in DecisionRecord
<1>1. Append(d.matched, id) \in Seq(Nat)
  <2>1. d.matched \in Seq(Nat)
    BY Zenon DEF DecisionRecord
  <2> QED BY <2>1
<1> QED BY Zenon, <1>1, LimitDecision DEF Match, DecisionRecord

LEMMA MatchTallies ==
    ASSUME NEW T, NEW entries \in Seq(T), NEW max \in Nat, NEW n \in Nat, n + 1 \in DOMAIN entries,
           entries[n+1].id \in Nat, entries[n+1].effect \in {"Allow", "Deny"},
           NEW d \in DecisionRecord, Tally(entries, n, d),
           NEW e, e = Match(d, entries[n+1].id, entries[n+1].effect, max)
    PROVE  /\ e \in DecisionRecord
           /\ IF n < max THEN Tally(entries, n + 1, e) ELSE e = Refused("ErrMatchLimitExceeded")
<1> DEFINE id == entries[n+1].id
           effect == entries[n+1].effect
<1>1. d.matched \in Seq(Nat) /\ Len(d.matched) = n
  BY Zenon DEF DecisionRecord, Tally
<1>2. CASE ~(n < max)
  <2>1. e = Refused("ErrMatchLimitExceeded")
    BY <1>1, <1>2 DEF Match
  <2> QED BY Zenon, <1>2, <2>1, LimitDecision
<1>3. CASE n < max
  <2>1. e = [d EXCEPT !.matched = Append(@, id),
                      !.outcome = IF effect = "Deny" \/ @ = "NotApplicable" THEN effect ELSE @,
                      !.reason = IF effect = "Deny" THEN "ExplicitDeny" ELSE IF @ = "" THEN "Allow" ELSE @]
    BY <1>1, <1>3 DEF Match
  <2> HIDE DEF id, effect
  <2>2. /\ e.matched = Append(d.matched, id) /\ e.err = d.err
        /\ e.outcome = IF effect = "Deny" \/ d.outcome = "NotApplicable" THEN effect ELSE d.outcome
        /\ e \in DecisionRecord
    <3>1. id \in Nat /\ effect \in {"Allow", "Deny"}
      BY Zenon DEF id, effect
    <3>2. Append(d.matched, id) \in Seq(Nat)
      BY <1>1, <3>1
    <3> QED BY Zenon, <2>1, <3>1, <3>2 DEF DecisionRecord
  <2>3. Len(e.matched) = n + 1 /\ e.matched[n+1] = id /\ \A j \in 1..n : e.matched[j] = d.matched[j]
    BY <1>1, <2>2 DEF id
  <2>4. 1..(n+1) = (1..n) \cup {n+1}
    OBVIOUS
  <2>5. \A j \in 1..(n+1) : e.matched[j] = entries[j].id
    BY Zenon, <2>3, <2>4 DEF Tally, id
  <2>6. (\E j \in 1..(n+1) : entries[j].effect = "Deny") <=>
            effect = "Deny" \/ \E j \in 1..n : entries[j].effect = "Deny"
    BY Zenon, <2>4 DEF effect
  <2>7. e.outcome # "NotApplicable" /\ n + 1 # 0
    BY <2>2 DEF effect
  <2>8. e.outcome = "Deny" <=> effect = "Deny" \/ \E j \in 1..n : entries[j].effect = "Deny"
    <3>1. d.outcome = "Deny" <=> \E j \in 1..n : entries[j].effect = "Deny"
      BY Zenon DEF Tally
    <3>2. d.outcome = "NotApplicable" => effect = "Deny" \/ d.outcome # "Deny"
      BY Zenon
    <3> QED BY Zenon, <2>2, <3>1
  <2>9. Tally(entries, n + 1, e)
    BY Zenon, <2>2, <2>3, <2>5, <2>6, <2>7, <2>8 DEF Tally
  <2> QED BY Zenon, <1>3, <2>2, <2>9
<1> QED BY Zenon, <1>2, <1>3

(* MatchAll records every entry, in order, unless there are more than max. *)
LEMMA MatchAllTallies ==
    ASSUME NEW T, NEW entries \in Seq(T), NEW max \in Nat,
           \A i \in DOMAIN entries : entries[i].id \in Nat /\ entries[i].effect \in {"Allow", "Deny"}
    PROVE  /\ MatchAll(entries, max) \in DecisionRecord
           /\ IF Len(entries) <= max THEN Tally(entries, Len(entries), MatchAll(entries, max))
              ELSE MatchAll(entries, max) = Refused("ErrMatchLimitExceeded")
<1> DEFINE n == Len(entries)
           V == DecisionRecord
           Go(v, e) == IF v.err # "none" THEN v ELSE Match(v, e.id, e.effect, max)
           step == [p \in (1..n) \X V |-> Go(p[2], entries[p[1]])]
           F(a) == [i \in 0..n |-> IF i = 0 THEN Undecided ELSE Go(a[i-1], entries[i])]
           h == CHOOSE a : a = F(a)
<1>1. n \in Nat /\ DOMAIN entries = 1..n /\ \A i \in 1..n : entries[i].id \in Nat /\ entries[i].effect \in {"Allow", "Deny"}
  OBVIOUS
<1>2. Undecided \in V /\ Tally(entries, 0, Undecided)
  BY DEF Undecided, DecisionRecord, Tally
<1>3. ASSUME NEW v \in V, NEW e, e.id \in Nat, e.effect \in {"Allow", "Deny"}
      PROVE  Match(v, e.id, e.effect, max) \in V
  BY Zenon, <1>3, MatchType
<1>4. MatchAll(entries, max) = h[n]
  BY Zenon DEF MatchAll
<1>5. \A a : \A i \in 0..n : F(a)[i] = IF i = 0 THEN Undecided ELSE Go(a[i-1], entries[i])
  BY Zenon
<1>6. \A a : F(a) = [i \in 0..n |-> F(a)[i]]
  BY Zenon
<1>7. \A v \in V : \A i \in 1..n : Go(v, entries[i]) \in V
  <2> HIDE DEF V, F, h, step, n
  <2> QED BY Zenon, <1>1, <1>3
<1> HIDE DEF Go, F, n, V
<1>8. step \in [(1..n) \X V -> V] /\ \A i \in 1..n : \A v \in V : step[<<i, v>>] = Go(v, entries[i])
  BY Zenon, <1>1, <1>7
<1> HIDE DEF step
<1>9. PICK g : Walk(g, n, V, Undecided, step)
  BY Zenon, <1>1, <1>2, <1>8, WalkExists
<1>10. g \in [0..n -> V] /\ g[0] = Undecided /\ \A i \in 1..n : g[i] = Go(g[i-1], entries[i])
  <2>1. g \in [0..n -> V] /\ g[0] = Undecided /\ \A i \in 1..n : g[i] = step[<<i, g[i-1]>>]
    BY Zenon, <1>9 DEF Walk
  <2>2. \A i \in 1..n : i - 1 \in 0..n
    BY <1>1
  <2>3. \A i \in 1..n : g[i-1] \in V
    BY Zenon, <2>1, <2>2
  <2> QED BY Zenon, <1>8, <2>1, <2>3
<1>11. g = F(g)
  <2>1. \A i \in 0..n : i = 0 \/ (i \in 1..n /\ i # 0)
    BY <1>1
  <2>2. ASSUME NEW i \in 0..n PROVE g[i] = F(g)[i]
    <3>1. F(g)[i] = IF i = 0 THEN Undecided ELSE Go(g[i-1], entries[i])
      BY Zenon, <1>5
    <3> QED BY Zenon, <1>10, <2>1, <3>1
  <2> QED BY Zenon, <1>6, <1>10, <2>2
<1>12. h = F(h)
  BY Zenon, <1>11
<1> HIDE DEF h
<1>13. h[0] = Undecided /\ \A i \in 1..n : h[i] = Go(h[i-1], entries[i])
  <2>1. 0 \in 0..n /\ \A i \in 1..n : i \in 0..n /\ i # 0
    BY <1>1
  <2> QED BY Zenon, <1>5, <1>12, <2>1
<1>14. \A i \in 0..n : h[i] = g[i]
  <2>1. \A i \in 1..n : h[i-1] \in V => h[i] = step[<<i, h[i-1]>>]
    BY Zenon, <1>8, <1>13
  <2> QED BY <1>1, <1>9, <1>13, <2>1, WalkIsUnique
<1>15. MatchAll(entries, max) = g[n] /\ g[n] \in V
  BY <1>1, <1>4, <1>10, <1>14
<1> DEFINE Inv(i) == IF i <= max THEN Tally(entries, i, g[i]) ELSE g[i] = Refused("ErrMatchLimitExceeded")
           S == {i \in Nat : i \in 0..n => Inv(i)}
<1>16. 0 \in S
  BY <1>2, <1>10
<1>17. ASSUME NEW i \in Nat, i \in S PROVE i + 1 \in S
  <2> SUFFICES ASSUME i + 1 \in 0..n PROVE Inv(i + 1)
    OBVIOUS
  <2>1. i \in 0..n /\ i + 1 \in 1..n /\ (i + 1) - 1 = i
    BY <1>1
  <2>2. g[i] \in DecisionRecord /\ g[i+1] = Go(g[i], entries[i+1]) /\ Inv(i)
    BY Zenon, <1>10, <1>17, <2>1 DEF V
  <2>3. CASE i <= max
    <3>1. Tally(entries, i, g[i])
      BY Zenon, <2>2, <2>3
    <3>2. g[i+1] = Match(g[i], entries[i+1].id, entries[i+1].effect, max)
      BY Zenon, <2>2, <3>1 DEF Go, Tally
    <3>3. IF i < max THEN Tally(entries, i + 1, g[i+1]) ELSE g[i+1] = Refused("ErrMatchLimitExceeded")
      BY <1>1, <2>1, <2>2, <3>1, <3>2, MatchTallies
    <3> QED BY <2>3, <3>3
  <2>4. CASE ~(i <= max)
    <3>1. g[i].err = "ErrMatchLimitExceeded"
      BY <2>2, <2>4 DEF Refused
    <3>2. g[i+1] = g[i]
      BY Zenon, <2>2, <3>1 DEF Go
    <3> QED BY <2>2, <2>4, <3>2
  <2> QED BY Zenon, <2>3, <2>4
<1>18. Nat \subseteq S
  <2> HIDE DEF S
  <2> QED BY Zenon, <1>16, <1>17, Induct
<1>19. Inv(n)
  BY <1>1, <1>18
<1> HIDE DEF S
<1> QED BY Zenon, <1>15, <1>19 DEF n, V

-----------------------------------------------------------------------------
(* Evaluation order                                                        *)

(* NewSnapshot sorts under PriorityOrder, and IDs are unique.              *)
Ordered(s) ==
    s.algorithm = "PriorityOrder" =>
        \A i, j \in DOMAIN s.policies : i < j => EvaluatedBefore(s.policies[i], s.policies[j])

LEMMA EvaluatedFirst ==
    ASSUME NEW p \in Policy, NEW q \in Policy, EvaluatedBefore(p, q)
    PROVE  /\ p.priority > q.priority \/ (p.priority = q.priority /\ p.id <= q.id)
           /\ ~(q.priority > p.priority \/ (q.priority = p.priority /\ q.id <= p.id))
<1>1. p.priority \in Int /\ q.priority \in Int /\ p.id \in Nat /\ q.id \in Nat
  BY Zenon DEF Policy
<1>2. p.priority > q.priority \/ (p.priority = q.priority /\ p.id < q.id)
  BY Zenon DEF EvaluatedBefore
<1> QED
  BY <1>1, <1>2

LEMMA EvaluationIsTotal ==
    ASSUME NEW p \in Policy, NEW q \in Policy
    PROVE  /\ EvaluatedBefore(p, q) => ~EvaluatedBefore(q, p)
           /\ EvaluatedBefore(p, q) \/ EvaluatedBefore(q, p) \/ p.id = q.id
           /\ \A r \in Policy : EvaluatedBefore(p, q) /\ ~EvaluatedBefore(r, q) => EvaluatedBefore(p, r)
<1>1. \A r \in Policy : r.priority \in Int /\ r.id \in Nat
  BY Zenon DEF Policy
<1> QED
  BY <1>1 DEF EvaluatedBefore

(* Lists with the same policies, each once, in evaluation order, are the   *)
(* same list.                                                              *)
LEMMA OrderIsUnique ==
    ASSUME NEW s \in Seq(Policy), NEW t \in Seq(Policy),
           \A i, j \in DOMAIN s : i < j => EvaluatedBefore(s[i], s[j]),
           \A i, j \in DOMAIN t : i < j => EvaluatedBefore(t[i], t[j]),
           \A i \in DOMAIN s : \E j \in DOMAIN t : s[i] = t[j],
           \A j \in DOMAIN t : \E i \in DOMAIN s : s[i] = t[j]
    PROVE  s = t
<1> DEFINE Apart == {k \in Nat : (k \in DOMAIN s \/ k \in DOMAIN t) /\
                      ~(k \in DOMAIN s /\ k \in DOMAIN t /\ s[k] = t[k])}
<1>1. /\ DOMAIN s = 1..Len(s) /\ DOMAIN t = 1..Len(t) /\ Len(s) \in Nat /\ Len(t) \in Nat
      /\ \A i \in DOMAIN s : s[i] \in Policy
      /\ \A i \in DOMAIN t : t[i] \in Policy
  OBVIOUS
<1>2. \A p, q \in Policy : EvaluatedBefore(p, q) => ~EvaluatedBefore(q, p) /\ p # q
  BY EvaluationIsTotal
<1>3. ASSUME Apart # {} PROVE FALSE
  <2>1. PICK k \in Apart : \A y \in Apart : k <= y
    <3>1. Apart \subseteq Nat
      BY Zenon
    <3> HIDE DEF Apart
    <3> QED BY Zenon, <1>3, <3>1, LeastNat
  <2>2. \A i \in Nat : i < k /\ (i \in DOMAIN s \/ i \in DOMAIN t) =>
            i \in DOMAIN s /\ i \in DOMAIN t /\ s[i] = t[i]
    BY <2>1
  <2>3. ASSUME k \in DOMAIN s
        PROVE  k \in DOMAIN t /\ (s[k] # t[k] => EvaluatedBefore(t[k], s[k]))
    <3>1. PICK l \in DOMAIN t : s[k] = t[l]
      BY Zenon, <2>3
    <3>2. ~(l < k)
      <4> SUFFICES ASSUME l < k PROVE FALSE
        BY Zenon
      <4>1. l \in DOMAIN s /\ s[l] = t[l]
        BY <1>1, <2>2
      <4> QED
        BY Zenon, <1>1, <1>2, <2>3, <3>1, <4>1
    <3>3. k \in DOMAIN t
      BY <1>1, <2>3, <3>2
    <3>4. l = k \/ k < l
      BY <1>1, <3>2
    <3> QED
      BY Zenon, <3>1, <3>3, <3>4
  <2>4. ASSUME k \in DOMAIN t
        PROVE  k \in DOMAIN s /\ (s[k] # t[k] => EvaluatedBefore(s[k], t[k]))
    <3>1. PICK l \in DOMAIN s : s[l] = t[k]
      BY Zenon, <2>4
    <3>2. ~(l < k)
      <4> SUFFICES ASSUME l < k PROVE FALSE
        BY Zenon
      <4>1. l \in DOMAIN t /\ s[l] = t[l]
        BY <1>1, <2>2
      <4> QED
        BY Zenon, <1>1, <1>2, <2>4, <3>1, <4>1
    <3>3. k \in DOMAIN s
      BY <1>1, <2>4, <3>2
    <3>4. l = k \/ k < l
      BY <1>1, <3>2
    <3> QED
      BY Zenon, <3>1, <3>3, <3>4
  <2>5. k \in DOMAIN s /\ k \in DOMAIN t /\ s[k] # t[k]
    BY Zenon, <2>3, <2>4
  <2> QED
    BY Zenon, <1>1, <1>2, <2>3, <2>4, <2>5
<1>4. \A k \in Nat : k \in DOMAIN s \/ k \in DOMAIN t =>
          k \in DOMAIN s /\ k \in DOMAIN t /\ s[k] = t[k]
  BY Zenon, <1>3
<1> HIDE DEF Apart
<1>5. Len(s) = Len(t)
  <2>1. Len(s) \in 1..Len(s) => Len(s) \in 1..Len(t)
    BY Zenon, <1>1, <1>4
  <2>2. Len(t) \in 1..Len(t) => Len(t) \in 1..Len(s)
    BY Zenon, <1>1, <1>4
  <2>3. \A m, n \in Nat : (m \in 1..m => m \in 1..n) /\ (n \in 1..n => n \in 1..m) => m = n
    OBVIOUS
  <2> QED
    BY Zenon, <1>1, <2>1, <2>2, <2>3
<1>6. ASSUME NEW k \in 1..Len(s) PROVE s[k] = t[k]
  <2>1. k \in Nat /\ k \in DOMAIN s
    BY <1>1
  <2> QED
    BY Zenon, <1>4, <2>1
<1>7. \A q \in Seq(Policy) : q = [k \in 1..Len(q) |-> q[k]]
  OBVIOUS
<1>8. [k \in 1..Len(s) |-> s[k]] = [k \in 1..Len(t) |-> t[k]]
  BY Zenon, <1>5, <1>6
<1> QED
  BY Zenon, <1>7, <1>8

(* What SortFunc compares: policies, permissions and rules have it.        *)
Sortable(T) == \A x \in T : x.priority \in Int /\ x.id \in Nat

LEMMA PoliciesAreSortable == Sortable(Policy)
BY Zenon DEF Sortable, Policy

(* Index i is evaluated before j, the earlier one on a tie.                *)
Precedes(e, i, j) ==
    \/ EvaluatedBefore(e[i], e[j])
    \/ ~EvaluatedBefore(e[j], e[i]) /\ i < j

LEMMA PrecedesIsTotal ==
    ASSUME NEW T, Sortable(T), NEW e \in Seq(T)
    PROVE  /\ \A i \in DOMAIN e : ~Precedes(e, i, i)
           /\ \A i, j \in DOMAIN e : i # j => Precedes(e, i, j) \/ Precedes(e, j, i)
           /\ \A i, j, k \in DOMAIN e : Precedes(e, i, j) /\ Precedes(e, j, k) => Precedes(e, i, k)
<1>1. \A i \in DOMAIN e : i \in Int /\ e[i].priority \in Int /\ e[i].id \in Nat
  <2>1. \A i \in DOMAIN e : i \in Int /\ e[i] \in T
    OBVIOUS
  <2> QED
    BY Zenon, <2>1 DEF Sortable
<1>2. \A i, j \in DOMAIN e : i # j => Precedes(e, i, j) \/ Precedes(e, j, i)
  BY <1>1 DEF Precedes, EvaluatedBefore
<1>3. ASSUME NEW i \in DOMAIN e, NEW j \in DOMAIN e, NEW k \in DOMAIN e,
             Precedes(e, i, j), Precedes(e, j, k)
      PROVE  Precedes(e, i, k)
  BY <1>1, <1>3 DEF Precedes, EvaluatedBefore
<1>4. \A i \in DOMAIN e : ~Precedes(e, i, i)
  BY <1>1 DEF Precedes, EvaluatedBefore
<1> QED
  BY Zenon, <1>2, <1>3, <1>4

(* An index by the number of indices that precede it.                      *)
Earlier(e, i) == {j \in DOMAIN e : Precedes(e, j, i)}
Rank(e) == [i \in DOMAIN e |-> 1 + Cardinality(Earlier(e, i))]

LEMMA RankOrders ==
    ASSUME NEW T, Sortable(T), NEW e \in Seq(T)
    PROVE  /\ Rank(e) \in Bijection(DOMAIN e, DOMAIN e)
           /\ \A i, j \in DOMAIN e : Precedes(e, i, j) => Rank(e)[i] < Rank(e)[j]
<1> DEFINE D == DOMAIN e
           n == Len(e)
<1>1. D = 1..n /\ n \in Nat /\ IsFiniteSet(D) /\ Cardinality(D) = n
  <2>1. D = 1..n /\ n \in Nat
    OBVIOUS
  <2>2. IsFiniteSet(1..n) /\ Cardinality(1..n) = n
    BY <2>1, FS_Interval
  <2> QED
    BY Zenon, <2>1, <2>2
<1> HIDE DEF D, n
<1>2. ASSUME NEW i \in D
      PROVE  /\ Earlier(e, i) \in SUBSET D /\ i \notin Earlier(e, i)
             /\ IsFiniteSet(Earlier(e, i)) /\ Cardinality(Earlier(e, i)) \in 0..(n - 1)
  <2>1. Earlier(e, i) \in SUBSET D /\ i \notin Earlier(e, i)
    BY Zenon, PrecedesIsTotal DEF Earlier, D
  <2>2. /\ IsFiniteSet(Earlier(e, i)) /\ Cardinality(Earlier(e, i)) <= n
        /\ Cardinality(Earlier(e, i)) # n
    BY Zenon, <1>1, <2>1, FS_Subset
  <2>3. Cardinality(Earlier(e, i)) \in Nat
    BY Zenon, <2>2, FS_CardinalityType
  <2> QED
    BY <1>1, <2>1, <2>2, <2>3
<1>3. Rank(e) \in [D -> D]
  <2>1. \A i \in D : 1 + Cardinality(Earlier(e, i)) \in 1..n
    BY <1>1, <1>2
  <2> QED
    BY Zenon, <1>1, <2>1 DEF Rank, D
<1>4. ASSUME NEW i \in D, NEW j \in D, Precedes(e, i, j)
      PROVE  Rank(e)[i] < Rank(e)[j]
  <2>1. Earlier(e, i) \in SUBSET Earlier(e, j) /\ i \in Earlier(e, j)
    BY Zenon, <1>4, PrecedesIsTotal DEF Earlier, D
  <2>2. /\ Cardinality(Earlier(e, i)) <= Cardinality(Earlier(e, j))
        /\ Cardinality(Earlier(e, j)) # Cardinality(Earlier(e, i))
    BY Zenon, <1>2, <2>1, FS_Subset
  <2>3. \A a, b \in Nat : a <= b /\ b # a => 1 + a < 1 + b
    OBVIOUS
  <2>4. Cardinality(Earlier(e, i)) \in Nat /\ Cardinality(Earlier(e, j)) \in Nat
    BY <1>1, <1>2
  <2> QED
    BY Zenon, <2>2, <2>3, <2>4 DEF Rank, D
<1>5. \A i, j \in D : Rank(e)[i] = Rank(e)[j] => i = j
  <2> SUFFICES ASSUME NEW i \in D, NEW j \in D, i # j PROVE Rank(e)[i] # Rank(e)[j]
    BY Zenon
  <2>1. Rank(e)[i] \in Nat /\ Rank(e)[j] \in Nat
    BY <1>1, <1>3
  <2>2. Precedes(e, i, j) \/ Precedes(e, j, i)
    BY Zenon, PrecedesIsTotal DEF D
  <2> QED
    BY <1>4, <2>1, <2>2
<1>6. Rank(e) \in Injection(D, D)
  BY Zenon, <1>3, <1>5, Fun_IsInj
<1>7. Rank(e) \in Surjection(D, D)
  BY Zenon, <1>1, <1>6, FS_Injection
<1>8. Rank(e) \in Bijection(D, D)
  BY Zenon, <1>6, <1>7, Fun_IsBij
<1> QED
  BY Zenon, <1>4, <1>8 DEF D

(* SortFunc finds an arrangement of its input, and no entry comes after    *)
(* one it is to be evaluated before.                                       *)
LEMMA SortFuncArranges ==
    ASSUME NEW T, Sortable(T), NEW e \in Seq(T)
    PROVE  \E p \in Bijection(DOMAIN e, DOMAIN e) :
             /\ SortFunc(e) = [i \in DOMAIN e |-> e[p[i]]]
             /\ \A i, j \in DOMAIN e : i < j => ~EvaluatedBefore(e[p[j]], e[p[i]])
<1> DEFINE D == DOMAIN e
           Sorts(p) == \A i, j \in D : i < j => ~EvaluatedBefore(e[p[j]], e[p[i]])
           order == CHOOSE p \in Bijection(D, D) : Sorts(p)
           at == Inverse(Rank(e), D, D)
<1>1. /\ at \in Bijection(D, D) /\ at \in [D -> D]
      /\ \A k \in D : Rank(e)[at[k]] = k
  <2>1. Rank(e) \in Bijection(D, D)
    BY Zenon, RankOrders
  <2>2. at \in Bijection(D, D) /\ \A i \in D : at[Rank(e)[i]] = i
    BY Zenon, <2>1, Fun_BijInverse
  <2>3. at \in [D -> D]
    BY <2>2, Fun_BijectionProperties
  <2>4. \A k \in D : \E i \in D : Rank(e)[i] = k
    BY <2>1, Fun_BijectionProperties
  <2> QED
    BY Zenon, <2>2, <2>3, <2>4
<1> HIDE DEF at
<1>2. Sorts(at)
  <2> SUFFICES ASSUME NEW i \in D, NEW j \in D, i < j, EvaluatedBefore(e[at[j]], e[at[i]])
               PROVE  FALSE
    BY Zenon
  <2>1. at[i] \in D /\ at[j] \in D
    BY Zenon, <1>1
  <2>2. Rank(e)[at[j]] < Rank(e)[at[i]]
    BY Zenon, <2>1, RankOrders DEF Precedes
  <2>3. j < i
    BY Zenon, <1>1, <2>2
  <2>4. i \in Int /\ j \in Int
    OBVIOUS
  <2> QED
    BY <2>3, <2>4
<1>3. order \in Bijection(D, D) /\ Sorts(order)
  <2> HIDE DEF Sorts, D
  <2> QED
    BY Zenon, <1>1, <1>2
<1>4. SortFunc(e) = [i \in D |-> e[order[i]]]
  BY Zenon DEF SortFunc
<1> HIDE DEF order
<1> QED
  BY Zenon, <1>3, <1>4

(* Sorting keeps the entries, and keeps them apart.                        *)
LEMMA SortFuncKeeps ==
    ASSUME NEW T, Sortable(T), NEW list \in Seq(T)
    PROVE  /\ SortFunc(list) \in Seq(T)
           /\ Range(SortFunc(list)) = Range(list)
           /\ (\A i, j \in DOMAIN list : list[i] = list[j] => i = j) =>
                 \A i, j \in DOMAIN SortFunc(list) : SortFunc(list)[i] = SortFunc(list)[j] => i = j
<1> DEFINE D == DOMAIN list
           t == SortFunc(list)
<1>1. PICK p \in Bijection(D, D) : t = [i \in D |-> list[p[i]]]
  BY Zenon, SortFuncArranges
<1>2. /\ p \in [D -> D] /\ (\A i, j \in D : p[i] = p[j] => i = j)
      /\ \A k \in D : \E i \in D : p[i] = k
  BY Fun_BijectionProperties
<1>3. D = 1..Len(list) /\ Len(list) \in Nat /\ \A i \in D : list[i] \in T
  OBVIOUS
<1> HIDE DEF D, t
<1>4. t \in [D -> T] /\ DOMAIN t = D /\ \A i \in D : t[i] = list[p[i]]
  BY Zenon, <1>1, <1>2, <1>3
<1>5. t \in Seq(T)
  BY <1>3, <1>4
<1>6. Range(t) = Range(list)
  BY <1>2, <1>4 DEF Range, D
<1>7. (\A i, j \in D : list[i] = list[j] => i = j) => \A i, j \in D : t[i] = t[j] => i = j
  BY <1>2, <1>4
<1> QED BY Zenon, <1>4, <1>5, <1>6, <1>7 DEF D, t

-----------------------------------------------------------------------------
(* NewSnapshot                                                             *)

(* A window that ends, if it does, after it begins.                        *)
Opens(d) == d.activeFrom = 0 \/ d.activeUntil = 0 \/ d.activeUntil > d.activeFrom

LEMMA DefinitionChecks ==
    ASSUME NEW definitions \in Seq(PolicyDefinition), NEW i \in DOMAIN definitions
    PROVE  DefinitionError(definitions, i) = "none" <=>
             /\ definitions[i].id # 0 /\ definitions[i].evaluator
             /\ \A j \in 1..(i-1) : definitions[j].id # definitions[i].id
             /\ Opens(definitions[i])
<1> DEFINE d == definitions[i]
           a == d.id = 0 \/ ~d.evaluator
           b == \E j \in 1..(i-1) : definitions[j].id = d.id
           c == d.activeFrom # 0 /\ d.activeUntil # 0 /\ ~(d.activeUntil > d.activeFrom)
<1>1. d.evaluator \in BOOLEAN
  <2>1. \A x \in PolicyDefinition : x.evaluator \in BOOLEAN
    BY Zenon DEF PolicyDefinition
  <2>2. d \in PolicyDefinition
    OBVIOUS
  <2> QED BY Zenon, <2>1, <2>2
<1>2. a \in BOOLEAN /\ b \in BOOLEAN /\ c \in BOOLEAN
  BY Zenon
<1>3. DefinitionError(definitions, i) =
        FirstError(<< <<a, "ErrInvalidPolicy">>, <<b, "ErrDuplicatePolicy">>,
                      <<c, "ErrInvalidActivationWindow">> >>)
  BY Zenon DEF DefinitionError
<1>4. a <=> ~(d.id # 0 /\ d.evaluator)
  BY Zenon, <1>1
<1>5. b <=> ~(\A j \in 1..(i-1) : definitions[j].id # d.id)
  BY Zenon
<1>6. c <=> ~Opens(d)
  BY Zenon DEF Opens
<1>7. DefinitionError(definitions, i) =
        IF a THEN "ErrInvalidPolicy" ELSE IF b THEN "ErrDuplicatePolicy"
        ELSE IF c THEN "ErrInvalidActivationWindow" ELSE "none"
  <2> HIDE DEF a, b, c
  <2> QED BY <1>2, <1>3, ThreeChecks
<1> HIDE DEF a, b, c, d
<1>8. DefinitionError(definitions, i) = "none" <=> ~a /\ ~b /\ ~c
  BY Zenon, <1>7
<1> QED
  BY Zenon, <1>4, <1>5, <1>6, <1>8 DEF d

(* NewSnapshot accepts what its checks do not refuse.                      *)
LEMMA NewSnapshotChecks ==
    ASSUME NEW revision, NEW algorithm, NEW definitions \in Seq(PolicyDefinition)
    PROVE  NewSnapshot(revision, algorithm, definitions).err = "none" <=>
             /\ revision # 0 /\ algorithm \in Algorithms
             /\ \A i \in DOMAIN definitions : DefinitionError(definitions, i) = "none"
<1> DEFINE failing == {i \in DOMAIN definitions : DefinitionError(definitions, i) # "none"}
           b == Combine(algorithm, <<>>).err
           c == IF failing = {} THEN "none" ELSE DefinitionError(definitions, Min(failing))
           first == revision = 0
           second == b # "none"
           third == failing # {}
<1>1. NewSnapshot(revision, algorithm, definitions).err =
        FirstError(<< <<first, "ErrInvalidRevision">>, <<second, b>>, <<third, c>> >>)
  BY Zenon DEF NewSnapshot
<1>2. b = IF algorithm \in Algorithms THEN "none" ELSE "ErrInvalidCombiningAlgorithm"
  BY DEF Combine
<1>3. failing # {} => c # "none"
  <2>1. failing \subseteq Nat
    OBVIOUS
  <2>2. failing # {} => Min(failing) \in failing
    <3> HIDE DEF failing
    <3> QED BY Zenon, <2>1, MinOfNats
  <2> QED
    BY Zenon, <2>2
<1>4. failing = {} <=> \A i \in DOMAIN definitions : DefinitionError(definitions, i) = "none"
  BY Zenon
<1>5. first \in BOOLEAN /\ second \in BOOLEAN /\ third \in BOOLEAN
  BY Zenon
<1> HIDE DEF failing, b, c
<1>6. NewSnapshot(revision, algorithm, definitions).err =
        IF first THEN "ErrInvalidRevision" ELSE IF second THEN b ELSE IF third THEN c ELSE "none"
  <2> HIDE DEF first, second, third
  <2> QED BY <1>1, <1>5, ThreeChecks
<1> QED
  BY Zenon, <1>2, <1>3, <1>4, <1>6

(* What holds of every snapshot NewSnapshot returns: it has the policies   *)
(* of the definitions, each once, under distinct IDs, in evaluation order  *)
(* if the algorithm asks for it; each applies from the instant its window  *)
(* opens.                                                                  *)
WellBuilt(s, revision, definitions) ==
    /\ s \in SnapshotRecord
    /\ Ordered(s)
    /\ DOMAIN s.policies = DOMAIN definitions
    /\ \E p \in Bijection(DOMAIN definitions, DOMAIN definitions) :
         \A i \in DOMAIN definitions : s.policies[i] = Entry(revision, definitions[p[i]])
    /\ \A i, j \in DOMAIN s.policies : s.policies[i].id = s.policies[j].id => i = j
    /\ \A i \in DOMAIN s.policies :
         /\ s.policies[i].id # 0 /\ s.policies[i].revision # 0
         /\ ActiveAt(s.policies[i], s.policies[i].activeFrom)

LEMMA EntryOfDefinition ==
    ASSUME NEW revision \in Nat \ {0}, NEW d \in PolicyDefinition
    PROVE  /\ Entry(revision, d) \in Policy
           /\ Entry(revision, d).id = d.id /\ Entry(revision, d).priority = d.priority
           /\ Entry(revision, d).revision = IF d.revision = 0 THEN revision ELSE d.revision
           /\ Opens(d) => ActiveAt(Entry(revision, d), Entry(revision, d).activeFrom)
<1>1. /\ d.id \in Nat /\ d.revision \in Nat /\ d.priority \in Int
      /\ d.activeFrom \in Nat /\ d.activeUntil \in Nat
  BY Zenon DEF PolicyDefinition
<1>2. Entry(revision, d) \in Policy
  BY Zenon, <1>1 DEF Entry, Policy
<1>3. /\ Entry(revision, d).id = d.id /\ Entry(revision, d).priority = d.priority
      /\ Entry(revision, d).revision = IF d.revision = 0 THEN revision ELSE d.revision
      /\ Entry(revision, d).activeFrom = d.activeFrom
      /\ Entry(revision, d).activeUntil = d.activeUntil
  BY Zenon DEF Entry
<1>4. Opens(d) => ActiveAt(Entry(revision, d), Entry(revision, d).activeFrom)
  <2>1. \A from, until \in Nat : from = 0 \/ until = 0 \/ until > from =>
            (from = 0 \/ from >= from) /\ (until = 0 \/ from < until)
    OBVIOUS
  <2> QED
    BY Zenon, <1>1, <1>3, <2>1 DEF Opens, ActiveAt
<1> QED
  BY Zenon, <1>2, <1>3, <1>4

(* NewSnapshot of snapshot.go: what it returns without an error is well    *)
(* built, whatever the definitions and their order.                        *)
THEOREM NewSnapshotBuildsWell ==
    ASSUME NEW revision \in Nat, NEW algorithm, NEW definitions \in Seq(PolicyDefinition),
           NewSnapshot(revision, algorithm, definitions).err = "none"
    PROVE  WellBuilt(NewSnapshot(revision, algorithm, definitions).snapshot, revision, definitions)
<1> DEFINE s == NewSnapshot(revision, algorithm, definitions).snapshot
           D == DOMAIN definitions
           entries == [i \in D |-> Entry(revision, definitions[i])]
<1>1. revision \in Nat \ {0} /\ algorithm \in Algorithms
  BY Zenon, NewSnapshotChecks
<1>2. ASSUME NEW i \in D
      PROVE  /\ definitions[i] \in PolicyDefinition /\ definitions[i].id # 0
             /\ \A j \in D : j < i => definitions[j].id # definitions[i].id
             /\ Opens(definitions[i])
  <2>1. DefinitionError(definitions, i) = "none" /\ definitions[i] \in PolicyDefinition
    BY NewSnapshotChecks
  <2>2. \A j \in D : j < i => j \in 1..(i-1)
    OBVIOUS
  <2> QED
    BY Zenon, <2>1, <2>2, DefinitionChecks
<1>3. D = 1..Len(definitions) /\ Len(definitions) \in Nat
  OBVIOUS
<1>4. \A i, j \in D : definitions[i].id = definitions[j].id => i = j
  <2>1. \A i, j \in D : i < j \/ j < i \/ i = j
    BY <1>3
  <2> QED
    BY Zenon, <1>2, <2>1
<1>5. entries \in Seq(Policy) /\ DOMAIN entries = D
  <2>1. \A i \in D : Entry(revision, definitions[i]) \in Policy
    BY Zenon, <1>1, <1>2, EntryOfDefinition
  <2> QED
    BY <1>3, <2>1
<1>6. /\ s.revision = revision /\ s.algorithm = algorithm
      /\ s.policies = PolicyOrder(algorithm, entries)
  BY Zenon DEF NewSnapshot
<1> HIDE DEF s
<1>7. PICK p \in Bijection(D, D) :
        /\ s.policies = [i \in D |-> entries[p[i]]]
        /\ algorithm = "PriorityOrder" =>
             \A i, j \in D : i < j => ~EvaluatedBefore(entries[p[j]], entries[p[i]])
  <2>1. CASE algorithm = "PriorityOrder"
    <3> HIDE DEF entries, D
    <3>1. s.policies = SortFunc(entries)
      BY Zenon, <1>6, <2>1 DEF PolicyOrder
    <3> QED
      BY Zenon, <1>5, <3>1, PoliciesAreSortable, SortFuncArranges
  <2>2. CASE algorithm # "PriorityOrder"
    <3> DEFINE id == [i \in D |-> i]
    <3>1. id \in Bijection(D, D)
      <4>1. id \in [D -> D] /\ (\A i, j \in D : id[i] = id[j] => i = j)
        BY Zenon
      <4>2. \A i \in D : \E j \in D : id[j] = i
        BY Zenon
      <4> HIDE DEF id, D
      <4> QED
        BY Zenon, <4>1, <4>2, Fun_IsBij
    <3>2. s.policies = [i \in D |-> entries[id[i]]]
      BY Zenon, <1>6, <2>2 DEF PolicyOrder
    <3> QED
      BY Zenon, <2>2, <3>1, <3>2
  <2> QED
    BY Zenon, <2>1, <2>2
<1>8. p \in [D -> D] /\ \A i, j \in D : p[i] = p[j] => i = j
  <2> HIDE DEF D
  <2> QED BY <1>7, Fun_BijectionProperties
<1>9. DOMAIN s.policies = D /\ \A i \in D : s.policies[i] = Entry(revision, definitions[p[i]])
  BY Zenon, <1>7, <1>8
<1>10. /\ s.policies \in Seq(Policy)
       /\ \A i \in D : /\ s.policies[i] \in Policy
                       /\ s.policies[i].id = definitions[p[i]].id
                       /\ s.policies[i].id # 0 /\ s.policies[i].revision # 0
                       /\ ActiveAt(s.policies[i], s.policies[i].activeFrom)
  <2>1. ASSUME NEW i \in D
        PROVE  /\ s.policies[i] \in Policy
               /\ s.policies[i].id = definitions[p[i]].id
               /\ s.policies[i].id # 0 /\ s.policies[i].revision # 0
               /\ ActiveAt(s.policies[i], s.policies[i].activeFrom)
    <3> HIDE DEF D
    <3>1. p[i] \in D /\ s.policies[i] = Entry(revision, definitions[p[i]])
      BY Zenon, <1>8, <1>9
    <3>2. /\ definitions[p[i]] \in PolicyDefinition /\ definitions[p[i]].id # 0
          /\ Opens(definitions[p[i]])
      BY Zenon, <1>2, <3>1
    <3> QED
      BY <1>1, <3>1, <3>2, EntryOfDefinition
  <2>2. s.policies = [i \in 1..Len(definitions) |-> s.policies[i]]
    BY Zenon, <1>3, <1>7
  <2>3. s.policies \in Seq(Policy)
    <3>1. [i \in 1..Len(definitions) |-> s.policies[i]] \in Seq(Policy)
      BY <1>3, <2>1
    <3> QED BY Zenon, <2>2, <3>1
  <2> QED
    BY Zenon, <2>1, <2>3
<1> HIDE DEF D
<1>11. \A i, j \in D : s.policies[i].id = s.policies[j].id => i = j
  BY <1>4, <1>8, <1>10
<1>12. Ordered(s)
  <2> SUFFICES ASSUME algorithm = "PriorityOrder", NEW i \in D, NEW j \in D, i < j
               PROVE  EvaluatedBefore(s.policies[i], s.policies[j])
    BY Zenon, <1>6, <1>9 DEF Ordered
  <2>1. ~EvaluatedBefore(s.policies[j], s.policies[i])
    BY Zenon, <1>7
  <2>2. s.policies[i].id # s.policies[j].id
    <3>1. i # j
      BY <1>3
    <3> QED BY Zenon, <1>11, <3>1
  <2> QED
    BY Zenon, <1>10, <2>1, <2>2, EvaluationIsTotal
<1>13. s \in SnapshotRecord
  <2>1. s = [revision |-> revision, algorithm |-> algorithm,
             policies |-> PolicyOrder(algorithm, entries)]
    BY Zenon DEF NewSnapshot, s, D
  <2> QED
    BY Zenon, <1>1, <1>6, <1>10, <2>1 DEF SnapshotRecord
<1> QED
  BY Zenon, <1>7, <1>9, <1>10, <1>11, <1>12, <1>13 DEF WellBuilt, s, D

=============================================================================
