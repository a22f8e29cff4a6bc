---------------------------- MODULE EngineProofs ----------------------------
(***************************************************************************)
(* Proofs about Engine, for every number of callers and writers, every     *)
(* set of candidate snapshots and every limit: ReplaceSnapshot, what       *)
(* Decide and DecideBatch answer, and that Engine implements               *)
(* DecisionPoint.                                                          *)
(***************************************************************************)
EXTENDS Engine, SnapshotProofs

-----------------------------------------------------------------------------
(* The snapshots at hand                                                   *)

(* Every snapshot the program has is what NewSnapshot promises.            *)
LEMMA SnapshotTypes ==
    /\ InitialSnapshot \in SnapshotRecord /\ Ordered(InitialSnapshot)
    /\ Candidates \subseteq SnapshotRecord /\ \A s \in Candidates : Ordered(s)
<1>1. ASSUME NEW a \in CandidateArguments \cup {InitialArguments}, Build(a).err = "none"
      PROVE  Build(a).snapshot \in SnapshotRecord /\ Ordered(Build(a).snapshot)
  <2>1. a.revision \in Nat /\ a.definitions \in Seq(PolicyDefinition)
    BY Zenon, EngineAssumption
  <2> QED
    BY Zenon, <1>1, <2>1, NewSnapshotBuildsWell DEF Build, WellBuilt
<1> QED
  BY Zenon, <1>1, EngineAssumption DEF InitialSnapshot, Candidates

-----------------------------------------------------------------------------
(* The composition table                                                   *)

(* No decision before the last one was decisive.                           *)
StillUndecided(s, f) ==
    \A k \in DOMAIN f.decisions :
        k < Len(f.decisions) => ~IsDecisive(s.algorithm, f.decisions[k].outcome)

(* The loop of decide has ended.                                           *)
Ended(s, f) ==
    \/ Len(f.decisions) >= Len(s.policies)
    \/ /\ f.decisions # <<>>
       /\ IsDecisive(s.algorithm, f.decisions[Len(f.decisions)].outcome)

(* If the policies that were not called would have answered rest.          *)
Completed(s, f, rest) ==
    [k \in DOMAIN s.policies |->
        IF k <= Len(f.decisions) THEN f.decisions[k].outcome ELSE rest[k]]

(* The outcome at n is the first decisive one.                             *)
DecidedAt(algorithm, outcome, n) ==
    /\ n \in DOMAIN outcome
    /\ IsDecisive(algorithm, outcome[n])
    /\ \A k \in DOMAIN outcome : k < n => ~IsDecisive(algorithm, outcome[k])

(* No outcome is decisive.                                                 *)
NeverDecided(algorithm, outcome) ==
    \A k \in DOMAIN outcome : outcome[k] \in ValidOutcomes /\ ~IsDecisive(algorithm, outcome[k])

(* What the table says when one outcome at n is decisive and nothing       *)
(* before it is.                                                           *)
LEMMA TableAtDecisive ==
    ASSUME NEW s \in SnapshotRecord, Ordered(s),
           NEW outcome, DOMAIN outcome = DOMAIN s.policies,
           NEW n, DecidedAt(s.algorithm, outcome, n)
    PROVE  TableOutcome(s.algorithm, s.policies, outcome) = outcome[n]
<1> USE DEF DecidedAt
<1> DEFINE applicable == {i \in DOMAIN outcome : outcome[i] # "NotApplicable"}
           seen == {outcome[i] : i \in DOMAIN outcome}
<1>1. /\ DOMAIN outcome \subseteq Nat /\ n \in Nat
      /\ \A i \in DOMAIN outcome : s.policies[i] \in Policy /\ s.policies[i].id \in Nat
      /\ s.algorithm \in Algorithms
  <2>1. s.policies \in Seq(Policy) /\ s.algorithm \in Algorithms
    BY Zenon DEF SnapshotRecord
  <2>2. DOMAIN outcome = 1..Len(s.policies) /\ Len(s.policies) \in Nat
    BY <2>1
  <2>3. \A i \in DOMAIN outcome : s.policies[i] \in Policy
    BY <2>1, <2>2
  <2>4. DOMAIN outcome \subseteq Nat /\ n \in Nat
    BY <2>2
  <2>5. \A p \in Policy : p.id \in Nat
    BY Zenon DEF Policy
  <2> QED
    BY Zenon, <2>1, <2>3, <2>4, <2>5
<1>2. n \in applicable /\ outcome[n] \in seen
  BY Zenon DEF IsDecisive
<1>3. CASE s.algorithm = "DenyOverrides"
  BY Zenon, <1>2, <1>3 DEF TableOutcome, IsDecisive
<1>4. CASE s.algorithm = "AllowOverrides"
  BY Zenon, <1>2, <1>4 DEF TableOutcome, IsDecisive
<1>5. ASSUME s.algorithm \in {"FirstApplicable", "PriorityOrder"}
      PROVE  \A i \in applicable : i = n \/ n < i
  BY <1>1, <1>5 DEF IsDecisive
<1>6. CASE s.algorithm = "FirstApplicable"
  <2> DEFINE first == CHOOSE i \in applicable : \A j \in applicable : i <= j
  <2>1. \A j \in applicable : n <= j
    BY <1>1, <1>5, <1>6
  <2>2. \A i \in applicable : (\A j \in applicable : i <= j) => i = n
    BY <1>1, <1>2, <2>1
  <2>3. first = n
    <3> HIDE DEF applicable
    <3> QED
      BY Zenon, <1>2, <2>1, <2>2
  <2>4. TableOutcome(s.algorithm, s.policies, outcome) = outcome[first]
    BY Zenon, <1>2, <1>6 DEF TableOutcome
  <2> QED
    BY Zenon, <2>3, <2>4
<1>7. CASE s.algorithm = "PriorityOrder"
  <2> DEFINE p == s.policies
             Top(i) == \A j \in applicable :
                          \/ p[i].priority > p[j].priority
                          \/ p[i].priority = p[j].priority /\ p[i].id <= p[j].id
             highest == CHOOSE i \in applicable : Top(i)
  <2>1. \A j \in applicable : n < j => EvaluatedBefore(p[n], p[j])
    BY Zenon, <1>7 DEF Ordered
  <2>2. Top(n)
    <3> SUFFICES ASSUME NEW j \in applicable
                 PROVE  \/ p[n].priority > p[j].priority
                        \/ p[n].priority = p[j].priority /\ p[n].id <= p[j].id
      BY Zenon
    <3>1. CASE j = n
      <4>1. p[n].id \in Nat
        BY Zenon, <1>1
      <4> QED
        BY <3>1, <4>1
    <3>2. CASE n < j
      BY Zenon, <1>1, <2>1, <3>2, EvaluatedFirst
    <3> QED
      BY Zenon, <1>5, <1>7, <3>1, <3>2
  <2>3. ASSUME NEW i \in applicable, Top(i) PROVE i = n
    <3>1. \/ p[i].priority > p[n].priority
          \/ p[i].priority = p[n].priority /\ p[i].id <= p[n].id
      BY Zenon, <1>2, <2>3
    <3>2. ~(n < i)
      BY Zenon, <1>1, <2>1, <3>1, EvaluatedFirst
    <3> QED
      BY Zenon, <1>5, <1>7, <3>2
  <2>4. highest = n
    <3> HIDE DEF applicable, Top
    <3> QED
      BY Zenon, <1>2, <2>2, <2>3
  <2>5. TableOutcome(s.algorithm, s.policies, outcome) = outcome[highest]
    BY Zenon, <1>2, <1>7 DEF TableOutcome
  <2> QED
    BY Zenon, <2>4, <2>5
<1> QED
  BY Zenon, <1>1, <1>3, <1>4, <1>6, <1>7 DEF Algorithms

(* What the table says when nothing is decisive.                           *)
LEMMA TableUndecided ==
    ASSUME NEW algorithm \in Algorithms, NEW policies, NEW outcome,
           NeverDecided(algorithm, outcome)
    PROVE  /\ (\A k \in DOMAIN outcome : outcome[k] = "NotApplicable") =>
                TableOutcome(algorithm, policies, outcome) = "NotApplicable"
           /\ \A k \in DOMAIN outcome :
                outcome[k] # "NotApplicable" =>
                    TableOutcome(algorithm, policies, outcome) = outcome[k]
<1> USE DEF NeverDecided
<1> DEFINE applicable == {i \in DOMAIN outcome : outcome[i] # "NotApplicable"}
<1>1. ASSUME \A k \in DOMAIN outcome : outcome[k] = "NotApplicable"
      PROVE  TableOutcome(algorithm, policies, outcome) = "NotApplicable"
  <2>1. applicable = {}
    BY Zenon, <1>1
  <2> QED
    BY Zenon, <2>1 DEF TableOutcome
<1>2. ASSUME NEW k \in DOMAIN outcome, outcome[k] # "NotApplicable"
      PROVE  TableOutcome(algorithm, policies, outcome) = outcome[k]
  <2>1. applicable # {}
    BY Zenon, <1>2
  <2>2. CASE algorithm = "DenyOverrides"
    <3>1. outcome[k] = "Allow" /\ \A i \in DOMAIN outcome : outcome[i] # "Deny"
      BY Zenon, <1>2, <2>2 DEF IsDecisive, ValidOutcomes
    <3> QED
      BY Zenon, <2>1, <2>2, <3>1 DEF TableOutcome
  <2>3. CASE algorithm = "AllowOverrides"
    <3>1. outcome[k] = "Deny" /\ \A i \in DOMAIN outcome : outcome[i] # "Allow"
      BY Zenon, <1>2, <2>3 DEF IsDecisive, ValidOutcomes
    <3> QED
      BY Zenon, <2>1, <2>3, <3>1 DEF TableOutcome
  <2>4. algorithm \notin {"FirstApplicable", "PriorityOrder"}
    BY Zenon, <1>2 DEF IsDecisive
  <2> QED
    BY Zenon, <2>2, <2>3, <2>4 DEF Algorithms
<1> QED
  BY Zenon, <1>1, <1>2

(* Composing the decisions taken so far is what the table says of all.     *)
LEMMA SelectFollowsTable ==
    ASSUME NEW s \in SnapshotRecord, NEW f \in Frame, Ordered(s),
           Len(f.decisions) <= Len(s.policies), StillUndecided(s, f), Ended(s, f),
           NEW rest \in [(Len(f.decisions) + 1)..Len(s.policies) -> ValidOutcomes]
    PROVE  (Select(s.algorithm, f.decisions).outcome = "Allow")
             <=> (TableOutcome(s.algorithm, s.policies, Completed(s, f, rest)) = "Allow")
<1> DEFINE n == Len(f.decisions)
           all == Completed(s, f, rest)
           selected == Select(s.algorithm, f.decisions)
           table == TableOutcome(s.algorithm, s.policies, all)
           Decisive(i) == IsDecisive(s.algorithm, f.decisions[i].outcome)
<1>1. /\ f.decisions \in Seq(PolicyDecision) /\ s.policies \in Seq(Policy)
      /\ s.algorithm \in Algorithms /\ n \in Nat /\ Len(s.policies) \in Nat
      /\ DOMAIN f.decisions = 1..n /\ DOMAIN s.policies = 1..Len(s.policies)
  BY DEF Frame, SnapshotRecord
<1>2. /\ DOMAIN all = DOMAIN s.policies
      /\ \A k \in DOMAIN f.decisions : k \in DOMAIN all /\ all[k] = f.decisions[k].outcome
  <2>1. DOMAIN all = DOMAIN s.policies
    BY Zenon DEF Completed
  <2>2. ASSUME NEW k \in DOMAIN f.decisions
        PROVE  k \in DOMAIN s.policies /\ k <= Len(f.decisions)
    BY <1>1
  <2>3. \A k \in DOMAIN s.policies : k <= Len(f.decisions) => all[k] = f.decisions[k].outcome
    BY Zenon DEF Completed
  <2> QED
    BY Zenon, <2>1, <2>2, <2>3
<1>3. \A k \in DOMAIN f.decisions : f.decisions[k].outcome \in ValidOutcomes
  <2>1. \A k \in DOMAIN f.decisions : f.decisions[k] \in PolicyDecision
    BY <1>1
  <2>2. \A d \in PolicyDecision : d.outcome \in ValidOutcomes
    BY Zenon DEF PolicyDecision
  <2> QED
    BY Zenon, <2>1, <2>2
<1> HIDE DEF all, selected, table
<1>4. ASSUME NEW i \in DOMAIN f.decisions, Decisive(i) PROVE table = f.decisions[i].outcome
  <2>1. i = n
    BY <1>1, <1>4 DEF StillUndecided
  <2>2. \A k \in DOMAIN all : k < i => ~IsDecisive(s.algorithm, all[k])
    <3> SUFFICES ASSUME NEW k \in DOMAIN all, k < i
                 PROVE  ~IsDecisive(s.algorithm, all[k])
      BY Zenon
    <3>1. k \in DOMAIN f.decisions /\ k < n
      BY <1>1, <1>2, <2>1
    <3> QED
      BY Zenon, <1>2, <3>1 DEF StillUndecided
  <2>3. i \in DOMAIN all /\ all[i] = f.decisions[i].outcome
    BY Zenon, <1>2
  <2>4. IsDecisive(s.algorithm, all[i])
    BY Zenon, <1>4, <2>3
  <2>5. DecidedAt(s.algorithm, all, i)
    BY Zenon, <2>2, <2>3, <2>4 DEF DecidedAt
  <2>6. TableOutcome(s.algorithm, s.policies, all) = all[i]
    BY <1>2, <2>5, TableAtDecisive
  <2> QED
    BY Zenon, <2>3, <2>6 DEF table
<1>5. ASSUME \A i \in DOMAIN f.decisions : ~Decisive(i)
      PROVE  /\ DOMAIN all = DOMAIN f.decisions
             /\ NeverDecided(s.algorithm, all)
  <2>1. n >= Len(s.policies)
    <3>1. f.decisions # <<>> => n \in DOMAIN f.decisions
      BY <1>1
    <3> QED
      BY Zenon, <1>5, <3>1 DEF Ended
  <2>2. DOMAIN all = DOMAIN f.decisions
    BY <1>1, <1>2, <2>1
  <2> QED
    BY Zenon, <1>2, <1>3, <1>5, <2>2 DEF NeverDecided
<1>6. CASE \E i \in DOMAIN f.decisions : Decisive(i) /\ selected = f.decisions[i]
  BY Zenon, <1>4, <1>6 DEF selected, table, all
<1>7. CASE /\ \A i \in DOMAIN f.decisions : ~Decisive(i)
           /\ \E i \in DOMAIN f.decisions :
                f.decisions[i].outcome # "NotApplicable" /\ selected = f.decisions[i]
  <2>1. PICK i \in DOMAIN f.decisions :
          f.decisions[i].outcome # "NotApplicable" /\ selected = f.decisions[i]
    BY Zenon, <1>7
  <2>2. i \in DOMAIN all /\ all[i] = selected.outcome /\ all[i] # "NotApplicable"
    BY Zenon, <1>2, <2>1
  <2>3. NeverDecided(s.algorithm, all)
    BY Zenon, <1>5, <1>7
  <2>4. TableOutcome(s.algorithm, s.policies, all) = all[i]
    BY <1>1, <2>2, <2>3, TableUndecided
  <2> QED
    BY Zenon, <2>2, <2>4 DEF selected, all
<1>8. CASE /\ \A i \in DOMAIN f.decisions :
                ~Decisive(i) /\ f.decisions[i].outcome = "NotApplicable"
           /\ selected = NotApplicableDecision
  <2>1. \A k \in DOMAIN all : all[k] = "NotApplicable"
    BY Zenon, <1>2, <1>5, <1>8
  <2>2. TableOutcome(s.algorithm, s.policies, all) = "NotApplicable"
    <3>1. NeverDecided(s.algorithm, all)
      BY Zenon, <1>5, <1>8
    <3> QED
      BY Zenon, <1>1, <2>1, <3>1, TableUndecided
  <2>3. selected.outcome = "NotApplicable"
    BY Zenon, <1>8 DEF NotApplicableDecision
  <2> QED
    BY Zenon, <2>2, <2>3 DEF selected, all
<1>9. \/ \E i \in DOMAIN f.decisions : Decisive(i) /\ selected = f.decisions[i]
      \/ /\ \A i \in DOMAIN f.decisions : ~Decisive(i)
         /\ \E i \in DOMAIN f.decisions :
              f.decisions[i].outcome # "NotApplicable" /\ selected = f.decisions[i]
      \/ /\ \A i \in DOMAIN f.decisions :
              ~Decisive(i) /\ f.decisions[i].outcome = "NotApplicable"
         /\ selected = NotApplicableDecision
  BY <1>1, SelectCases, Zenon DEF selected
<1> QED
  BY Zenon, <1>6, <1>7, <1>8, <1>9

-----------------------------------------------------------------------------
(* The diagnostics of a call                                               *)

(* Diagnostics of the first policies: bounded, and complete unless flagged.*)
Applied(f, k) == f.decisions[k].outcome # "NotApplicable"
Contribution(s, f, k) ==
    IF f.decisions[k].matched = <<>> THEN {s.policies[k].id} ELSE Range(f.decisions[k].matched)

FrameHonest(s, f) ==
    /\ Len(f.matched) <= MaxMatchedPolicyIDs
    /\ f.traceTruncated = (Len(f.decisions) > MaxTraceSize)
    /\ ~f.matchedTruncated =>
         /\ \A k \in DOMAIN f.decisions : Applied(f, k) => ~f.decisions[k].matchedTruncated
         /\ \A x : x \in Range(f.matched) <=>
                     \E k \in DOMAIN f.decisions : Applied(f, k) /\ x \in Contribution(s, f, k)

LEMMA TakeBounds ==
    ASSUME NEW q \in Seq(Nat), NEW n \in Nat
    PROVE  Len(Take(q, n)) <= n /\ (Len(q) <= n => Take(q, n) = q)
<1>1. CASE Len(q) < n
  <2>1. Take(q, n) = SubSeq(q, 1, Len(q))
    BY Zenon, <1>1 DEF Take
  <2> QED
    BY <1>1, <2>1
<1>2. CASE ~(Len(q) < n)
  <2>1. Take(q, n) = SubSeq(q, 1, n)
    BY Zenon, <1>2 DEF Take
  <2> QED
    BY <1>2, <2>1
<1> QED
  BY Zenon, <1>1, <1>2

LEMMA MembersOfConcat ==
    ASSUME NEW a \in Seq(Nat), NEW b \in Seq(Nat), NEW x
    PROVE  x \in Range(a \o b) <=> x \in Range(a) \/ x \in Range(b)
<1>1. ASSUME NEW i \in DOMAIN a PROVE i \in DOMAIN (a \o b) /\ (a \o b)[i] = a[i]
  OBVIOUS
<1>2. ASSUME NEW i \in DOMAIN b
      PROVE  Len(a) + i \in DOMAIN (a \o b) /\ (a \o b)[Len(a) + i] = b[i]
  OBVIOUS
<1>3. ASSUME NEW i \in DOMAIN (a \o b)
      PROVE  \/ i \in DOMAIN a /\ (a \o b)[i] = a[i]
             \/ i - Len(a) \in DOMAIN b /\ (a \o b)[i] = b[i - Len(a)]
  OBVIOUS
<1> DEFINE ab == a \o b
<1>4. ASSUME x \in Range(ab) PROVE x \in Range(a) \/ x \in Range(b)
  <2>1. PICK i \in DOMAIN ab : x = ab[i]
    BY Zenon, <1>4 DEF Range
  <2> QED
    BY Zenon, <1>3, <2>1 DEF Range
<1>5. ASSUME x \in Range(a) PROVE x \in Range(ab)
  BY Zenon, <1>1, <1>5 DEF Range
<1>6. ASSUME x \in Range(b) PROVE x \in Range(ab)
  <2>1. PICK i \in DOMAIN b : x = b[i]
    BY Zenon, <1>6 DEF Range
  <2>2. Len(a) + i \in DOMAIN ab /\ x = ab[Len(a) + i]
    BY Zenon, <1>2, <2>1
  <2> HIDE DEF ab
  <2> QED
    BY Zenon, <2>2 DEF Range
<1> QED
  BY Zenon, <1>4, <1>5, <1>6

(* From f to g the IDs in new were added, and all of them unless flagged.  *)
MatchesGrow(f, d, new, g) ==
    /\ Len(g.matched) <= MaxMatchedPolicyIDs
    /\ ~g.matchedTruncated =>
         /\ ~f.matchedTruncated
         /\ d.outcome # "NotApplicable" => ~d.matchedTruncated
         /\ \A x : x \in Range(g.matched) <=>
                     \/ x \in Range(f.matched)
                     \/ d.outcome # "NotApplicable" /\ x \in Range(new)

(* What the loop body adds to the matched IDs.                             *)
LEMMA RecordedMatches ==
    ASSUME NEW f \in Frame, NEW policy \in Policy, NEW d \in PolicyDecision,
           NEW new \in Seq(Nat), new = IF d.matched = <<>> THEN <<policy.id>> ELSE d.matched,
           NEW g, g = Recorded(f, policy, d), Len(f.matched) <= MaxMatchedPolicyIDs
    PROVE  MatchesGrow(f, d, new, g)
<1> DEFINE full == f.matched \o new
<1>1. /\ f.matched \in Seq(Nat) /\ MaxMatchedPolicyIDs \in Nat
      /\ Len(f.matched) \in Nat /\ Len(new) \in Nat
  BY EngineAssumption, SnapshotTypes DEF Frame, Limit
<1>2. full \in Seq(Nat) /\ Len(full) = Len(f.matched) + Len(new)
  BY <1>1
<1>3. CASE d.outcome = "NotApplicable"
  <2>1. g.matched = f.matched
    BY Zenon, <1>3 DEF Recorded
  <2>2. ~g.matchedTruncated => ~f.matchedTruncated
    BY Zenon DEF Recorded
  <2> QED
    BY Zenon, <1>3, <2>1, <2>2 DEF MatchesGrow
<1>4. CASE d.outcome # "NotApplicable"
  <2>1. g.matched = Take(full, MaxMatchedPolicyIDs)
    BY Zenon, <1>4 DEF Recorded
  <2>2. Len(g.matched) <= MaxMatchedPolicyIDs
    BY Zenon, <1>1, <1>2, <2>1, TakeBounds
  <2>3. ASSUME ~g.matchedTruncated
        PROVE  /\ ~f.matchedTruncated /\ ~d.matchedTruncated
               /\ ~(Len(new) > MaxMatchedPolicyIDs - Len(f.matched))
    BY <1>4, <2>3, Zenon DEF Recorded
  <2>4. ASSUME ~g.matchedTruncated PROVE g.matched = full
    <3> HIDE DEF full
    <3>1. Len(full) <= MaxMatchedPolicyIDs
      <4>1. ~(Len(new) > MaxMatchedPolicyIDs - Len(f.matched))
        BY Zenon, <2>3, <2>4
      <4>2. \A a, b, m \in Nat : ~(b > m - a) => a + b <= m
        OBVIOUS
      <4> QED
        BY <1>1, <1>2, <4>1, <4>2, Zenon
    <3> QED
      BY Zenon, <1>1, <1>2, <2>1, <3>1, TakeBounds
  <2>5. ASSUME ~g.matchedTruncated, NEW x
        PROVE  x \in Range(g.matched) <=> x \in Range(f.matched) \/ x \in Range(new)
    BY Zenon, <1>1, <2>4, <2>5, MembersOfConcat
  <2> QED
    BY Zenon, <1>4, <2>2, <2>3, <2>5 DEF MatchesGrow
<1> QED
  BY Zenon, <1>3, <1>4

LEMMA RecordedHonest ==
    ASSUME NEW s \in SnapshotRecord, NEW f \in Frame, FrameHonest(s, f),
           Len(f.trace) = IF Len(f.decisions) < MaxTraceSize THEN Len(f.decisions) ELSE MaxTraceSize,
           NEW policy \in Policy, policy = s.policies[Len(f.decisions) + 1],
           NEW d \in PolicyDecision
    PROVE  FrameHonest(s, Recorded(f, policy, d))
<1> DEFINE g == Recorded(f, policy, d)
           n == Len(f.decisions)
           new == IF d.matched = <<>> THEN <<policy.id>> ELSE d.matched
<1>1. /\ f.decisions \in Seq(PolicyDecision) /\ n \in Nat /\ Len(f.trace) \in Nat
      /\ MaxTraceSize \in Nat /\ MaxTraceSize > 0
  BY EngineAssumption, SnapshotTypes DEF Frame, Limit
<1>2. /\ g.decisions = Append(f.decisions, d)
      /\ g.traceTruncated = (f.traceTruncated \/ Len(f.trace) >= MaxTraceSize)
  BY Zenon DEF Recorded
<1>3. /\ Len(f.matched) <= MaxMatchedPolicyIDs
      /\ f.traceTruncated = (n > MaxTraceSize)
  BY Zenon DEF FrameHonest
<1>4. new \in Seq(Nat)
  BY DEF PolicyDecision, Policy
<1>5. Range(new) = IF d.matched = <<>> THEN {policy.id} ELSE Range(d.matched)
  <2>1. Range(<<policy.id>>) = {policy.id}
    BY DEF Range
  <2> QED
    BY Zenon, <2>1
<1>a. g = Recorded(f, policy, d) /\ new = IF d.matched = <<>> THEN <<policy.id>> ELSE d.matched
  BY Zenon
<1> HIDE DEF g, new
<1>6. /\ Len(g.decisions) = n + 1 /\ DOMAIN g.decisions = DOMAIN f.decisions \cup {n + 1}
      /\ g.decisions[n + 1] = d
      /\ \A k \in DOMAIN f.decisions : g.decisions[k] = f.decisions[k]
  BY <1>1, <1>2
<1>7. g.traceTruncated = (Len(g.decisions) > MaxTraceSize)
  <2>1. (n > MaxTraceSize \/ Len(f.trace) >= MaxTraceSize) = (n + 1 > MaxTraceSize)
    BY <1>1
  <2> QED
    BY Zenon, <1>2, <1>3, <1>6, <2>1
<1>8. MatchesGrow(f, d, new, g)
  BY Zenon, <1>3, <1>4, <1>a, RecordedMatches
<1>9. ASSUME ~g.matchedTruncated
      PROVE  /\ \A k \in DOMAIN g.decisions : Applied(g, k) => ~g.decisions[k].matchedTruncated
             /\ \A x : x \in Range(g.matched) <=>
                    \E k \in DOMAIN g.decisions : Applied(g, k) /\ x \in Contribution(s, g, k)
  <2>1. /\ \A k \in DOMAIN f.decisions : Applied(f, k) => ~f.decisions[k].matchedTruncated
        /\ \A x : x \in Range(f.matched) <=>
              \E k \in DOMAIN f.decisions : Applied(f, k) /\ x \in Contribution(s, f, k)
    BY Zenon, <1>8, <1>9 DEF FrameHonest, MatchesGrow
  <2>2. \A k \in DOMAIN f.decisions :
          /\ Applied(g, k) <=> Applied(f, k)
          /\ Contribution(s, g, k) = Contribution(s, f, k)
    BY Zenon, <1>6 DEF Applied, Contribution
  <2>3. /\ Applied(g, n + 1) <=> d.outcome # "NotApplicable"
        /\ Contribution(s, g, n + 1) = Range(new)
    BY Zenon, <1>5, <1>6 DEF Applied, Contribution
  <2>4. ASSUME NEW k \in DOMAIN g.decisions, Applied(g, k)
        PROVE  ~g.decisions[k].matchedTruncated
    BY <1>6, <1>8, <1>9, <2>1, <2>2, <2>3, <2>4, Zenon DEF MatchesGrow
  <2>5. ASSUME NEW x
        PROVE  x \in Range(g.matched) <=>
                 \E k \in DOMAIN g.decisions : Applied(g, k) /\ x \in Contribution(s, g, k)
    <3>1. x \in Range(g.matched) <=>
            \/ x \in Range(f.matched)
            \/ d.outcome # "NotApplicable" /\ x \in Range(new)
      BY Zenon, <1>8, <1>9 DEF MatchesGrow
    <3>2. x \in Range(f.matched) <=>
            \E k \in DOMAIN f.decisions : Applied(g, k) /\ x \in Contribution(s, g, k)
      BY Zenon, <2>1, <2>2
    <3> QED
      BY Zenon, <1>6, <2>3, <3>1, <3>2
  <2> QED
    BY Zenon, <2>4, <2>5
<1>10. FrameHonest(s, g)
  BY <1>7, <1>8, <1>9, Zenon DEF FrameHonest, MatchesGrow
<1> QED
  BY Zenon, <1>10 DEF g

-----------------------------------------------------------------------------
(* Types                                                                   *)

LEMMA EmptySeq == \A T : <<>> \in Seq(T)
OBVIOUS

LEMMA ElementType ==
    ASSUME NEW T, NEW s \in Seq(T), NEW i \in DOMAIN s PROVE s[i] \in T
OBVIOUS

LEMMA LengthType ==
    ASSUME NEW T, NEW s \in Seq(T) PROVE Len(s) \in Nat
OBVIOUS

(* Combine never fails on the decisions that decide recorded, and selects  *)
(* a policy decision.                                                      *)
LEMMA CombineType ==
    ASSUME NEW algorithm \in Algorithms, NEW decisions \in Seq(PolicyDecision)
    PROVE  /\ Combine(algorithm, decisions).err = "none"
           /\ Combine(algorithm, decisions).decision = Select(algorithm, decisions)
           /\ Select(algorithm, decisions) \in PolicyDecision
<1>1. \A i \in DOMAIN decisions : decisions[i] \in PolicyDecision
  OBVIOUS
<1>2. ~\E i \in DOMAIN decisions : decisions[i].outcome = "Invalid"
  BY Zenon, <1>1 DEF PolicyDecision, ValidOutcomes
<1>3. /\ Combine(algorithm, decisions).err = "none"
      /\ Combine(algorithm, decisions).decision = Select(algorithm, decisions)
  BY Zenon, <1>2 DEF Combine
<1>4. NotApplicableDecision \in PolicyDecision
  BY Zenon, EmptySeq DEF NotApplicableDecision, PolicyDecision, ValidOutcomes, Reasons, NoPolicy
<1> QED
  BY Zenon, <1>1, <1>3, <1>4, SelectPicks

(* The loop body of decide keeps its locals typed.                         *)
LEMMA RecordedType ==
    ASSUME NEW f \in Frame, NEW policy \in Policy, NEW d \in PolicyDecision
    PROVE  Recorded(f, policy, d) \in Frame
<1> DEFINE contributed == IF d.matched = <<>> THEN <<policy.id>> ELSE d.matched
           full == f.matched \o contributed
           taken == Take(full, MaxMatchedPolicyIDs)
           traced == [id |-> policy.id, outcome |-> d.outcome, reason |-> d.reason, by |-> d.by]
           g == Recorded(f, policy, d)
<1>1. full \in Seq(Nat)
  BY DEF Frame, PolicyDecision, Policy
<1>2. taken \in Seq(Nat)
  <2> HIDE DEF full
  <2> QED BY <1>1, EngineAssumption, SnapshotTypes DEF Take, Limit
<1>3. traced \in TraceEntry
  BY Zenon DEF TraceEntry, PolicyDecision, Policy
<1>4. /\ Append(f.decisions, d) \in Seq(PolicyDecision)
      /\ Append(f.trace, traced) \in Seq(TraceEntry)
  <2> HIDE DEF traced
  <2> QED BY <1>3 DEF Frame
<1>5. /\ g.matchedTruncated \in BOOLEAN
      /\ g.traceTruncated \in BOOLEAN
  BY Zenon DEF Recorded
<1>6. /\ g.at = f.at
      /\ g.decisions = Append(f.decisions, d)
      /\ g.trace = f.trace \/ g.trace = Append(f.trace, traced)
      /\ g.matched = f.matched \/ g.matched = taken
      /\ g = [at |-> g.at, decisions |-> g.decisions, matched |-> g.matched,
              matchedTruncated |-> g.matchedTruncated, trace |-> g.trace,
              traceTruncated |-> g.traceTruncated]
  BY Zenon DEF Recorded
<1> HIDE DEF g, taken, traced
<1>7. f.at \in Nat /\ f.trace \in Seq(TraceEntry) /\ f.matched \in Seq(Nat)
  BY Zenon DEF Frame
<1>8. g \in Frame
  BY Zenon, <1>2, <1>4, <1>5, <1>6, <1>7 DEF Frame
<1> QED
  BY Zenon, <1>8 DEF g

LEMMA EmptyFrameType == \A at \in Nat : EmptyFrame(at) \in Frame
BY EmptySeq, Zenon DEF EmptyFrame, Frame

LEMMA DenyResultType ==
    ASSUME NEW revision \in Nat, NEW reason \in Reasons, NEW err \in CallErrors
    PROVE  DenyResult(revision, reason, err) \in Result
<1>1. NoPolicy \in Nat
  BY Zenon DEF NoPolicy
<1> QED
  BY <1>1, EmptySeq, Zenon DEF DenyResult, Result

(* Inside the loop of decide there is a policy at hand.                    *)
LEMMA PolicyAtHand ==
    ASSUME TypeOK, NEW c \in Callers, AtPolicy(c)
    PROVE  /\ Len(frame[c].decisions) + 1 \in DOMAIN snap[c].policies
           /\ CurrentPolicy(c) \in Policy
<1>1. frame[c].decisions \in Seq(PolicyDecision) /\ snap[c].policies \in Seq(Policy)
  BY Zenon DEF TypeOK, Frame, SnapshotRecord
<1>2. ~(Len(frame[c].decisions) >= Len(snap[c].policies))
  BY Zenon DEF AtPolicy, LoopEnded
<1> QED
  BY <1>1, <1>2 DEF CurrentPolicy

(* Every return of decide keeps the types.                                 *)
LEMMA ReturnResultType ==
    ASSUME TypeOK, NEW c \in Callers, NEW r \in Result, ReturnResult(c, r)
    PROVE  TypeOK'
<1>1. EmptyFrame(0) \in Frame
  BY Zenon, EmptyFrameType
<1>2. results' \in [Callers -> Seq(Result)]
  BY DEF TypeOK, ReturnResult
<1>3. evidence' \in [Callers -> Seq(Frame)]
  BY DEF TypeOK, ReturnResult
<1>4. frame' \in [Callers -> Frame]
  BY Zenon, <1>1 DEF TypeOK, ReturnResult
<1>5. pc' \in [Callers -> {"idle", "requests", "policies", "done"}]
  BY Zenon DEF TypeOK, ReturnResult
<1> QED
  BY Zenon, <1>2, <1>3, <1>4, <1>5 DEF TypeOK, ReturnResult, writeVars

LEMMA DenyType ==
    ASSUME TypeOK, NEW c \in Callers, NEW reason \in Reasons, NEW err \in CallErrors,
           Deny(c, reason, err)
    PROVE  TypeOK'
<1>1. snap[c].revision \in Nat
  BY Zenon DEF TypeOK, SnapshotRecord
<1>2. DenyResult(snap[c].revision, reason, err) \in Result
  BY Zenon, <1>1, DenyResultType
<1> QED
  BY Zenon, <1>2, ReturnResultType DEF Deny

(* decide returns Allow or Deny, whatever the policies answered.           *)
LEMMA DecidedType ==
    ASSUME TypeOK, NEW c \in Callers
    PROVE  Decided(c) \in Result
<1> DEFINE d == Select(snap[c].algorithm, frame[c].decisions)
<1>1. snap[c].algorithm \in Algorithms /\ snap[c].revision \in Nat
  BY Zenon DEF TypeOK, SnapshotRecord
<1>2. /\ frame[c].decisions \in Seq(PolicyDecision)
      /\ frame[c].matched \in Seq(Nat) /\ frame[c].matchedTruncated \in BOOLEAN
      /\ frame[c].trace \in Seq(TraceEntry) /\ frame[c].traceTruncated \in BOOLEAN
  BY Zenon DEF TypeOK, Frame
<1>3. /\ Combine(snap[c].algorithm, frame[c].decisions).err = "none"
      /\ Combine(snap[c].algorithm, frame[c].decisions).decision = d
      /\ d \in PolicyDecision
  BY Zenon, <1>1, <1>2, CombineType
<1> HIDE DEF d
<1>4. d.outcome \in ValidOutcomes /\ d.reason \in Reasons /\ d.by \in Nat
  BY Zenon, <1>3 DEF PolicyDecision
<1> DEFINE outcome == IF d.outcome = "NotApplicable" THEN "Deny" ELSE d.outcome
           reason == IF d.outcome = "NotApplicable" THEN "DefaultDeny" ELSE d.reason
<1>5. Decided(c) =
        [outcome |-> outcome, reason |-> reason,
         by |-> d.by, err |-> "none", revision |-> snap[c].revision,
         matched |-> frame[c].matched, matchedTruncated |-> frame[c].matchedTruncated,
         trace |-> frame[c].trace, traceTruncated |-> frame[c].traceTruncated]
  BY Zenon, <1>3 DEF Decided
<1>6. outcome \in {"Allow", "Deny"} /\ reason \in Reasons /\ "none" \in CallErrors
  BY Zenon, <1>4 DEF ValidOutcomes, Reasons, CallErrors
<1> HIDE DEF outcome, reason
<1>7. [outcome |-> outcome, reason |-> reason,
       by |-> d.by, err |-> "none", revision |-> snap[c].revision,
       matched |-> frame[c].matched, matchedTruncated |-> frame[c].matchedTruncated,
       trace |-> frame[c].trace, traceTruncated |-> frame[c].traceTruncated] \in Result
  BY Zenon, <1>1, <1>2, <1>4, <1>6 DEF Result
<1> QED
  BY Zenon, <1>5, <1>7

LEMMA IdleWriterType ==
    /\ IdleWriter \in WriterRecord
    /\ \A err \in {"none", "ErrNilSnapshot", "ErrPolicyLimitExceeded",
                   "ErrRevisionConflict", "ErrRevisionNotMonotonic"} :
          [IdleWriter EXCEPT !.err = err] \in WriterRecord
BY Zenon, EngineAssumption, SnapshotTypes DEF IdleWriter, WriterRecord

LEMMA TypeOKInit == Init => TypeOK
<1> SUFFICES ASSUME Init PROVE TypeOK
  BY Zenon
<1>1. EmptyFrame(0) \in Frame
  BY Zenon, EmptyFrameType
<1>2. /\ frame \in [Callers -> Frame] /\ writer \in [Writers -> WriterRecord]
      /\ active \in SnapshotRecord /\ snap \in [Callers -> SnapshotRecord]
  BY Zenon, <1>1, IdleWriterType, EngineAssumption, SnapshotTypes DEF Init
<1>3. /\ installed \in Seq([expected: Nat, revision: Nat])
      /\ batch \in [Callers -> Seq(Request)]
      /\ results \in [Callers -> Seq(Result)]
      /\ evidence \in [Callers -> Seq(Frame)]
  BY Zenon, EmptySeq DEF Init
<1> QED
  BY Zenon, <1>2, <1>3 DEF Init, TypeOK

(* The steps of a call keep the types.                                     *)
LEMMA TypeOKCall ==
    ASSUME TypeOK, NEW c \in Callers,
           RejectBatch(c) \/ Capture(c) \/ CallStep(c) \/ CancelContext(c)
    PROVE  TypeOK'
<1> USE DEF Reasons, CallErrors
<1>1. CASE RejectBatch(c)
  BY Zenon, <1>1, EngineAssumption, SnapshotTypes DEF RejectBatch, TypeOK, writeVars
<1>2. CASE Capture(c)
  BY Zenon, <1>2, EngineAssumption, SnapshotTypes DEF Capture, TypeOK, writeVars
<1>3. CASE RejectRequest(c)
  BY Zenon, <1>3, DenyType DEF RejectRequest
<1>4. CASE CanceledAtStart(c)
  BY Zenon, <1>4, DenyType DEF CanceledAtStart
<1>5. CASE StartRequest(c)
  <2> DEFINE at == IF CurrentRequest(c).time = 0 THEN clock ELSE CurrentRequest(c).time
  <2>0. /\ batch[c] \in Seq(Request) /\ results[c] \in Seq(Result)
        /\ Len(results[c]) < Len(batch[c])
    BY Zenon, <1>5 DEF StartRequest, AtRequest, TypeOK
  <2>1. CurrentRequest(c) \in Request
    BY <2>0 DEF CurrentRequest
  <2>a. CurrentRequest(c).time \in Nat /\ clock \in Nat
    BY Zenon, <2>1 DEF Request, TypeOK
  <2>2. at \in Nat
    BY <2>a, Zenon
  <2>3. frame' = [frame EXCEPT ![c] = EmptyFrame(at)]
    BY Zenon, <1>5 DEF StartRequest
  <2> HIDE DEF at
  <2>4. frame' \in [Callers -> Frame]
    BY Zenon, <2>2, <2>3, EmptyFrameType DEF TypeOK
  <2> QED
    BY Zenon, <1>5, <2>4 DEF StartRequest, TypeOK, writeVars
<1>6. CASE CanceledAtPolicy(c)
  BY Zenon, <1>6, DenyType DEF CanceledAtPolicy
<1>7. CASE EvaluatorFails(c)
  BY Zenon, <1>7, DenyType DEF EvaluatorFails
<1>8. CASE EvaluatorInvalid(c)
  BY Zenon, <1>8, DenyType DEF EvaluatorInvalid
<1>9. ASSUME NEW d \in PolicyDecision, AtPolicy(c), RecordDecision(c, d)
      PROVE  TypeOK'
  <2>1. CurrentPolicy(c) \in Policy
    BY Zenon, <1>9, PolicyAtHand
  <2>2. frame' \in [Callers -> Frame]
    BY Zenon, <1>9, <2>1, RecordedType DEF RecordDecision, TypeOK
  <2> QED
    BY Zenon, <1>9, <2>2 DEF RecordDecision, TypeOK, writeVars
<1>10. CASE SkipInactive(c)
  <2>1. [NotApplicableDecision EXCEPT !.reason = "PolicyInactive"] \in PolicyDecision
    BY Zenon, EmptySeq DEF NotApplicableDecision, PolicyDecision, ValidOutcomes, NoPolicy
  <2> QED
    BY Zenon, <1>9, <1>10, <2>1 DEF SkipInactive, AtLivePolicy
<1>11. CASE EvaluatorDecides(c)
  <2>1. PICK a \in Answers :
          /\ a.outcome # "Invalid"
          /\ RecordDecision(c, [outcome |-> a.outcome, reason |-> "Policy",
                                by |-> CurrentPolicy(c).id, matched |-> a.matched,
                                matchedTruncated |-> a.matchedTruncated])
    BY Zenon, <1>11 DEF EvaluatorDecides
  <2>2. AtPolicy(c)
    BY Zenon, <1>11 DEF EvaluatorDecides, AtActivePolicy, AtLivePolicy
  <2>3. a \in Answer
    BY Zenon, EngineAssumption, SnapshotTypes
  <2>4. a.matchedTruncated \in BOOLEAN
    BY <2>3, Zenon DEF Answer
  <2>5. a.outcome \in ValidOutcomes /\ a.matched \in Seq(Nat)
    BY Zenon, <2>1, <2>3 DEF Answer, Outcomes
  <2>6. CurrentPolicy(c).id \in Nat
    BY Zenon, <2>2, PolicyAtHand DEF Policy
  <2>7. [outcome |-> a.outcome, reason |-> "Policy", by |-> CurrentPolicy(c).id,
         matched |-> a.matched, matchedTruncated |-> a.matchedTruncated] \in PolicyDecision
    BY Zenon, <2>4, <2>5, <2>6 DEF PolicyDecision
  <2> QED
    BY Zenon, <1>9, <2>1, <2>2, <2>7
<1>12. CASE CombineDecisions(c)
  BY Zenon, <1>12, DecidedType, ReturnResultType DEF CombineDecisions
<1>13. CASE FinishCall(c)
  BY Zenon, <1>13 DEF FinishCall, TypeOK, writeVars
<1>14. CASE CancelContext(c)
  BY Zenon, <1>14 DEF CancelContext, TypeOK, writeVars
<1> QED
  BY Zenon, <1>1, <1>2, <1>3, <1>4, <1>5, <1>6, <1>7, <1>8, <1>10, <1>11, <1>12, <1>13, <1>14
     DEF CallStep

-----------------------------------------------------------------------------
(* Replacement                                                             *)

(* What ReplaceSnapshot relies on: an offered snapshot is one of the       *)
(* candidates, the holder of replaceMu has read what is still active, and  *)
(* the active revision is past every expectation ever met.                 *)
ReplaceInv ==
    /\ \A w \in Writers : writer[w].pc # "idle" => writer[w].next \in Candidates
    /\ \A w \in Writers : writer[w].pc = "locked" => replaceMu = w /\ writer[w].current = active
    /\ \A i \in DOMAIN installed : installed[i].expected < active.revision
    /\ OneWinnerPerExpectation

LEMMA ReplaceInvInit == Init => ReplaceInv
<1> SUFFICES ASSUME Init PROVE ReplaceInv
  BY Zenon
<1>1. \A w \in Writers : writer[w].pc = "idle"
  BY Zenon DEF Init, IdleWriter
<1>2. DOMAIN installed = {}
  BY DEF Init
<1> QED
  BY Zenon, <1>1, <1>2 DEF ReplaceInv, OneWinnerPerExpectation

(* A store moves the active revision past the expectation it met, which is *)
(* new because every earlier one was already behind.                       *)
LEMMA StoreStep ==
    ASSUME TypeOK, ReplaceInv, NEW w \in Writers, StoreSnapshot(w)
    PROVE  TypeOK' /\ ReplaceInv' /\ active'.revision > active.revision
<1> DEFINE entry == [expected |-> active.revision, revision |-> active'.revision]
<1>1. /\ replaceMu = w /\ writer[w].current = active
      /\ writer[w].expected = active.revision
      /\ active' = writer[w].next /\ active' \in SnapshotRecord
      /\ active'.revision > active.revision
      /\ installed' = Append(installed, entry)
  BY Zenon, EngineAssumption, SnapshotTypes DEF StoreSnapshot, ReplaceInv
<1>2. /\ active.revision \in Nat /\ active'.revision \in Nat
      /\ installed \in Seq([expected: Nat, revision: Nat])
  BY Zenon, <1>1 DEF TypeOK, SnapshotRecord
<1>3. entry \in [expected: Nat, revision: Nat] /\ entry.expected = active.revision
  BY Zenon, <1>2
<1>4. /\ replaceMu' = NoWriter
      /\ writer' = [writer EXCEPT ![w] = [IdleWriter EXCEPT !.err = "none"]]
      /\ UNCHANGED <<callVars, clock>>
  BY Zenon DEF StoreSnapshot, Unlock
<1>5. writer' \in [Writers -> WriterRecord] /\ writer'[w].pc = "idle"
  BY Zenon, <1>4, IdleWriterType DEF TypeOK, IdleWriter
<1> HIDE DEF entry
<1>6. installed' \in Seq([expected: Nat, revision: Nat])
  BY <1>1, <1>2, <1>3
<1>7. TypeOK'
  BY Zenon, <1>1, <1>4, <1>5, <1>6 DEF TypeOK, callVars
<1>8. \A v \in Writers : v # w => writer'[v] = writer[v] /\ writer[v].pc # "locked"
  BY Zenon, <1>1, <1>4 DEF TypeOK, ReplaceInv
<1>9. /\ DOMAIN installed' = DOMAIN installed \cup {Len(installed) + 1}
      /\ Len(installed) + 1 \notin DOMAIN installed
      /\ \A i \in DOMAIN installed : installed'[i] = installed[i]
      /\ installed'[Len(installed) + 1] = entry
  BY <1>1, <1>2
<1>10. ASSUME NEW i \in DOMAIN installed
       PROVE  installed[i].expected \in Nat /\ installed[i].expected < active.revision
  <2>1. installed[i] \in [expected: Nat, revision: Nat]
    BY Zenon, <1>2, ElementType
  <2>2. installed[i].expected < active.revision
    BY Zenon DEF ReplaceInv
  <2> QED
    BY Zenon, <2>1, <2>2
<1>11. ASSUME NEW i \in DOMAIN installed'
       PROVE  installed'[i].expected < active'.revision
  <2>1. CASE i \in DOMAIN installed
    <3>1. installed'[i] = installed[i]
      BY Zenon, <1>9, <2>1
    <3>2. installed[i].expected \in Nat /\ installed[i].expected < active.revision
      BY Zenon, <1>10, <2>1
    <3> QED
      BY <1>1, <1>2, <3>1, <3>2
  <2>2. CASE i = Len(installed) + 1
    BY Zenon, <1>1, <1>3, <1>9, <2>2
  <2> QED
    BY Zenon, <1>9, <2>1, <2>2
<1>12. OneWinnerPerExpectation'
  <2> SUFFICES ASSUME NEW i \in DOMAIN installed', NEW j \in DOMAIN installed',
                      installed'[i].expected = installed'[j].expected
               PROVE  i = j
    BY Zenon DEF OneWinnerPerExpectation
  <2>1. CASE i \in DOMAIN installed /\ j \in DOMAIN installed
    BY Zenon, <1>9, <2>1 DEF ReplaceInv, OneWinnerPerExpectation
  <2>2. \A k \in DOMAIN installed : installed[k].expected # entry.expected
    BY <1>2, <1>3, <1>10
  <2> QED
    BY Zenon, <1>9, <2>1, <2>2
<1>13. ReplaceInv'
  BY Zenon, <1>5, <1>8, <1>11, <1>12 DEF ReplaceInv
<1> QED
  BY Zenon, <1>1, <1>7, <1>13

(* The other steps of ReplaceSnapshot leave the active snapshot alone.     *)
LEMMA NoStoreStep ==
    ASSUME TypeOK, ReplaceInv, NEW w \in Writers,
           RefuseSnapshot(w) \/ OfferSnapshot(w) \/ LockAndLoad(w) \/ RefuseRevision(w)
    PROVE  TypeOK' /\ ReplaceInv' /\ active' = active
<1>1. UNCHANGED <<active, installed, callVars, clock>>
  BY Zenon DEF RefuseSnapshot, OfferSnapshot, LockAndLoad, RefuseRevision, Unlock
<1>2. (OneWinnerPerExpectation /\ \A i \in DOMAIN installed : installed[i].expected < active.revision)'
  BY Zenon, <1>1 DEF ReplaceInv, OneWinnerPerExpectation
<1>3. CASE RefuseSnapshot(w)
  <2>1. PICK err \in {"ErrNilSnapshot", "ErrPolicyLimitExceeded"} :
          writer' = [writer EXCEPT ![w] = [IdleWriter EXCEPT !.err = err]]
    BY Zenon, <1>3 DEF RefuseSnapshot
  <2>2. writer' \in [Writers -> WriterRecord] /\ writer'[w].pc = "idle"
    BY Zenon, <2>1, IdleWriterType DEF TypeOK, IdleWriter
  <2>3. replaceMu' = replaceMu
    BY Zenon, <1>3 DEF RefuseSnapshot
  <2> QED
    BY Zenon, <1>1, <1>2, <2>1, <2>2, <2>3 DEF TypeOK, ReplaceInv, callVars
<1>4. CASE OfferSnapshot(w)
  <2>1. PICK next \in Candidates, expected \in {s.revision : s \in Candidates \cup {InitialSnapshot}} :
          writer' = [writer EXCEPT ![w] =
              [IdleWriter EXCEPT !.pc = "waiting", !.next = next, !.expected = expected]]
    BY Zenon, <1>4 DEF OfferSnapshot
  <2>2. next \in SnapshotRecord /\ expected \in Nat
    BY Zenon, EngineAssumption, SnapshotTypes DEF SnapshotRecord
  <2>3. /\ writer' \in [Writers -> WriterRecord]
        /\ writer'[w].pc = "waiting" /\ writer'[w].next = next
    <3> DEFINE offered == [IdleWriter EXCEPT !.pc = "waiting", !.next = next, !.expected = expected]
    <3>1. offered \in WriterRecord /\ offered.pc = "waiting" /\ offered.next = next
      BY Zenon, <2>2, IdleWriterType DEF WriterRecord
    <3>2. writer \in [Writers -> WriterRecord] /\ writer' = [writer EXCEPT ![w] = offered]
      BY Zenon, <2>1 DEF TypeOK
    <3> HIDE DEF offered
    <3> QED
      BY Zenon, <3>1, <3>2
  <2>4. replaceMu' = replaceMu
    BY Zenon, <1>4 DEF OfferSnapshot
  <2> QED
    BY Zenon, <1>1, <1>2, <2>1, <2>2, <2>3, <2>4 DEF TypeOK, ReplaceInv, callVars
<1>5. CASE LockAndLoad(w)
  <2>1. /\ writer' \in [Writers -> WriterRecord]
        /\ writer'[w].pc = "locked" /\ writer'[w].current = active
        /\ writer'[w].next = writer[w].next
        /\ \A v \in Writers : v # w => writer'[v] = writer[v]
    <3> DEFINE loaded == [writer[w] EXCEPT !.pc = "locked", !.current = active]
    <3>1. writer \in [Writers -> WriterRecord] /\ active \in SnapshotRecord
      BY Zenon DEF TypeOK
    <3>2. writer' = [writer EXCEPT ![w] = loaded]
      BY Zenon, <1>5 DEF LockAndLoad
    <3>3. /\ loaded \in WriterRecord
          /\ loaded.pc = "locked" /\ loaded.current = active /\ loaded.next = writer[w].next
      BY Zenon, <3>1 DEF WriterRecord
    <3> HIDE DEF loaded
    <3> QED
      BY Zenon, <3>1, <3>2, <3>3
  <2>2. replaceMu = NoWriter /\ replaceMu' = w /\ writer[w].pc = "waiting"
    BY Zenon, <1>5 DEF LockAndLoad
  <2>3. \A v \in Writers : writer[v].pc # "locked"
    BY Zenon, <2>2, EngineAssumption, SnapshotTypes DEF ReplaceInv
  <2> QED
    BY Zenon, <1>1, <1>2, <2>1, <2>2, <2>3 DEF TypeOK, ReplaceInv, callVars
<1>6. CASE RefuseRevision(w)
  <2>1. PICK err \in {"ErrRevisionConflict", "ErrRevisionNotMonotonic"} :
          writer' = [writer EXCEPT ![w] = [IdleWriter EXCEPT !.err = err]]
    BY Zenon, <1>6 DEF RefuseRevision, Unlock
  <2>2. writer' \in [Writers -> WriterRecord] /\ writer'[w].pc = "idle"
    BY Zenon, <2>1, IdleWriterType DEF TypeOK, IdleWriter
  <2>3. replaceMu = w /\ replaceMu' = NoWriter
    BY Zenon, <1>6 DEF RefuseRevision, Unlock, ReplaceInv
  <2> QED
    BY Zenon, <1>1, <1>2, <2>1, <2>2, <2>3, EngineAssumption, SnapshotTypes DEF TypeOK, ReplaceInv, callVars
<1> QED
  BY Zenon, <1>1, <1>3, <1>4, <1>5, <1>6

(* Every step keeps both invariants, and moves the active snapshot only    *)
(* to a greater revision.                                                  *)
LEMMA ReplaceInductive ==
    ASSUME TypeOK, ReplaceInv, [Next]_vars
    PROVE  /\ TypeOK' /\ ReplaceInv'
           /\ active' # active => active'.revision > active.revision
<1>1. ASSUME NEW c \in Callers,
             RejectBatch(c) \/ Capture(c) \/ CallStep(c) \/ CancelContext(c)
      PROVE  TypeOK' /\ UNCHANGED writeVars
  <2>1. UNCHANGED writeVars
    BY Zenon, <1>1 DEF RejectBatch, Capture, CallStep, RejectRequest, CanceledAtStart, StartRequest,
                CanceledAtPolicy, SkipInactive, EvaluatorFails, EvaluatorInvalid,
                EvaluatorDecides, CombineDecisions, FinishCall, CancelContext,
                Deny, ReturnResult, RecordDecision
  <2> QED
    BY Zenon, <1>1, <2>1, TypeOKCall
<1>2. CASE SetClock
  <2>1. UNCHANGED <<callVars, writeVars>> /\ clock' \in 1..MaxTime
    BY Zenon, <1>2 DEF SetClock
  <2>2. TypeOK'
    BY <2>1 DEF TypeOK, callVars, writeVars
  <2>3. ReplaceInv' /\ active' = active
    BY Zenon, <2>1 DEF writeVars, ReplaceInv, OneWinnerPerExpectation
  <2> QED
    BY Zenon, <2>2, <2>3
<1>3. CASE UNCHANGED vars
  BY Zenon, <1>3 DEF vars, TypeOK, callVars, writeVars, ReplaceInv, OneWinnerPerExpectation
<1>4. ASSUME UNCHANGED writeVars PROVE ReplaceInv' /\ active' = active
  BY Zenon, <1>4 DEF writeVars, ReplaceInv, OneWinnerPerExpectation
<1> QED
  BY Zenon, <1>1, <1>2, <1>3, <1>4, StoreStep, NoStoreStep DEF Next, WriteStep

(* Every variable of the engine keeps its type; in particular decide       *)
(* returns Allow or Deny and nothing else, whatever evaluators answer.     *)
THEOREM TypeCorrect == Spec => []TypeOK
<1>1. Init => TypeOK /\ ReplaceInv
  BY Zenon, TypeOKInit, ReplaceInvInit
<1>2. TypeOK /\ ReplaceInv /\ [Next]_vars => (TypeOK /\ ReplaceInv)'
  BY Zenon, ReplaceInductive
<1> QED
  BY <1>1, <1>2, PTL DEF Spec

(* ReplaceSnapshot admits at most one writer per expected revision.        *)
THEOREM OneWinner == Spec => []OneWinnerPerExpectation
<1>1. Init => TypeOK /\ ReplaceInv
  BY Zenon, TypeOKInit, ReplaceInvInit
<1>2. TypeOK /\ ReplaceInv /\ [Next]_vars => (TypeOK /\ ReplaceInv)'
  BY Zenon, ReplaceInductive
<1>3. ReplaceInv => OneWinnerPerExpectation
  BY Zenon DEF ReplaceInv
<1> QED
  BY <1>1, <1>2, <1>3, PTL DEF Spec

(* The active snapshot is only ever replaced by one of a greater revision. *)
THEOREM Monotonic == Spec => RevisionsOnlyAdvance
<1>1. Init => TypeOK /\ ReplaceInv
  BY Zenon, TypeOKInit, ReplaceInvInit
<1>2. TypeOK /\ ReplaceInv /\ [Next]_vars => (TypeOK /\ ReplaceInv)'
  BY Zenon, ReplaceInductive
<1>3. TypeOK /\ ReplaceInv /\ [Next]_vars
        => [active' # active => active'.revision > active.revision]_vars
  BY Zenon, ReplaceInductive
<1> QED
  BY <1>1, <1>2, <1>3, PTL DEF Spec, RevisionsOnlyAdvance

-----------------------------------------------------------------------------
(* What Decide and DecideBatch answer                                      *)

(* The decision recorded for a policy is its own answer, or none when its  *)
(* window excludes the instant.                                            *)
Genuine(policy, d, at) ==
    IF ActiveAt(policy, at) THEN d.by = policy.id ELSE d.outcome = "NotApplicable"

(* The locals of decide, as the loop builds them: one decision per policy  *)
(* of the snapshot in order, none but the last decisive, each the answer   *)
(* of that policy if it is active, "policy inactive" for the others, a     *)
(* trace of the first MaxTraceSize of them, and honest diagnostics.        *)
FrameSound(s, f) ==
    /\ FrameHonest(s, f)
    /\ StillUndecided(s, f)
    /\ Len(f.decisions) <= Len(s.policies)
    /\ Len(f.trace) = IF Len(f.decisions) < MaxTraceSize THEN Len(f.decisions) ELSE MaxTraceSize
    /\ \A k \in DOMAIN f.trace : f.trace[k].id = s.policies[k].id
    /\ \A k \in DOMAIN f.decisions :
         /\ Genuine(s.policies[k], f.decisions[k], f.at)
         /\ f.decisions[k].reason = "PolicyInactive" <=> ~ActiveAt(s.policies[k], f.at)

(* What decide returns after the loop, from its locals.                    *)
Composed(s, f, r) ==
    /\ Ended(s, f)
    /\ r.outcome = "Allow" <=> Select(s.algorithm, f.decisions).outcome = "Allow"
    /\ r.trace = f.trace /\ r.traceTruncated = f.traceTruncated
    /\ r.matched = f.matched /\ r.matchedTruncated = f.matchedTruncated

(* A result against the snapshot and the locals it was made from.          *)
ResultSound(s, f, r) ==
    /\ r.revision = s.revision
    /\ r.trace = <<>> \/ r.trace = f.trace
    /\ r.matched = <<>> \/ r.matched = f.matched
    /\ r.err = "none" => Composed(s, f, r)
    /\ r.outcome = "Allow" =>
         /\ r.err = "none"
         /\ \E k \in DOMAIN f.decisions :
              f.decisions[k].outcome = "Allow" /\ f.decisions[k].by = r.by

CallSound(c) ==
    /\ pc[c] # "policies" => frame[c] = EmptyFrame(0)
    /\ pc[c] = "idle" => results[c] = <<>> /\ evidence[c] = <<>>
    /\ Len(evidence[c]) = Len(results[c])
    /\ FrameSound(snap[c], frame[c])
    /\ \A i \in DOMAIN results[c] :
         /\ FrameSound(snap[c], evidence[c][i])
         /\ ResultSound(snap[c], evidence[c][i], results[c][i])

CallInv == \A c \in Callers : CallSound(c)

LEMMA EmptyFrameSound ==
    ASSUME NEW s \in SnapshotRecord, NEW at \in Nat
    PROVE  FrameSound(s, EmptyFrame(at))
<1>1. Len(s.policies) \in Nat
  BY DEF SnapshotRecord
<1>2. /\ EmptyFrame(at).decisions = <<>> /\ EmptyFrame(at).trace = <<>>
      /\ Len(<<>>) = 0 /\ DOMAIN <<>> = {}
  BY DEF EmptyFrame
<1>3. MaxTraceSize \in Nat /\ 0 < MaxTraceSize
  BY EngineAssumption, SnapshotTypes DEF Limit
<1>4. FrameHonest(s, EmptyFrame(at))
  <2>1. EmptyFrame(at).matched = <<>> /\ EmptyFrame(at).traceTruncated = FALSE
    BY Zenon DEF EmptyFrame
  <2>2. MaxMatchedPolicyIDs \in Nat /\ Range(<<>>) = {}
    BY EngineAssumption, SnapshotTypes DEF Limit, Range
  <2>3. FALSE = (Len(EmptyFrame(at).decisions) > MaxTraceSize)
    BY <1>2, <1>3
  <2>4. Len(EmptyFrame(at).matched) <= MaxMatchedPolicyIDs
    BY <1>2, <2>1, <2>2
  <2>5. DOMAIN EmptyFrame(at).decisions = {} /\ Range(EmptyFrame(at).matched) = {}
    BY Zenon, <1>2, <2>1, <2>2
  <2> QED
    BY <2>1, <2>3, <2>4, <2>5, Zenon DEF FrameHonest
<1>5. StillUndecided(s, EmptyFrame(at))
  BY Zenon, <1>2 DEF StillUndecided
<1> QED
  BY <1>1, <1>2, <1>3, <1>4, <1>5 DEF FrameSound

LEMMA SameLength ==
    ASSUME NEW S, NEW T, NEW s \in Seq(S), NEW t \in Seq(T), Len(s) = Len(t)
    PROVE  DOMAIN s = DOMAIN t
OBVIOUS

(* w is q with x after it.                                                 *)
Extends(w, q, x) ==
    /\ Len(w) = Len(q) + 1
    /\ DOMAIN w = DOMAIN q \cup {Len(q) + 1}
    /\ w[Len(q) + 1] = x
    /\ \A k \in DOMAIN q : w[k] = q[k]

LEMMA AppendElements ==
    ASSUME NEW T, NEW q \in Seq(T), NEW x \in T
    PROVE  Extends(Append(q, x), q, x)
BY DEF Extends

(* The loop body keeps the locals sound, when the decision it records is   *)
(* the answer of the policy at hand.                                       *)
LEMMA RecordedSound ==
    ASSUME NEW s \in SnapshotRecord, NEW f \in Frame, FrameSound(s, f), ~Ended(s, f),
           Len(f.decisions) + 1 \in DOMAIN s.policies,
           NEW policy \in Policy, policy = s.policies[Len(f.decisions) + 1],
           NEW d \in PolicyDecision,
           Genuine(policy, d, f.at),
           d.reason = "PolicyInactive" <=> ~ActiveAt(policy, f.at)
    PROVE  FrameSound(s, Recorded(f, policy, d))
<1> DEFINE g == Recorded(f, policy, d)
           n == Len(f.decisions)
           traced == [id |-> policy.id, outcome |-> d.outcome, reason |-> d.reason, by |-> d.by]
<1>1. /\ f.decisions \in Seq(PolicyDecision) /\ f.trace \in Seq(TraceEntry)
      /\ s.policies \in Seq(Policy) /\ n \in Nat /\ Len(f.trace) \in Nat
      /\ MaxTraceSize \in Nat /\ MaxTraceSize > 0
  BY EngineAssumption, SnapshotTypes DEF Frame, SnapshotRecord, Limit
<1>2. /\ g.at = f.at
      /\ g.decisions = Append(f.decisions, d)
      /\ g.trace = IF Len(f.trace) < MaxTraceSize THEN Append(f.trace, traced) ELSE f.trace
  BY Zenon DEF Recorded
<1>3. traced \in TraceEntry /\ traced.id = policy.id
  BY Zenon DEF TraceEntry, PolicyDecision, Policy
<1>4. /\ n <= Len(s.policies)
      /\ Len(f.trace) = IF n < MaxTraceSize THEN n ELSE MaxTraceSize
      /\ \A k \in DOMAIN f.trace : f.trace[k].id = s.policies[k].id
  BY Zenon DEF FrameSound
<1> HIDE DEF g, traced
<1>5. /\ Len(g.decisions) = n + 1 /\ DOMAIN g.decisions = DOMAIN f.decisions \cup {n + 1}
      /\ g.decisions[n + 1] = d
      /\ \A k \in DOMAIN f.decisions : g.decisions[k] = f.decisions[k]
  BY <1>1, <1>2
<1>6. Len(g.decisions) <= Len(s.policies)
  BY <1>1, <1>5
<1>7. /\ Len(g.trace) = IF Len(g.decisions) < MaxTraceSize THEN Len(g.decisions) ELSE MaxTraceSize
      /\ \A k \in DOMAIN g.trace : g.trace[k].id = s.policies[k].id
  <2>1. CASE Len(f.trace) < MaxTraceSize
    <3>1. g.trace = Append(f.trace, traced) /\ Len(f.trace) = n
      BY <1>1, <1>2, <1>4, <2>1
    <3>2. /\ Len(g.trace) = n + 1 /\ DOMAIN g.trace = DOMAIN f.trace \cup {n + 1}
          /\ g.trace[n + 1] = traced
          /\ \A k \in DOMAIN f.trace : g.trace[k] = f.trace[k]
      BY <1>1, <1>3, <3>1, AppendElements DEF Extends
    <3>3. Len(g.trace) = IF n + 1 < MaxTraceSize THEN n + 1 ELSE MaxTraceSize
      BY <1>1, <1>4, <2>1, <3>1, <3>2
    <3> QED
      BY Zenon, <1>3, <1>4, <1>5, <3>2, <3>3
  <2>2. CASE ~(Len(f.trace) < MaxTraceSize)
    <3>1. g.trace = f.trace /\ Len(f.trace) = MaxTraceSize /\ ~(n + 1 < MaxTraceSize)
      BY <1>1, <1>2, <1>4, <2>2
    <3> QED
      BY Zenon, <1>4, <1>5, <3>1
  <2> QED
    BY Zenon, <2>1, <2>2
<1>8. ASSUME NEW k \in DOMAIN g.decisions
      PROVE  /\ Genuine(s.policies[k], g.decisions[k], g.at)
             /\ g.decisions[k].reason = "PolicyInactive" <=> ~ActiveAt(s.policies[k], g.at)
  <2>1. CASE k \in DOMAIN f.decisions
    BY <1>2, <1>5, <2>1, Zenon DEF FrameSound
  <2>2. CASE k = n + 1
    BY <1>2, <1>5, <2>2, Zenon
  <2> QED
    BY Zenon, <1>5, <2>1, <2>2
<1>9. FrameHonest(s, g)
  BY Zenon, <1>4, RecordedHonest DEF FrameSound, g
<1>10. StillUndecided(s, g)
  <2> SUFFICES ASSUME NEW k \in DOMAIN g.decisions, k < Len(g.decisions)
               PROVE  ~IsDecisive(s.algorithm, g.decisions[k].outcome)
    BY Zenon DEF StillUndecided
  <2>1. k \in DOMAIN f.decisions /\ g.decisions[k] = f.decisions[k] /\ k \in 1..n
    BY <1>1, <1>5
  <2>2. CASE k < n
    BY Zenon, <2>1, <2>2 DEF FrameSound, StillUndecided
  <2>3. CASE k = n
    <3>1. f.decisions # <<>>
      BY <2>1
    <3> QED
      BY Zenon, <2>1, <2>3, <3>1 DEF Ended
  <2>4. k < n \/ k = n
    BY <1>1, <2>1
  <2> QED
    BY Zenon, <2>2, <2>3, <2>4
<1>11. FrameSound(s, g)
  BY <1>6, <1>7, <1>8, <1>9, <1>10, Zenon DEF FrameSound
<1> QED
  BY Zenon, <1>11 DEF g

LEMMA DenyResultSound ==
    ASSUME NEW s, NEW f, NEW reason, NEW err, err # "none"
    PROVE  ResultSound(s, f, DenyResult(s.revision, reason, err))
BY Zenon DEF ResultSound, DenyResult

(* A composed Allow is the decision of one of the policies consulted.      *)
LEMMA DecidedSound ==
    ASSUME TypeOK, NEW c \in Callers, Ended(snap[c], frame[c])
    PROVE  ResultSound(snap[c], frame[c], Decided(c))
<1> DEFINE d == Select(snap[c].algorithm, frame[c].decisions)
           r == Decided(c)
<1>1. snap[c].algorithm \in Algorithms /\ frame[c].decisions \in Seq(PolicyDecision)
  BY Zenon DEF TypeOK, SnapshotRecord, Frame
<1>2. /\ Combine(snap[c].algorithm, frame[c].decisions).err = "none"
      /\ Combine(snap[c].algorithm, frame[c].decisions).decision = d
  BY Zenon, <1>1, CombineType
<1>3. \/ d = NotApplicableDecision
      \/ \E k \in DOMAIN frame[c].decisions : d = frame[c].decisions[k]
  BY Zenon, <1>1, SelectPicks
<1> HIDE DEF d
<1>4. /\ r.revision = snap[c].revision /\ r.trace = frame[c].trace /\ r.err = "none"
      /\ r.by = d.by
      /\ r.outcome = "Allow" => d.outcome = "Allow"
  BY Zenon, <1>2 DEF Decided
<1>5. NotApplicableDecision.outcome # "Allow"
  BY Zenon DEF NotApplicableDecision
<1>6. /\ r.traceTruncated = frame[c].traceTruncated
      /\ r.matched = frame[c].matched /\ r.matchedTruncated = frame[c].matchedTruncated
      /\ d.outcome = "Allow" => r.outcome = "Allow"
  BY Zenon, <1>2 DEF Decided
<1> HIDE DEF r
<1>7. Composed(snap[c], frame[c], r)
  BY Zenon, <1>4, <1>6 DEF Composed, d
<1>8. ResultSound(snap[c], frame[c], r)
  BY Zenon, <1>3, <1>4, <1>5, <1>6, <1>7 DEF ResultSound
<1> QED
  BY Zenon, <1>8 DEF r

(* Returning a sound result keeps the call sound.                          *)
LEMMA ReturnSound ==
    ASSUME TypeOK, NEW c \in Callers, CallSound(c), pc[c] # "idle", NEW r \in Result,
           ResultSound(snap[c], frame[c], r), ReturnResult(c, r)
    PROVE  CallSound(c)'
<1>1. /\ results' = [results EXCEPT ![c] = Append(results[c], r)]
      /\ evidence' = [evidence EXCEPT ![c] = Append(evidence[c], frame[c])]
      /\ frame' = [frame EXCEPT ![c] = EmptyFrame(0)]
      /\ pc' = [pc EXCEPT ![c] = "requests"]
      /\ snap' = snap
  BY Zenon DEF ReturnResult
<1>2. /\ results[c] \in Seq(Result) /\ evidence[c] \in Seq(Frame)
      /\ frame[c] \in Frame /\ snap[c] \in SnapshotRecord
  BY Zenon DEF TypeOK
<1>3. /\ results'[c] = Append(results[c], r) /\ evidence'[c] = Append(evidence[c], frame[c])
      /\ frame'[c] = EmptyFrame(0) /\ pc'[c] = "requests" /\ snap'[c] = snap[c]
  BY Zenon, <1>1 DEF TypeOK
<1>4. FrameSound(snap'[c], frame'[c])
  BY Zenon, <1>2, <1>3, EmptyFrameSound
<1>5. Len(evidence[c]) = Len(results[c]) /\ FrameSound(snap[c], frame[c])
  BY Zenon DEF CallSound
<1>6. /\ Len(evidence'[c]) = Len(results'[c])
      /\ DOMAIN results'[c] = DOMAIN results[c] \cup {Len(results[c]) + 1}
      /\ results'[c][Len(results[c]) + 1] = r
      /\ evidence'[c][Len(results[c]) + 1] = frame[c]
      /\ \A i \in DOMAIN results[c] :
            results'[c][i] = results[c][i] /\ evidence'[c][i] = evidence[c][i]
  <2> DEFINE R == results[c]
             E == evidence[c]
             f == frame[c]
  <2>a. R \in Seq(Result) /\ E \in Seq(Frame) /\ f \in Frame
    BY Zenon, <1>2
  <2>b. results'[c] = Append(R, r) /\ evidence'[c] = Append(E, f)
    BY Zenon, <1>3
  <2> HIDE DEF R, E, f
  <2>c. Extends(Append(R, r), R, r)
    BY Zenon, <2>a, AppendElements
  <2>d. Extends(Append(E, f), E, f)
    BY Zenon, <2>a, AppendElements
  <2>1. /\ Len(results'[c]) = Len(results[c]) + 1
        /\ DOMAIN results'[c] = DOMAIN results[c] \cup {Len(results[c]) + 1}
        /\ results'[c][Len(results[c]) + 1] = r
        /\ \A i \in DOMAIN results[c] : results'[c][i] = results[c][i]
    BY Zenon, <2>b, <2>c DEF R, Extends
  <2>2. /\ Len(evidence'[c]) = Len(evidence[c]) + 1
        /\ evidence'[c][Len(evidence[c]) + 1] = frame[c]
        /\ \A i \in DOMAIN evidence[c] : evidence'[c][i] = evidence[c][i]
    BY Zenon, <2>b, <2>d DEF E, f, Extends
  <2>3. DOMAIN results[c] = DOMAIN evidence[c]
    BY Zenon, <1>2, <1>5, SameLength
  <2> QED BY Zenon, <1>5, <2>1, <2>2, <2>3
<1>7. ASSUME NEW i \in DOMAIN results'[c]
      PROVE  /\ FrameSound(snap'[c], evidence'[c][i])
             /\ ResultSound(snap'[c], evidence'[c][i], results'[c][i])
  <2>1. CASE i \in DOMAIN results[c]
    BY Zenon, <1>3, <1>6, <2>1 DEF CallSound
  <2>2. CASE i = Len(results[c]) + 1
    BY Zenon, <1>3, <1>5, <1>6, <2>2
  <2> QED
    BY Zenon, <1>6, <2>1, <2>2
<1> QED
  BY Zenon, <1>3, <1>4, <1>6, <1>7 DEF CallSound

LEMMA DenySound ==
    ASSUME TypeOK, NEW c \in Callers, CallSound(c), pc[c] # "idle",
           NEW reason \in Reasons, NEW err \in CallErrors \ {"none"}, Deny(c, reason, err)
    PROVE  CallSound(c)'
<1>1. snap[c].revision \in Nat
  BY Zenon DEF TypeOK, SnapshotRecord
<1> QED
  BY Zenon, <1>1, DenyResultType, DenyResultSound, ReturnSound DEF Deny

(* Recording the answer of the policy at hand keeps the call sound.        *)
LEMMA RecordDecisionSound ==
    ASSUME TypeOK, NEW c \in Callers, CallSound(c), AtPolicy(c), NEW d \in PolicyDecision,
           Genuine(CurrentPolicy(c), d, frame[c].at),
           d.reason = "PolicyInactive" <=> ~ActiveAt(CurrentPolicy(c), frame[c].at),
           RecordDecision(c, d)
    PROVE  CallSound(c)'
<1>1. /\ Len(frame[c].decisions) + 1 \in DOMAIN snap[c].policies
      /\ CurrentPolicy(c) \in Policy
      /\ CurrentPolicy(c) = snap[c].policies[Len(frame[c].decisions) + 1]
  BY Zenon, PolicyAtHand DEF CurrentPolicy
<1>2. frame[c] \in Frame /\ snap[c] \in SnapshotRecord /\ FrameSound(snap[c], frame[c])
  BY Zenon DEF TypeOK, CallSound
<1>3. FrameSound(snap[c], Recorded(frame[c], CurrentPolicy(c), d))
  <2>1. ~Ended(snap[c], frame[c])
    BY Zenon DEF AtPolicy, LoopEnded, Ended
  <2> QED
    BY Zenon, <1>1, <1>2, <2>1, RecordedSound
<1>4. /\ frame'[c] = Recorded(frame[c], CurrentPolicy(c), d)
      /\ UNCHANGED <<pc, snap, results, evidence>>
  BY Zenon DEF RecordDecision, TypeOK
<1>5. pc[c] = "policies"
  BY Zenon DEF AtPolicy
<1> QED
  BY Zenon, <1>3, <1>4, <1>5 DEF CallSound

(* The step of a call keeps that call sound.                               *)
LEMMA CallStepSound ==
    ASSUME TypeOK, NEW c \in Callers, CallSound(c),
           RejectBatch(c) \/ Capture(c) \/ CallStep(c) \/ CancelContext(c)
    PROVE  CallSound(c)'
<1> USE DEF Reasons, CallErrors
<1>1. CASE RejectBatch(c)
  <2>1. pc'[c] = "done" /\ pc[c] = "idle" /\ UNCHANGED <<snap, frame, results, evidence>>
    BY Zenon, <1>1 DEF RejectBatch, TypeOK
  <2> QED
    BY Zenon, <2>1 DEF CallSound
<1>2. CASE Capture(c)
  <2>1. /\ pc[c] = "idle" /\ pc'[c] = "requests" /\ snap'[c] = active
        /\ UNCHANGED <<frame, results, evidence>>
    BY Zenon, <1>2 DEF Capture, TypeOK
  <2>2. frame[c] = EmptyFrame(0) /\ results[c] = <<>> /\ evidence[c] = <<>>
    BY Zenon, <2>1 DEF CallSound
  <2>3. FrameSound(active, EmptyFrame(0))
    BY Zenon, EmptyFrameSound DEF TypeOK
  <2>4. DOMAIN <<>> = {}
    OBVIOUS
  <2> QED
    BY Zenon, <2>1, <2>2, <2>3, <2>4 DEF CallSound
<1>3. CASE RejectRequest(c)
  BY Zenon, <1>3, DenySound DEF RejectRequest, AtRequest
<1>4. CASE CanceledAtStart(c)
  BY Zenon, <1>4, DenySound DEF CanceledAtStart, AtRequest
<1>5. CASE StartRequest(c)
  <2> DEFINE at == IF CurrentRequest(c).time = 0 THEN clock ELSE CurrentRequest(c).time
  <2>1. CurrentRequest(c) \in Request
    <3>1. /\ batch[c] \in Seq(Request) /\ Len(results[c]) \in Nat
          /\ Len(results[c]) < Len(batch[c])
      BY <1>5 DEF StartRequest, AtRequest, TypeOK
    <3>2. Len(results[c]) + 1 \in DOMAIN batch[c]
      BY <3>1
    <3> QED
      BY Zenon, <3>1, <3>2, ElementType DEF CurrentRequest
  <2>2. at \in Nat
    BY Zenon, <2>1 DEF Request, TypeOK
  <2>3. /\ frame'[c] = EmptyFrame(at) /\ pc'[c] = "policies"
        /\ UNCHANGED <<snap, results, evidence>>
    BY Zenon, <1>5 DEF StartRequest, TypeOK
  <2> HIDE DEF at
  <2>4. FrameSound(snap[c], EmptyFrame(at))
    BY Zenon, <2>2, EmptyFrameSound DEF TypeOK
  <2> QED
    BY Zenon, <2>3, <2>4 DEF CallSound
<1>6. CASE CanceledAtPolicy(c)
  BY Zenon, <1>6, DenySound DEF CanceledAtPolicy, AtPolicy
<1>7. CASE EvaluatorFails(c)
  BY Zenon, <1>7, DenySound DEF EvaluatorFails, AtActivePolicy, AtLivePolicy, AtPolicy
<1>8. CASE EvaluatorInvalid(c)
  BY Zenon, <1>8, DenySound DEF EvaluatorInvalid, AtActivePolicy, AtLivePolicy, AtPolicy
<1>9. CASE SkipInactive(c)
  <2> DEFINE d == [NotApplicableDecision EXCEPT !.reason = "PolicyInactive"]
  <2>1. d \in PolicyDecision /\ d.outcome = "NotApplicable" /\ d.reason = "PolicyInactive"
    BY Zenon, EmptySeq DEF NotApplicableDecision, PolicyDecision, ValidOutcomes, NoPolicy
  <2>2. AtPolicy(c) /\ ~ActiveAt(CurrentPolicy(c), frame[c].at) /\ RecordDecision(c, d)
    BY Zenon, <1>9 DEF SkipInactive, AtLivePolicy
  <2> HIDE DEF d
  <2>3. Genuine(CurrentPolicy(c), d, frame[c].at)
    BY Zenon, <2>1, <2>2 DEF Genuine
  <2> QED
    BY Zenon, <2>1, <2>2, <2>3, RecordDecisionSound
<1>10. CASE EvaluatorDecides(c)
  <2>1. PICK a \in Answers :
          /\ a.outcome # "Invalid"
          /\ RecordDecision(c, [outcome |-> a.outcome, reason |-> "Policy",
                                by |-> CurrentPolicy(c).id, matched |-> a.matched,
                                matchedTruncated |-> a.matchedTruncated])
    BY Zenon, <1>10 DEF EvaluatorDecides
  <2> DEFINE d == [outcome |-> a.outcome, reason |-> "Policy",
                   by |-> CurrentPolicy(c).id, matched |-> a.matched,
                   matchedTruncated |-> a.matchedTruncated]
  <2>2. AtPolicy(c) /\ ActiveAt(CurrentPolicy(c), frame[c].at)
    BY Zenon, <1>10 DEF EvaluatorDecides, AtActivePolicy, AtLivePolicy
  <2>3. a \in Answer
    BY Zenon, EngineAssumption, SnapshotTypes
  <2>4. a.matchedTruncated \in BOOLEAN
    BY <2>3, Zenon DEF Answer
  <2>5. a.outcome \in ValidOutcomes /\ a.matched \in Seq(Nat)
    BY Zenon, <2>1, <2>3 DEF Answer, Outcomes
  <2>6. CurrentPolicy(c).id \in Nat
    BY Zenon, <2>2, PolicyAtHand DEF Policy
  <2>7. d \in PolicyDecision /\ d.reason # "PolicyInactive" /\ d.by = CurrentPolicy(c).id
    BY Zenon, <2>4, <2>5, <2>6 DEF PolicyDecision
  <2>8. RecordDecision(c, d)
    BY Zenon, <2>1
  <2> HIDE DEF d
  <2>9. Genuine(CurrentPolicy(c), d, frame[c].at)
    BY Zenon, <2>2, <2>7 DEF Genuine
  <2> QED
    BY Zenon, <2>2, <2>7, <2>8, <2>9, RecordDecisionSound
<1>11. CASE CombineDecisions(c)
  <2>1. Ended(snap[c], frame[c])
    BY Zenon, <1>11 DEF CombineDecisions, LoopEnded, Ended
  <2> QED
    BY Zenon, <1>11, <2>1, DecidedType, DecidedSound, ReturnSound DEF CombineDecisions
<1>12. CASE FinishCall(c)
  <2>1. pc'[c] = "done" /\ pc[c] = "requests" /\ UNCHANGED <<snap, frame, results, evidence>>
    BY Zenon, <1>12 DEF FinishCall, TypeOK
  <2> QED
    BY Zenon, <2>1 DEF CallSound
<1>13. CASE CancelContext(c)
  BY Zenon, <1>13 DEF CancelContext, CallSound
<1> QED
  BY Zenon, <1>1, <1>2, <1>3, <1>4, <1>5, <1>6, <1>7, <1>8, <1>9, <1>10, <1>11, <1>12, <1>13
     DEF CallStep

(* A step of one call touches no other call's variables.                   *)
LEMMA OtherCallsUnchanged ==
    ASSUME TypeOK, NEW c \in Callers, NEW x \in Callers, x # c,
           RejectBatch(c) \/ Capture(c) \/ CallStep(c) \/ CancelContext(c)
    PROVE  /\ pc'[x] = pc[x] /\ snap'[x] = snap[x] /\ frame'[x] = frame[x]
           /\ results'[x] = results[x] /\ evidence'[x] = evidence[x]
<1> USE DEF TypeOK
<1>1. CASE RejectBatch(c) \/ Capture(c) \/ CancelContext(c) \/ FinishCall(c) \/ StartRequest(c)
  BY Zenon, <1>1 DEF RejectBatch, Capture, CancelContext, FinishCall, StartRequest
<1>2. CASE SkipInactive(c) \/ EvaluatorDecides(c)
  BY Zenon, <1>2 DEF SkipInactive, EvaluatorDecides, RecordDecision
<1>3. CASE \E r : ReturnResult(c, r)
  BY Zenon, <1>3 DEF ReturnResult
<1>4. CASE \/ RejectRequest(c) \/ CanceledAtStart(c) \/ CanceledAtPolicy(c)
           \/ EvaluatorFails(c) \/ EvaluatorInvalid(c) \/ CombineDecisions(c)
  BY Zenon, <1>3, <1>4 DEF RejectRequest, CanceledAtStart, CanceledAtPolicy, EvaluatorFails,
                    EvaluatorInvalid, CombineDecisions, Deny
<1> QED
  BY Zenon, <1>1, <1>2, <1>4 DEF CallStep

LEMMA CallInvInit == Init => CallInv
<1> SUFFICES ASSUME Init, NEW c \in Callers PROVE CallSound(c)
  BY Zenon DEF CallInv
<1>1. /\ frame[c] = EmptyFrame(0) /\ results[c] = <<>> /\ evidence[c] = <<>>
      /\ snap[c] = InitialSnapshot
  BY Zenon DEF Init
<1>2. FrameSound(InitialSnapshot, EmptyFrame(0))
  BY Zenon, EmptyFrameSound, EngineAssumption, SnapshotTypes
<1>3. DOMAIN <<>> = {}
  OBVIOUS
<1> QED
  BY Zenon, <1>1, <1>2, <1>3 DEF CallSound

LEMMA CallInductive ==
    ASSUME TypeOK, CallInv, [Next]_vars
    PROVE  CallInv'
<1>1. ASSUME NEW c \in Callers,
             RejectBatch(c) \/ Capture(c) \/ CallStep(c) \/ CancelContext(c)
      PROVE  CallInv'
  <2> SUFFICES ASSUME NEW x \in Callers PROVE CallSound(x)'
    BY Zenon DEF CallInv
  <2>1. CallSound(x) /\ CallSound(c)
    BY Zenon DEF CallInv
  <2>2. CASE x = c
    BY Zenon, <1>1, <2>1, <2>2, CallStepSound
  <2>3. CASE x # c
    <3>1. /\ pc'[x] = pc[x] /\ snap'[x] = snap[x] /\ frame'[x] = frame[x]
          /\ results'[x] = results[x] /\ evidence'[x] = evidence[x]
      BY Zenon, <1>1, <2>3, OtherCallsUnchanged
    <3> QED
      BY Zenon, <2>1, <3>1 DEF CallSound
  <2> QED
    BY Zenon, <2>2, <2>3
<1>2. ASSUME UNCHANGED callVars PROVE CallInv'
  BY Zenon, <1>2 DEF callVars, CallInv, CallSound
<1>3. ASSUME NEW w \in Writers, RefuseSnapshot(w) \/ OfferSnapshot(w) \/ WriteStep(w)
      PROVE  UNCHANGED callVars
  BY Zenon, <1>3 DEF RefuseSnapshot, OfferSnapshot, WriteStep, LockAndLoad, RefuseRevision,
              StoreSnapshot, Unlock
<1>4. SetClock \/ UNCHANGED vars => UNCHANGED callVars
  BY Zenon DEF SetClock, vars
<1> QED
  BY Zenon, <1>1, <1>2, <1>3, <1>4 DEF Next

(* The inductive invariant of the engine: types, replacement and calls.    *)
EngineInv == TypeOK /\ ReplaceInv /\ CallInv

LEMMA EngineInvariant == Spec => []EngineInv
<1>1. Init => EngineInv
  BY Zenon, TypeOKInit, ReplaceInvInit, CallInvInit DEF EngineInv
<1>2. EngineInv /\ [Next]_vars => EngineInv'
  BY Zenon, ReplaceInductive, CallInductive DEF EngineInv
<1> QED
  BY <1>1, <1>2, PTL DEF Spec

(* Decide and DecideBatch answer from the one snapshot they loaded, for    *)
(* any number of concurrent callers and replacements.                      *)
THEOREM OneSnapshotPerCall == Spec => []AnswersFromOneSnapshot
<1>1. ASSUME EngineInv PROVE AnswersFromOneSnapshot
  <2> SUFFICES ASSUME NEW c \in Callers, NEW i \in DOMAIN results[c]
               PROVE  /\ results[c][i].revision = snap[c].revision
                      /\ Len(results[c][i].trace) <= Len(snap[c].policies)
                      /\ \A k \in DOMAIN results[c][i].trace :
                            results[c][i].trace[k].id = snap[c].policies[k].id
    BY Zenon DEF AnswersFromOneSnapshot
  <2>1. FrameSound(snap[c], evidence[c][i]) /\ ResultSound(snap[c], evidence[c][i], results[c][i])
    BY Zenon, <1>1 DEF EngineInv, CallInv, CallSound
  <2>2. snap[c] \in SnapshotRecord /\ MaxTraceSize \in Nat
    BY Zenon, <1>1, EngineAssumption, SnapshotTypes DEF EngineInv, TypeOK, Limit
  <2>3. Len(snap[c].policies) \in Nat
    BY <2>2 DEF SnapshotRecord
  <2>4. CASE results[c][i].trace = <<>>
    <3>1. Len(<<>>) = 0 /\ DOMAIN <<>> = {}
      OBVIOUS
    <3>2. results[c][i].revision = snap[c].revision
      BY Zenon, <2>1 DEF ResultSound
    <3> QED
      BY <2>3, <2>4, <3>1, <3>2
  <2>5. CASE results[c][i].trace = evidence[c][i].trace
    <3>1. evidence[c][i] \in Frame
      BY <1>1, ElementType DEF EngineInv, TypeOK, CallInv, CallSound
    <3>2. Len(evidence[c][i].decisions) \in Nat
      <4>1. evidence[c][i].decisions \in Seq(PolicyDecision)
        BY Zenon, <3>1 DEF Frame
      <4> QED
        BY Zenon, <4>1, LengthType
    <3>3. Len(evidence[c][i].trace) <= Len(snap[c].policies)
      <4> DEFINE f == evidence[c][i]
      <4>1. /\ Len(f.decisions) <= Len(snap[c].policies)
            /\ Len(f.trace) = IF Len(f.decisions) < MaxTraceSize THEN Len(f.decisions) ELSE MaxTraceSize
        BY Zenon, <2>1 DEF FrameSound
      <4> QED
        BY <2>2, <2>3, <3>2, <4>1
    <3> QED
      BY Zenon, <2>1, <2>5, <3>3 DEF ResultSound, FrameSound
  <2> QED
    BY Zenon, <2>1, <2>4, <2>5 DEF ResultSound
<1> QED
  BY <1>1, EngineInvariant, PTL

(* An Allow is the answer of an active policy of the captured snapshot,    *)
(* comes without error, and every active policy consulted answered.        *)
THEOREM AllowExplicit == Spec => []AllowIsExplicit
<1>1. ASSUME EngineInv PROVE AllowIsExplicit
  <2> SUFFICES ASSUME NEW c \in Callers, NEW i \in DOMAIN results[c],
                      results[c][i].outcome = "Allow"
               PROVE  /\ results[c][i].err = "none"
                      /\ Len(evidence[c][i].decisions) <= Len(snap[c].policies)
                      /\ \A k \in DOMAIN evidence[c][i].decisions :
                           Genuine(snap[c].policies[k], evidence[c][i].decisions[k],
                                   evidence[c][i].at)
                      /\ \E k \in DOMAIN evidence[c][i].decisions :
                           /\ ActiveAt(snap[c].policies[k], evidence[c][i].at)
                           /\ evidence[c][i].decisions[k].outcome = "Allow"
                           /\ results[c][i].by = snap[c].policies[k].id
    BY DEF AllowIsExplicit, Genuine
  <2>1. FrameSound(snap[c], evidence[c][i]) /\ ResultSound(snap[c], evidence[c][i], results[c][i])
    BY Zenon, <1>1 DEF EngineInv, CallInv, CallSound
  <2>2. PICK k \in DOMAIN evidence[c][i].decisions :
          /\ evidence[c][i].decisions[k].outcome = "Allow"
          /\ evidence[c][i].decisions[k].by = results[c][i].by
    BY Zenon, <2>1 DEF ResultSound
  <2>3. Genuine(snap[c].policies[k], evidence[c][i].decisions[k], evidence[c][i].at)
    BY Zenon, <2>1 DEF FrameSound
  <2>4. /\ ActiveAt(snap[c].policies[k], evidence[c][i].at)
        /\ results[c][i].by = snap[c].policies[k].id
    BY Zenon, <2>2, <2>3 DEF Genuine
  <2> QED
    BY Zenon, <2>1, <2>2, <2>4 DEF FrameSound, ResultSound
<1> QED
  BY <1>1, EngineInvariant, PTL

(* What TruncationIsHonest says of a decision without error.               *)
Honest(s, f, r) ==
    LET applied == {k \in DOMAIN f.decisions : f.decisions[k].outcome # "NotApplicable"} IN
    /\ r.traceTruncated <=> Len(f.decisions) > Len(r.trace)
    /\ ~r.matchedTruncated =>
         /\ \A k \in applied : ~f.decisions[k].matchedTruncated
         /\ Range(r.matched) =
              UNION {IF f.decisions[k].matched = <<>> THEN {s.policies[k].id}
                     ELSE Range(f.decisions[k].matched) : k \in applied}

(* Without the flag the matched IDs are those that were contributed.       *)
Listed(s, f, r) ==
    ~r.matchedTruncated =>
        /\ \A k \in DOMAIN f.decisions : Applied(f, k) => ~f.decisions[k].matchedTruncated
        /\ \A x : x \in Range(r.matched) <=>
                    \E k \in DOMAIN f.decisions : Applied(f, k) /\ x \in Contribution(s, f, k)

(* The diagnostics of every decision are bounded, and complete unless they *)
(* say that they are truncated.                                            *)
THEOREM DiagnosticsHonest == Spec => []TruncationIsHonest
<1>1. ASSUME EngineInv, NEW c \in Callers, NEW i \in DOMAIN results[c],
             NEW r, r = results[c][i], NEW f, f = evidence[c][i],
             NEW s, s = snap[c]
      PROVE  /\ Len(r.trace) <= MaxTraceSize
             /\ Len(r.matched) <= MaxMatchedPolicyIDs
             /\ r.err = "none" =>
                  (r.traceTruncated <=> Len(f.decisions) > Len(r.trace)) /\ Listed(s, f, r)
  <2>1. FrameSound(s, f) /\ ResultSound(s, f, r)
    BY Zenon, <1>1 DEF EngineInv, CallInv, CallSound
  <2>2. /\ MaxTraceSize \in Nat /\ MaxMatchedPolicyIDs \in Nat /\ Len(f.decisions) \in Nat
    <3>1. /\ evidence[c] \in Seq(Frame) /\ results[c] \in Seq(Result)
          /\ Len(evidence[c]) = Len(results[c])
      BY Zenon, <1>1 DEF EngineInv, TypeOK, CallInv, CallSound
    <3>2. f \in Frame
      BY <1>1, <3>1
    <3>3. f.decisions \in Seq(PolicyDecision)
      BY Zenon, <3>2 DEF Frame
    <3> QED
      BY <3>3, EngineAssumption, SnapshotTypes DEF Limit
  <2>3. /\ Len(f.trace) = IF Len(f.decisions) < MaxTraceSize THEN Len(f.decisions) ELSE MaxTraceSize
        /\ FrameHonest(s, f)
    BY Zenon, <2>1 DEF FrameSound
  <2>4. Len(<<>>) = 0
    BY Zenon
  <2>5. Len(r.trace) <= MaxTraceSize
    <3>1. r.trace = <<>> \/ r.trace = f.trace
      BY Zenon, <2>1 DEF ResultSound
    <3> QED
      BY <2>2, <2>3, <2>4, <3>1
  <2>6. Len(r.matched) <= MaxMatchedPolicyIDs
    <3>1. r.matched = <<>> \/ r.matched = f.matched
      BY Zenon, <2>1 DEF ResultSound
    <3>2. Len(f.matched) <= MaxMatchedPolicyIDs
      BY Zenon, <2>3 DEF FrameHonest
    <3> QED
      BY <2>2, <2>4, <3>1, <3>2
  <2>7. ASSUME r.err = "none"
        PROVE  /\ r.trace = f.trace /\ r.traceTruncated = f.traceTruncated
               /\ r.matched = f.matched /\ r.matchedTruncated = f.matchedTruncated
    BY Zenon, <2>1, <2>7 DEF ResultSound, Composed
  <2>8. ASSUME r.err = "none"
        PROVE  r.traceTruncated <=> Len(f.decisions) > Len(r.trace)
    <3>1. r.traceTruncated = (Len(f.decisions) > MaxTraceSize) /\ r.trace = f.trace
      BY Zenon, <2>3, <2>7, <2>8 DEF FrameHonest
    <3>2. Len(f.decisions) > MaxTraceSize <=> Len(f.decisions) > Len(f.trace)
      BY <2>2, <2>3
    <3> QED
      BY <3>1, <3>2, Zenon
  <2>9. ASSUME r.err = "none" PROVE Listed(s, f, r)
    BY <2>3, <2>7, <2>9, Zenon DEF FrameHonest, Listed
  <2> QED
    BY Zenon, <2>5, <2>6, <2>8, <2>9
<1>2. ASSUME NEW f, NEW s, NEW m,
             \A x : x \in m <=>
                 \E k \in DOMAIN f.decisions : Applied(f, k) /\ x \in Contribution(s, f, k)
      PROVE  m = UNION {IF f.decisions[k].matched = <<>> THEN {s.policies[k].id}
                        ELSE Range(f.decisions[k].matched) :
                            k \in {l \in DOMAIN f.decisions :
                                      f.decisions[l].outcome # "NotApplicable"}}
  <2> DEFINE applied == {k \in DOMAIN f.decisions : f.decisions[k].outcome # "NotApplicable"}
             C(k) == IF f.decisions[k].matched = <<>> THEN {s.policies[k].id}
                     ELSE Range(f.decisions[k].matched)
  <2>1. \A k : k \in applied <=> k \in DOMAIN f.decisions /\ Applied(f, k)
    BY Zenon DEF Applied
  <2>2. \A k : C(k) = Contribution(s, f, k)
    BY Zenon DEF Contribution
  <2> HIDE DEF applied, C
  <2>3. m = UNION {C(k) : k \in applied}
    BY Zenon, <1>2, <2>1, <2>2
  <2> QED
    BY Zenon, <2>3 DEF applied, C
<1>3. ASSUME EngineInv PROVE TruncationIsHonest
  <2> SUFFICES ASSUME NEW c \in Callers, NEW i \in DOMAIN results[c]
               PROVE  /\ Len(results[c][i].trace) <= MaxTraceSize
                      /\ Len(results[c][i].matched) <= MaxMatchedPolicyIDs
                      /\ results[c][i].err = "none" => Honest(snap[c], evidence[c][i], results[c][i])
    BY Zenon DEF TruncationIsHonest, Honest
  <2> DEFINE r == results[c][i]
             f == evidence[c][i]
             s == snap[c]
  <2>1. r = results[c][i] /\ f = evidence[c][i] /\ s = snap[c]
    BY Zenon
  <2> HIDE DEF r, f, s
  <2>2. /\ Len(r.trace) <= MaxTraceSize /\ Len(r.matched) <= MaxMatchedPolicyIDs
        /\ r.err = "none" =>
             (r.traceTruncated <=> Len(f.decisions) > Len(r.trace)) /\ Listed(s, f, r)
    BY Zenon, <1>1, <1>3, <2>1
  <2>3. ASSUME r.err = "none", ~r.matchedTruncated
        PROVE  /\ \A k \in DOMAIN f.decisions :
                    Applied(f, k) => ~f.decisions[k].matchedTruncated
               /\ \A x : x \in Range(r.matched) <=>
                    \E k \in DOMAIN f.decisions : Applied(f, k) /\ x \in Contribution(s, f, k)
    BY <2>2, <2>3, Zenon DEF Listed
  <2>4. ASSUME r.err = "none", ~r.matchedTruncated
        PROVE  Range(r.matched) =
                 UNION {IF f.decisions[k].matched = <<>> THEN {s.policies[k].id}
                        ELSE Range(f.decisions[k].matched) :
                            k \in {l \in DOMAIN f.decisions :
                                      f.decisions[l].outcome # "NotApplicable"}}
    BY Zenon, <1>2, <2>3, <2>4
  <2>5. r.err = "none" => Honest(s, f, r)
    BY Zenon, <2>2, <2>3, <2>4 DEF Honest, Applied
  <2> QED
    BY Zenon, <2>1, <2>2, <2>5
<1> QED
  BY <1>3, EngineInvariant, PTL

-----------------------------------------------------------------------------
(* The short-circuit                                                       *)

(* Every snapshot at hand is one that NewSnapshot ordered.                 *)
OrderInv ==
    /\ Ordered(active)
    /\ \A c \in Callers : Ordered(snap[c])
    /\ \A w \in Writers : writer[w].pc # "idle" => Ordered(writer[w].next)

LEMMA OrderInductive ==
    ASSUME TypeOK, OrderInv, [Next]_vars
    PROVE  OrderInv'
<1> USE DEF TypeOK
<1>1. ASSUME NEW c \in Callers, Capture(c) PROVE OrderInv'
  BY Zenon, <1>1 DEF OrderInv, Capture, writeVars
<1>2. ASSUME UNCHANGED <<snap, writeVars>> PROVE OrderInv'
  BY Zenon, <1>2 DEF OrderInv, writeVars
<1>3. ASSUME NEW c \in Callers, RejectBatch(c) \/ CallStep(c) \/ CancelContext(c)
      PROVE  UNCHANGED <<snap, writeVars>>
  BY Zenon, <1>3 DEF RejectBatch, CancelContext, CallStep, RejectRequest, CanceledAtStart, StartRequest,
              CanceledAtPolicy, SkipInactive, EvaluatorFails, EvaluatorInvalid,
              EvaluatorDecides, CombineDecisions, FinishCall, Deny, ReturnResult, RecordDecision
<1>4. SetClock \/ UNCHANGED vars => UNCHANGED <<snap, writeVars>>
  BY Zenon DEF SetClock, vars, callVars
<1>5. ASSUME NEW w \in Writers, RefuseSnapshot(w) \/ RefuseRevision(w) PROVE OrderInv'
  <2>1. /\ active' = active /\ snap' = snap
        /\ \E e : writer' = [writer EXCEPT ![w] = [IdleWriter EXCEPT !.err = e]]
    BY Zenon, <1>5 DEF RefuseSnapshot, RefuseRevision, Unlock, callVars
  <2>2. \A e : [IdleWriter EXCEPT !.err = e].pc = "idle"
    BY Zenon DEF IdleWriter
  <2> QED
    BY <2>1, <2>2 DEF OrderInv
<1>6. ASSUME NEW w \in Writers, OfferSnapshot(w) PROVE OrderInv'
  <2>1. PICK next \in Candidates, e \in {s.revision : s \in Candidates \cup {InitialSnapshot}} :
          writer' = [writer EXCEPT ![w] =
              [IdleWriter EXCEPT !.pc = "waiting", !.next = next, !.expected = e]]
    BY Zenon, <1>6 DEF OfferSnapshot
  <2>2. active' = active /\ snap' = snap
    BY Zenon, <1>6 DEF OfferSnapshot, callVars
  <2>3. [IdleWriter EXCEPT !.pc = "waiting", !.next = next, !.expected = e].next = next
    BY Zenon DEF IdleWriter
  <2>4. Ordered(next)
    BY Zenon, SnapshotTypes
  <2> QED
    BY Zenon, <2>1, <2>2, <2>3, <2>4 DEF OrderInv
<1>7. ASSUME NEW w \in Writers, LockAndLoad(w) PROVE OrderInv'
  <2> DEFINE locked == [writer[w] EXCEPT !.pc = "locked", !.current = active]
  <2>1. /\ active' = active /\ snap' = snap /\ writer[w].pc = "waiting"
        /\ writer' = [writer EXCEPT ![w] = locked]
    BY Zenon, <1>7 DEF LockAndLoad, callVars
  <2>2. locked.next = writer[w].next
    BY Zenon DEF WriterRecord
  <2> HIDE DEF locked
  <2> QED
    BY Zenon, <2>1, <2>2 DEF OrderInv
<1>8. ASSUME NEW w \in Writers, StoreSnapshot(w) PROVE OrderInv'
  <2>1. /\ active' = writer[w].next /\ snap' = snap /\ writer[w].pc # "idle"
        /\ writer' = [writer EXCEPT ![w] = [IdleWriter EXCEPT !.err = "none"]]
    BY Zenon, <1>8 DEF StoreSnapshot, Unlock, callVars
  <2>2. [IdleWriter EXCEPT !.err = "none"].pc = "idle"
    BY Zenon DEF IdleWriter
  <2> QED
    BY Zenon, <2>1, <2>2 DEF OrderInv
<1> QED
  BY Zenon, <1>1, <1>2, <1>3, <1>4, <1>5, <1>6, <1>7, <1>8 DEF Next, WriteStep

(* A call that stops at a decisive policy decides as the composition table *)
(* does, whatever the policies that were not called would have answered:   *)
(* the snapshots come from NewSnapshot, which sorts under PriorityOrder.   *)
THEOREM ShortCircuitSound == Spec => []ShortCircuitIsSound
<1>1. ASSUME EngineInv, OrderInv, NEW c \in Callers, NEW i \in DOMAIN results[c],
             NEW r, r = results[c][i], NEW f, f = evidence[c][i], NEW s, s = snap[c],
             r.err = "none",
             NEW rest \in [(Len(f.decisions) + 1)..Len(s.policies) -> ValidOutcomes]
      PROVE  (r.outcome = "Allow")
               <=> (TableOutcome(s.algorithm, s.policies, Completed(s, f, rest)) = "Allow")
  <2>1. FrameSound(s, f) /\ ResultSound(s, f, r)
    BY Zenon, <1>1 DEF EngineInv, CallInv, CallSound
  <2>2. /\ Len(f.decisions) <= Len(s.policies) /\ StillUndecided(s, f) /\ Ended(s, f)
        /\ r.outcome = "Allow" <=> Select(s.algorithm, f.decisions).outcome = "Allow"
    BY Zenon, <1>1, <2>1 DEF FrameSound, ResultSound, Composed
  <2>3. Ordered(s) /\ s \in SnapshotRecord
    BY Zenon, <1>1 DEF OrderInv, EngineInv, TypeOK
  <2>4. f \in Frame
    <3>1. /\ evidence[c] \in Seq(Frame) /\ results[c] \in Seq(Result)
          /\ Len(evidence[c]) = Len(results[c])
      BY Zenon, <1>1 DEF EngineInv, TypeOK, CallInv, CallSound
    <3> QED
      BY <1>1, <3>1
  <2> QED
    BY Zenon, <1>1, <2>2, <2>3, <2>4, SelectFollowsTable
<1>2. ASSUME EngineInv, OrderInv PROVE ShortCircuitIsSound
  <2> SUFFICES ASSUME NEW c \in Callers, NEW i \in DOMAIN results[c], results[c][i].err = "none",
                      NEW rest \in [(Len(evidence[c][i].decisions) + 1)..Len(snap[c].policies)
                                        -> ValidOutcomes]
               PROVE  (results[c][i].outcome = "Allow")
                        <=> (TableOutcome(snap[c].algorithm, snap[c].policies,
                                 Completed(snap[c], evidence[c][i], rest)) = "Allow")
    BY Zenon DEF ShortCircuitIsSound, Completed
  <2> QED
    BY <1>1, <1>2
<1>3. Init => OrderInv
  BY SnapshotTypes DEF Init, OrderInv, IdleWriter
<1>4. EngineInv /\ OrderInv /\ [Next]_vars => OrderInv'
  BY Zenon, OrderInductive DEF EngineInv
<1> QED
  BY <1>2, <1>3, <1>4, EngineInvariant, PTL DEF Spec

-----------------------------------------------------------------------------
(* Policies that hand over at an instant leave no gap and no overlap in    *)
(* any decision, although the clock moves while decide runs.               *)
THEOREM HandoverExact == Spec => []HandoverLeavesNoGap
<1>1. ASSUME EngineInv PROVE HandoverLeavesNoGap
  <2> SUFFICES ASSUME NEW c \in Callers, NEW i \in DOMAIN evidence[c],
                      NEW j \in DOMAIN evidence[c][i].decisions,
                      NEW k \in DOMAIN evidence[c][i].decisions,
                      snap[c].policies[j].activeFrom = 0, snap[c].policies[j].activeUntil # 0,
                      snap[c].policies[k].activeFrom = snap[c].policies[j].activeUntil,
                      snap[c].policies[k].activeUntil = 0
               PROVE  (evidence[c][i].decisions[j].reason = "PolicyInactive")
                        # (evidence[c][i].decisions[k].reason = "PolicyInactive")
    BY Zenon DEF HandoverLeavesNoGap
  <2> DEFINE p == snap[c].policies[j]
             q == snap[c].policies[k]
             at == evidence[c][i].at
  <2>1. i \in DOMAIN results[c]
    <3>1. /\ evidence[c] \in Seq(Frame) /\ results[c] \in Seq(Result)
      BY Zenon, <1>1 DEF EngineInv, TypeOK
    <3>2. Len(evidence[c]) = Len(results[c])
      BY Zenon, <1>1 DEF EngineInv, CallInv, CallSound
    <3> QED
      BY <3>1, <3>2
  <2>2. FrameSound(snap[c], evidence[c][i])
    BY Zenon, <1>1, <2>1 DEF EngineInv, CallInv, CallSound
  <2>3. evidence[c][i] \in Frame /\ snap[c] \in SnapshotRecord
    BY Zenon, <1>1, ElementType DEF EngineInv, TypeOK
  <2>4. /\ evidence[c][i].decisions \in Seq(PolicyDecision) /\ snap[c].policies \in Seq(Policy)
        /\ at \in Nat
    BY Zenon, <2>3 DEF Frame, SnapshotRecord
  <2>5. j \in DOMAIN snap[c].policies /\ k \in DOMAIN snap[c].policies
    <3>1. Len(evidence[c][i].decisions) <= Len(snap[c].policies)
      BY Zenon, <2>2 DEF FrameSound
    <3> QED
      BY <2>4, <3>1
  <2>6. p.activeUntil \in Nat
    <3>1. p \in Policy
      BY Zenon, <2>4, <2>5, ElementType
    <3> QED
      BY Zenon, <3>1 DEF Policy
  <2>7. ActiveAt(p, at) <=> ~ActiveAt(q, at)
    <3>1. ActiveAt(p, at) <=> at < p.activeUntil
      BY Zenon DEF ActiveAt
    <3>2. ActiveAt(q, at) <=> at >= p.activeUntil
      <4>1. q.activeFrom = p.activeUntil /\ p.activeUntil # 0 /\ q.activeUntil = 0
        BY Zenon
      <4> HIDE DEF p, q, at
      <4> QED
        BY Zenon, <4>1 DEF ActiveAt
    <3>3. at < p.activeUntil <=> ~(at >= p.activeUntil)
      <4> HIDE DEF p, at
      <4> QED
        BY <2>4, <2>6
    <3> QED
      BY Zenon, <3>1, <3>2, <3>3
  <2>8. /\ evidence[c][i].decisions[j].reason = "PolicyInactive" <=> ~ActiveAt(p, at)
        /\ evidence[c][i].decisions[k].reason = "PolicyInactive" <=> ~ActiveAt(q, at)
    BY <2>2, Zenon DEF FrameSound
  <2> QED
    BY Zenon, <2>7, <2>8
<1> QED
  BY <1>1, EngineInvariant, PTL

-----------------------------------------------------------------------------
(* Engine implements DecisionPoint                                         *)

Mapped == [c \in Callers |-> Answered(results[c])]

LEMMA AnsweredEmpty == Answered(<<>>) = <<>>
BY DEF Answered

(* One more result is one more answer.                                     *)
LEMMA AnsweredAppend ==
    ASSUME NEW rs \in Seq(Result), NEW r \in Result
    PROVE  Answered(Append(rs, r)) =
             Append(Answered(rs), [outcome |-> r.outcome, revision |-> r.revision])
<1> DEFINE Of(x) == [outcome |-> x.outcome, revision |-> x.revision]
           AnswerSet == {Of(x) : x \in Result}
           more == Append(rs, r)
           left == [i \in 1..(Len(rs) + 1) |-> Of(more[i])]
<1>1. more \in Seq(Result) /\ DOMAIN more = 1..(Len(rs) + 1) /\ DOMAIN rs = 1..Len(rs)
  OBVIOUS
<1>2. Answered(more) = left
  BY Zenon, <1>1 DEF Answered
<1>3. Answered(rs) = [i \in 1..Len(rs) |-> Of(rs[i])]
  BY Zenon, <1>1 DEF Answered
<1>4. \A i \in 1..Len(rs) : rs[i] \in Result /\ more[i] = rs[i]
  OBVIOUS
<1>5. more[Len(rs) + 1] = r
  OBVIOUS
<1> HIDE DEF more, AnswerSet, Of
<1>6. Of(r) \in AnswerSet /\ \A i \in 1..Len(rs) : Of(rs[i]) \in AnswerSet
  BY Zenon, <1>4 DEF AnswerSet
<1>7. Answered(rs) \in Seq(AnswerSet) /\ Len(Answered(rs)) = Len(rs)
  BY <1>3, <1>6
<1>8. Append(Answered(rs), Of(r)) = left
  BY <1>3, <1>4, <1>5, <1>6, <1>7
<1> QED
  BY Zenon, <1>2, <1>8 DEF more, Of

LEMMA RefinementInit == Init => Promise!Init
<1> SUFFICES ASSUME Init PROVE Promise!Init
  BY Zenon
<1>1. Mapped = [c \in Callers |-> <<>>]
  BY Zenon, AnsweredEmpty DEF Mapped, Init
<1> QED
  BY Zenon, <1>1 DEF Promise!Init, Init, Mapped

(* Returning a result is a Reply.                                          *)
LEMMA ReturnIsReply ==
    ASSUME TypeOK, NEW c \in Callers, NEW r \in Result, ReturnResult(c, r),
           r.revision = snap[c].revision,
           r.outcome = "Allow" => snap[c].policies # <<>>
    PROVE  Promise!Reply(c)
<1>1. results' = [results EXCEPT ![c] = Append(results[c], r)] /\ UNCHANGED <<active, snap>>
  BY Zenon DEF ReturnResult, writeVars
<1>2. results \in [Callers -> Seq(Result)] /\ r.outcome \in {"Allow", "Deny"}
  BY Zenon DEF TypeOK, Result
<1>3. Mapped' = [Mapped EXCEPT ![c] =
         Append(Mapped[c], [outcome |-> r.outcome, revision |-> snap[c].revision])]
  <2>1. /\ results' \in [Callers -> Seq(Result)]
        /\ results'[c] = Append(results[c], r)
        /\ \A x \in Callers : x # c => results'[x] = results[x]
    BY <1>1, <1>2
  <2>2. Answered(results'[c]) =
          Append(Answered(results[c]), [outcome |-> r.outcome, revision |-> snap[c].revision])
    BY Zenon, <1>2, <2>1, AnsweredAppend
  <2> QED
    BY Zenon, <2>1, <2>2 DEF Mapped
<1> QED
  BY Zenon, <1>1, <1>2, <1>3 DEF Promise!Reply, Mapped

LEMMA DenyIsReply ==
    ASSUME TypeOK, NEW c \in Callers, NEW reason \in Reasons, NEW err \in CallErrors,
           Deny(c, reason, err)
    PROVE  Promise!Reply(c)
<1> DEFINE r == DenyResult(snap[c].revision, reason, err)
<1>1. snap[c].revision \in Nat
  BY Zenon DEF TypeOK, SnapshotRecord
<1>2. r \in Result
  BY Zenon, <1>1, DenyResultType
<1>3. r.revision = snap[c].revision /\ r.outcome # "Allow"
  BY Zenon DEF DenyResult
<1>4. ReturnResult(c, r)
  BY Zenon DEF Deny
<1> HIDE DEF r
<1> QED
  BY Zenon, <1>2, <1>3, <1>4, ReturnIsReply

(* A composition over no policy is a Deny.                                 *)
LEMMA CombineIsReply ==
    ASSUME TypeOK, NEW c \in Callers, CallSound(c), CombineDecisions(c)
    PROVE  Promise!Reply(c)
<1>1. Decided(c) \in Result
  BY Zenon, DecidedType
<1>2. ResultSound(snap[c], frame[c], Decided(c)) /\ FrameSound(snap[c], frame[c])
  <2>1. Ended(snap[c], frame[c])
    BY Zenon DEF CombineDecisions, LoopEnded, Ended
  <2> QED
    BY Zenon, <2>1, DecidedSound DEF CallSound
<1>3. frame[c].decisions \in Seq(PolicyDecision) /\ snap[c].policies \in Seq(Policy)
  BY Zenon DEF TypeOK, Frame, SnapshotRecord
<1>4. Decided(c).outcome = "Allow" => snap[c].policies # <<>>
  <2> SUFFICES ASSUME Decided(c).outcome = "Allow" PROVE snap[c].policies # <<>>
    BY Zenon
  <2>1. PICK k \in DOMAIN frame[c].decisions : TRUE
    BY Zenon, <1>2 DEF ResultSound
  <2>2. Len(frame[c].decisions) <= Len(snap[c].policies)
    BY Zenon, <1>2 DEF FrameSound
  <2>3. Len(frame[c].decisions) >= 1 /\ Len(frame[c].decisions) \in Nat
    BY <1>3, <2>1
  <2>4. \A q \in Seq(Policy) : Len(q) \in Nat /\ (Len(q) >= 1 => q # <<>>)
    OBVIOUS
  <2>5. Len(snap[c].policies) >= 1
    BY <1>3, <2>2, <2>3, <2>4
  <2> QED
    BY <1>3, <2>4, <2>5, Zenon
<1> QED
  BY Zenon, <1>1, <1>2, <1>4, ReturnIsReply DEF CombineDecisions, ResultSound

LEMMA RefinementStep ==
    ASSUME EngineInv, [Next]_vars
    PROVE  [Promise!Next]_(Promise!vars)
<1> USE DEF Reasons, CallErrors
<1>0. TypeOK /\ ReplaceInv /\ \A c \in Callers : CallSound(c)
  BY Zenon DEF EngineInv, CallInv
<1>1. ASSUME UNCHANGED <<active, snap, results>> PROVE UNCHANGED Promise!vars
  BY Zenon, <1>1 DEF Promise!vars, Answered
<1>2. ASSUME NEW c \in Callers, RejectBatch(c) \/ CancelContext(c) \/ StartRequest(c)
               \/ SkipInactive(c) \/ EvaluatorDecides(c) \/ FinishCall(c)
      PROVE  UNCHANGED <<active, snap, results>>
  BY Zenon, <1>2 DEF RejectBatch, CancelContext, StartRequest, SkipInactive, EvaluatorDecides,
              FinishCall, RecordDecision, writeVars
<1>3. ASSUME NEW c \in Callers, Capture(c) PROVE Promise!Load(c)
  <2>1. /\ snap' = [snap EXCEPT ![c] = active] /\ UNCHANGED <<active, results>>
        /\ pc[c] = "idle"
    BY Zenon, <1>3 DEF Capture, writeVars
  <2>2. Mapped[c] = <<>>
    BY Zenon, <1>0, <2>1, AnsweredEmpty DEF CallSound, Mapped
  <2>3. UNCHANGED Mapped
    BY Zenon, <2>1 DEF Mapped
  <2> QED
    BY Zenon, <2>1, <2>2, <2>3 DEF Promise!Load, Mapped
<1>4. ASSUME NEW c \in Callers,
             \/ RejectRequest(c) \/ CanceledAtStart(c) \/ CanceledAtPolicy(c)
             \/ EvaluatorFails(c) \/ EvaluatorInvalid(c)
      PROVE  Promise!Reply(c)
  BY Zenon, <1>0, <1>4, DenyIsReply DEF RejectRequest, CanceledAtStart, CanceledAtPolicy,
                                 EvaluatorFails, EvaluatorInvalid
<1>5. ASSUME NEW c \in Callers, CombineDecisions(c) PROVE Promise!Reply(c)
  BY Zenon, <1>0, <1>5, CombineIsReply
<1>6. ASSUME NEW w \in Writers, RefuseSnapshot(w) \/ OfferSnapshot(w) \/ LockAndLoad(w)
               \/ RefuseRevision(w)
      PROVE  UNCHANGED <<active, snap, results>>
  BY Zenon, <1>6 DEF RefuseSnapshot, OfferSnapshot, LockAndLoad, RefuseRevision, Unlock, callVars
<1>7. ASSUME NEW w \in Writers, StoreSnapshot(w) PROVE Promise!Install
  <2>1. active'.revision > active.revision
    BY Zenon, <1>0, <1>7, StoreStep
  <2>2. active' \in Candidates
    BY Zenon, <1>0, <1>7 DEF StoreSnapshot, ReplaceInv
  <2>3. UNCHANGED <<snap, results>>
    BY Zenon, <1>7 DEF StoreSnapshot, Unlock, callVars
  <2>4. UNCHANGED Mapped
    BY Zenon, <2>3 DEF Mapped
  <2> QED
    BY Zenon, <2>1, <2>2, <2>3, <2>4 DEF Promise!Install, Mapped
<1>8. SetClock \/ UNCHANGED vars => UNCHANGED <<active, snap, results>>
  BY Zenon DEF SetClock, vars, callVars, writeVars
<1> QED
  BY Zenon, <1>1, <1>2, <1>3, <1>4, <1>5, <1>6, <1>7, <1>8
     DEF Next, CallStep, WriteStep, Promise!Next

(* The engine implements DecisionPoint, for every number of callers and    *)
(* writers and every set of candidate snapshots.                           *)
THEOREM EngineImplementsDecisionPoint == Spec => ImplementsDecisionPoint
<1>1. EngineInv /\ [Next]_vars => [Promise!Next]_(Promise!vars)
  BY Zenon, RefinementStep
<1> QED
  BY <1>1, RefinementInit, EngineInvariant, PTL DEF Spec, ImplementsDecisionPoint, Promise!Spec

=============================================================================
