------------------------ MODULE OnlineServing_proofs ------------------------
(***************************************************************************)
(* Two proofs that rest on the same laws of sums:                          *)
(*                                                                         *)
(* what every request of OnlineServing is promised, whatever the others    *)
(* do, and what the telemetry of all of them adds up to, for any catalog,  *)
(* any number of concurrent requests and every configuration;              *)
(*                                                                         *)
(* what every call of Metering is billed, whatever runs next to it, and    *)
(* what the bills of a trial add up to, for any calls with any uses.       *)
(***************************************************************************)
EXTENDS OnlineServing, Metering, SequenceTheorems, FiniteSetTheorems, WellFoundedInduction, TLAPS

----------------------------------------------------------------------------
(* Ranks *)

\* A non-empty set of naturals has a least element.
LEMMA LeastElement ==
  ASSUME NEW T \in SUBSET Nat, T # {}
  PROVE  \E x \in T : \A y \in T : x <= y
<1>1. PICK R : R = OpToRel(<, Nat)
  OBVIOUS
<1>2. IsWellFoundedOn(R, Nat)
  BY <1>1, NatLessThanWellFounded
<1>3. PICK x \in T : \A y \in T : ~ (<<y, x>> \in R)
  BY <1>2, WFMin
<1>4. \A y \in T : y < x => <<y, x>> \in R
  BY <1>1 DEF OpToRel
<1>5. \A y \in T : ~(y < x) /\ x \in Nat /\ y \in Nat
  BY <1>3, <1>4
<1>6. \A y \in T : x <= y
  BY <1>5, SMT
<1>. QED
  BY <1>6

LEMMA MinIsLeast ==
  ASSUME NEW T \in SUBSET Nat, T # {}
  PROVE  Min(T) \in T /\ \A y \in T : Min(T) <= y
<1>1. \E x \in T : \A y \in T : x <= y
  BY LeastElement
<1>. QED
  BY <1>1 DEF Min

LEMMA MinOfTwo ==
  ASSUME NEW m \in Nat, NEW n \in Nat
  PROVE  Min({m, n}) = IF m <= n THEN m ELSE n
<1>1. Min({m, n}) \in {m, n} /\ \A y \in {m, n} : Min({m, n}) <= y
  BY MinIsLeast, {m, n} \in SUBSET Nat
<1>. QED
  BY <1>1

\* What comes before x in S, in the order R.
Ahead(S, R, x) == {y \in S : <<y, x>> \in R}

StrictOrder(S, R) ==
  /\ \A x \in S : <<x, x>> \notin R
  /\ \A x, y, z \in S : <<x, y>> \in R /\ <<y, z>> \in R => <<x, z>> \in R
  /\ \A x, y \in S : x # y => <<x, y>> \in R \/ <<y, x>> \in R

\* In a finite ordered set every element has a rank and every rank an element.
LEMMA Ranks ==
  ASSUME NEW S, IsFiniteSet(S), NEW R, StrictOrder(S, R)
  PROVE  /\ Cardinality(S) \in Nat
         /\ \A x \in S : Cardinality(Ahead(S, R, x)) \in 0..(Cardinality(S) - 1)
         /\ \A x, y \in S : <<x, y>> \in R =>
              Cardinality(Ahead(S, R, x)) < Cardinality(Ahead(S, R, y))
         /\ \A k \in 1..Cardinality(S) :
              \E x \in S : Cardinality(Ahead(S, R, x)) = k - 1
<1>. DEFINE N    == Cardinality(S)
            at(x) == Ahead(S, R, x)
            rank == [x \in S |-> Cardinality(at(x)) + 1]
<1>0. N \in Nat
  BY FS_CardinalityType
<1>1. \A x \in S : at(x) \in SUBSET S /\ IsFiniteSet(at(x)) /\ Cardinality(at(x)) \in 0..(N - 1)
  <2>. TAKE x \in S
  <2>1. at(x) \in SUBSET S /\ x \in S /\ x \notin at(x)
    BY DEF Ahead, StrictOrder
  <2>. HIDE DEF at
  <2>2. IsFiniteSet(at(x)) /\ Cardinality(at(x)) <= N /\ Cardinality(at(x)) # N
    BY <2>1, FS_Subset
  <2>3. Cardinality(at(x)) \in Nat
    BY <2>2, FS_CardinalityType
  <2>. QED
    BY <1>0, <2>1, <2>2, <2>3
<1>2. \A x, y \in S : <<x, y>> \in R => Cardinality(at(x)) < Cardinality(at(y))
  <2>. SUFFICES ASSUME NEW x \in S, NEW y \in S, <<x, y>> \in R
                PROVE  Cardinality(at(x)) < Cardinality(at(y))
    OBVIOUS
  <2>1. at(x) \in SUBSET at(y) /\ x \in at(y) /\ x \notin at(x)
    BY DEF Ahead, StrictOrder
  <2>2. IsFiniteSet(at(y)) /\ Cardinality(at(x)) \in Nat /\ Cardinality(at(y)) \in Nat
    BY <1>0, <1>1
  <2>. HIDE DEF at
  <2>3. Cardinality(at(x)) <= Cardinality(at(y)) /\ Cardinality(at(x)) # Cardinality(at(y))
    BY <2>1, <2>2, FS_Subset
  <2>. QED
    BY <2>2, <2>3
<1>. HIDE DEF at
<1>3. \A x, y \in S : rank[x] = rank[y] => x = y
  <2>. SUFFICES ASSUME NEW x \in S, NEW y \in S, x # y PROVE rank[x] # rank[y]
    OBVIOUS
  <2>1. <<x, y>> \in R \/ <<y, x>> \in R
    BY DEF StrictOrder
  <2>2. Cardinality(at(x)) \in Nat /\ Cardinality(at(y)) \in Nat
    BY <1>0, <1>1
  <2>. QED
    BY <1>2, <2>1, <2>2
<1>4. \A x \in S : rank[x] \in 1..N
  BY <1>0, <1>1
<1>5. rank \in Injection(S, 1..N)
  BY <1>3, <1>4 DEF Injection, IsInjective
<1>6. IsFiniteSet(1..N) /\ Cardinality(1..N) = N
  BY <1>0, FS_Interval
<1>7. rank \in Surjection(S, 1..N)
  BY <1>5, <1>6, FS_Injection
<1>8. \A k \in 1..N : \E x \in S : rank[x] = k
  BY <1>7 DEF Surjection
<1>9. \A k \in 1..N : \E x \in S : Cardinality(at(x)) = k - 1
  <2>. TAKE k \in 1..N
  <2>1. PICK x \in S : rank[x] = k
    BY <1>8
  <2>2. Cardinality(at(x)) \in Nat /\ Cardinality(at(x)) + 1 = k
    BY <1>0, <1>1, <2>1
  <2>. QED
    BY <2>2
<1>. QED
  BY <1>0, <1>1, <1>2, <1>9 DEF at

\* f lists S in the order R.
Lists(f, S, R) ==
  /\ f \in [1..Cardinality(S) -> S]
  /\ \A x \in S : \E k \in 1..Cardinality(S) : f[k] = x
  /\ \A i, j \in 1..Cardinality(S) : i < j => <<f[i], f[j]>> \in R

LEMMA Listing ==
  ASSUME NEW S, IsFiniteSet(S), NEW R, StrictOrder(S, R)
  PROVE  Lists([k \in 1..Cardinality(S) |->
                  CHOOSE x \in S : Cardinality(Ahead(S, R, x)) = k - 1], S, R)
<1>. DEFINE N     == Cardinality(S)
            at(x) == Cardinality(Ahead(S, R, x))
            f     == [k \in 1..N |-> CHOOSE x \in S : at(x) = k - 1]
<1>. HIDE DEF at
<1>1. /\ N \in Nat
      /\ \A x \in S : at(x) \in 0..(N - 1)
      /\ \A x, y \in S : <<x, y>> \in R => at(x) < at(y)
      /\ \A k \in 1..N : \E x \in S : at(x) = k - 1
  BY Ranks DEF at
<1>2. \A k \in 1..N : f[k] \in S /\ at(f[k]) = k - 1
  BY <1>1
<1>3. f \in [1..N -> S]
  BY <1>2
<1>4. \A x, y \in S : at(x) = at(y) => x = y
  <2>. SUFFICES ASSUME NEW x \in S, NEW y \in S, x # y PROVE at(x) # at(y)
    OBVIOUS
  <2>1. <<x, y>> \in R \/ <<y, x>> \in R
    BY DEF StrictOrder
  <2>. QED
    BY <1>1, <2>1
<1>5. \A x \in S : f[at(x) + 1] = x /\ at(x) + 1 \in 1..N
  <2>. TAKE x \in S
  <2>1. at(x) + 1 \in 1..N /\ (at(x) + 1) - 1 = at(x)
    BY <1>1
  <2>2. f[at(x) + 1] \in S /\ at(f[at(x) + 1]) = at(x)
    BY <1>2, <2>1
  <2>. QED
    BY <1>4, <2>1, <2>2
<1>. HIDE DEF f
<1>6. \A i, j \in 1..N : i < j => <<f[i], f[j]>> \in R
  <2>. SUFFICES ASSUME NEW i \in 1..N, NEW j \in 1..N, i < j PROVE <<f[i], f[j]>> \in R
    OBVIOUS
  <2>1. f[i] \in S /\ f[j] \in S /\ at(f[i]) = i - 1 /\ at(f[j]) = j - 1
    BY <1>2
  <2>2. f[i] # f[j] /\ ~(at(f[j]) < at(f[i]))
    BY <1>1, <2>1
  <2>3. <<f[i], f[j]>> \in R \/ <<f[j], f[i]>> \in R
    BY <2>1, <2>2 DEF StrictOrder
  <2>. QED
    BY <1>1, <2>1, <2>2, <2>3
<1>7. Lists(f, S, R)
  BY <1>3, <1>5, <1>6 DEF Lists
<1>. QED
  BY <1>7 DEF f, at

\* The numbers of a finite set, by size.
LEMMA NthOfNumbers ==
  ASSUME NEW S \in SUBSET Nat, IsFiniteSet(S)
  PROVE  /\ Cardinality(S) \in Nat
         /\ \A k \in 1..Cardinality(S) : Nth(S, k) \in S
         /\ \A x \in S : \E k \in 1..Cardinality(S) : Nth(S, k) = x
         /\ \A i, j \in 1..Cardinality(S) : i < j => Nth(S, i) < Nth(S, j)
<1>. DEFINE R == {p \in S \X S : p[1] < p[2]}
            f == [k \in 1..Cardinality(S) |->
                    CHOOSE x \in S : Cardinality(Ahead(S, R, x)) = k - 1]
<1>1. \A x, y \in S : <<x, y>> \in R <=> x < y
  OBVIOUS
<1>2. \A x \in S : Ahead(S, R, x) = {y \in S : y < x}
  BY <1>1 DEF Ahead
<1>3. StrictOrder(S, R)
  <2>. HIDE DEF R
  <2>. QED
    BY <1>1 DEF StrictOrder
<1>4. Lists(f, S, R)
  <2>. HIDE DEF R
  <2>. QED
    BY <1>3, Listing
<1>5. \A k \in 1..Cardinality(S) : f[k] = Nth(S, k)
  <2>. HIDE DEF R
  <2>. QED
    BY <1>2 DEF Nth
<1>6. Cardinality(S) \in Nat
  BY FS_CardinalityType
<1>. HIDE DEF f, R
<1>7. \A i, j \in 1..Cardinality(S) : i < j => Nth(S, i) < Nth(S, j)
  <2>. SUFFICES ASSUME NEW i \in 1..Cardinality(S), NEW j \in 1..Cardinality(S), i < j
                PROVE  Nth(S, i) < Nth(S, j)
    OBVIOUS
  <2>1. <<f[i], f[j]>> \in R /\ f[i] \in S /\ f[j] \in S
    BY <1>4 DEF Lists
  <2>. QED
    BY <1>1, <1>5, <2>1
<1>. QED
  BY <1>4, <1>5, <1>6, <1>7 DEF Lists

\* chosen is what seq has at the positions P, in their order.
Places(chosen, seq, P) ==
  /\ Cardinality(P) \in Nat /\ Len(chosen) = Cardinality(P)
  /\ DOMAIN chosen = 1..Len(chosen)
  /\ chosen \in Seq({seq[p] : p \in P})
  /\ \A k \in 1..Len(chosen) : Nth(P, k) \in P /\ chosen[k] = seq[Nth(P, k)]
  /\ \A p \in P : \E k \in 1..Len(chosen) : Nth(P, k) = p
  /\ \A i, j \in 1..Len(chosen) : i < j => Nth(P, i) < Nth(P, j)

\* A choice of positions keeps their order, and leaves nothing of them out.
LEMMA AtPositions ==
  ASSUME NEW A, NEW seq \in Seq(A), NEW P \in SUBSET (1..Len(seq))
  PROVE  Places(At(seq, P), seq, P)
<1>1. IsFiniteSet(1..Len(seq))
  BY FS_Interval
<1>2. IsFiniteSet(P)
  BY <1>1, FS_Subset
<1>0. P \in SUBSET Nat
  OBVIOUS
<1>3. /\ Cardinality(P) \in Nat
      /\ \A k \in 1..Cardinality(P) : Nth(P, k) \in P
      /\ \A x \in P : \E k \in 1..Cardinality(P) : Nth(P, k) = x
      /\ \A i, j \in 1..Cardinality(P) : i < j => Nth(P, i) < Nth(P, j)
  BY <1>0, <1>2, NthOfNumbers
<1>4. At(seq, P) \in [1..Cardinality(P) -> {seq[p] : p \in P}]
  BY <1>3 DEF At
<1>5. At(seq, P) \in Seq({seq[p] : p \in P}) /\ Len(At(seq, P)) = Cardinality(P)
  BY <1>3, <1>4
<1>6. \A k \in 1..Cardinality(P) : At(seq, P)[k] = seq[Nth(P, k)]
  BY DEF At
<1>7. DOMAIN At(seq, P) = 1..Len(At(seq, P))
  BY <1>5
<1>. QED
  BY <1>3, <1>5, <1>6, <1>7 DEF Places

----------------------------------------------------------------------------
(* Groups and chains *)

\* All that a request may be served by.
Reached(groups) == UNION {groups[i] : i \in DOMAIN groups}

\* Groups of routes as candidate_groups makes them: none is empty.
Groups == Seq((SUBSET Route) \ {{}})

LEMMA FirstGroupIsFirst ==
  ASSUME NEW groups \in Groups, NEW r \in Reached(groups)
  PROVE  /\ FirstGroup(groups, r) \in 1..Len(groups)
         /\ r \in groups[FirstGroup(groups, r)]
         /\ \A i \in 1..Len(groups) : r \in groups[i] => FirstGroup(groups, r) <= i
<1>. DEFINE T == {i \in 1..Len(groups) : r \in groups[i]}
<1>1. DOMAIN groups = 1..Len(groups) /\ Len(groups) \in Nat
  BY DEF Groups
<1>2. T # {} /\ T \in SUBSET Nat
  BY <1>1 DEF Reached
<1>3. PICK m \in T : \A i \in T : m <= i
  BY <1>2, LeastElement
<1>4. \A k \in 1..(m - 1) : r \notin groups[k]
  BY <1>1, <1>3
<1>5. m \in DOMAIN groups /\ r \in groups[m] /\ \A k \in 1..(m - 1) : r \notin groups[k]
  BY <1>1, <1>3, <1>4
<1>. DEFINE f == FirstGroup(groups, r)
<1>6. f \in DOMAIN groups /\ r \in groups[f] /\ \A k \in 1..(f - 1) : r \notin groups[k]
  BY <1>5 DEF FirstGroup
<1>. HIDE DEF f
<1>7. \A i \in 1..Len(groups) : r \in groups[i] => f <= i
  BY <1>1, <1>6
<1>. QED
  BY <1>1, <1>6, <1>7 DEF f

LEMMA ReachedIsFinite ==
  ASSUME NEW groups \in Groups
  PROVE  /\ Reached(groups) \in SUBSET Route /\ IsFiniteSet(Reached(groups))
         /\ Cardinality(Reached(groups)) \in Nat
         /\ \A i \in DOMAIN groups : groups[i] # {} /\ groups[i] \in SUBSET Reached(groups)
<1>1. \A i \in DOMAIN groups : groups[i] \in (SUBSET Route) \ {{}}
  BY DEF Groups
<1>2. Reached(groups) \in SUBSET Route
  BY <1>1 DEF Reached
<1>3. IsFiniteSet(Route)
  BY OnlineAssumption
<1>4. IsFiniteSet(Reached(groups))
  BY <1>2, <1>3, FS_Subset
<1>. QED
  BY <1>1, <1>2, <1>4, FS_CardinalityType DEF Reached

\* By group and then by id: a total order of what remains.
LEMMA RemainingIsInOrder ==
  ASSUME NEW groups \in Groups, NEW initial \in Reached(groups)
  PROVE  LET rest == Reached(groups) \ {initial}
             list == Remaining(groups, initial)
         IN  /\ Cardinality(rest) = Cardinality(Reached(groups)) - 1
             /\ list \in Seq(rest) /\ Len(list) = Cardinality(rest)
             /\ \A r \in rest : \E k \in 1..Len(list) : list[k] = r
             /\ \A i, j \in 1..Len(list) : i < j =>
                  /\ list[i] # list[j]
                  /\ FirstGroup(groups, list[i]) <= FirstGroup(groups, list[j])
<1>. DEFINE rest  == Reached(groups) \ {initial}
            fg(r) == FirstGroup(groups, r)
            R     == {p \in rest \X rest : \/ fg(p[1]) < fg(p[2])
                                           \/ fg(p[1]) = fg(p[2]) /\ p[1] < p[2]}
            list  == Remaining(groups, initial)
            f     == [k \in 1..Cardinality(rest) |->
                        CHOOSE r \in rest : Cardinality(Ahead(rest, R, r)) = k - 1]
<1>1. IsFiniteSet(rest) /\ Cardinality(rest) = Cardinality(Reached(groups)) - 1
  BY ReachedIsFinite, FS_RemoveElement
<1>2. Cardinality(rest) \in Nat
  BY <1>1, FS_CardinalityType
<1>3. \A r \in rest : fg(r) \in Nat /\ r \in Nat
  <2>. TAKE r \in rest
  <2>1. fg(r) \in 1..Len(groups)
    BY FirstGroupIsFirst
  <2>2. r \in Nat
    BY ReachedIsFinite, OnlineAssumption
  <2>. QED
    BY <2>1, <2>2 DEF Groups
<1>. HIDE DEF rest, fg
<1>4. \A x, y \in rest :
        <<x, y>> \in R <=> \/ fg(x) < fg(y)
                           \/ fg(x) = fg(y) /\ x < y
  OBVIOUS
<1>. HIDE DEF R
<1>5. StrictOrder(rest, R)
  <2>1. \A x \in rest : <<x, x>> \notin R
    BY <1>3, <1>4
  <2>2. \A x, y, z \in rest : <<x, y>> \in R /\ <<y, z>> \in R => <<x, z>> \in R
    BY <1>3, <1>4
  <2>3. \A x, y \in rest : x # y => <<x, y>> \in R \/ <<y, x>> \in R
    BY <1>3, <1>4
  <2>. QED
    BY <2>1, <2>2, <2>3 DEF StrictOrder
<1>6. \A r \in rest :
        Ahead(rest, R, r) = {s \in rest : \/ fg(s) < fg(r)
                                          \/ fg(s) = fg(r) /\ s < r}
  BY <1>4 DEF Ahead
<1>7. list = f
  <2>. DEFINE ahead(r) == {s \in rest : \/ fg(s) < fg(r)
                                        \/ fg(s) = fg(r) /\ s < r}
              at(k) == CHOOSE r \in rest : Cardinality(ahead(r)) = k - 1
              bt(k) == CHOOSE r \in rest : Cardinality(Ahead(rest, R, r)) = k - 1
  <2>1. list = [k \in 1..Cardinality(rest) |-> at(k)]
    BY DEF Remaining, rest, fg, Reached
  <2>2. \A r \in rest : ahead(r) = Ahead(rest, R, r)
    BY <1>6
  <2>. HIDE DEF ahead
  <2>3. ASSUME NEW k PROVE at(k) = bt(k)
    BY <2>2
  <2>4. f = [k \in 1..Cardinality(rest) |-> bt(k)]
    OBVIOUS
  <2>. HIDE DEF at, bt, f, list
  <2>. QED
    BY <2>1, <2>3, <2>4
<1>8. Lists(list, rest, R)
  BY <1>1, <1>5, <1>7, Listing
<1>. HIDE DEF list, f
<1>9. list \in Seq(rest) /\ Len(list) = Cardinality(rest)
  BY <1>2, <1>8 DEF Lists
<1>10. \A i, j \in 1..Len(list) : i < j => list[i] # list[j] /\ fg(list[i]) <= fg(list[j])
  <2>. SUFFICES ASSUME NEW i \in 1..Len(list), NEW j \in 1..Len(list), i < j
                PROVE  list[i] # list[j] /\ fg(list[i]) <= fg(list[j])
    OBVIOUS
  <2>1. list[i] \in rest /\ list[j] \in rest /\ <<list[i], list[j]>> \in R
    BY <1>8, <1>9 DEF Lists
  <2>. QED
    BY <1>3, <1>4, <2>1
<1>11. \A r \in rest : \E k \in 1..Len(list) : list[k] = r
  BY <1>8, <1>9 DEF Lists
<1>. QED
  BY <1>1, <1>9, <1>10, <1>11 DEF rest, fg, list

\* The order of the attempts, for groups as such: every route at most once, as many
\* as there are and the budget allows, and none before one of an earlier group.
Planned(attempts, groups, budget) ==
  /\ attempts \in Seq(Reached(groups))
  /\ Len(attempts) = Min({budget + 1, Cardinality(Reached(groups))})
  /\ \A i, j \in 1..Len(attempts) : i # j => attempts[i] # attempts[j]
  /\ \A i \in 1..Len(attempts), r \in Reached(groups) :
       FirstGroup(groups, r) < FirstGroup(groups, attempts[i]) =>
         \E j \in 1..(i - 1) : attempts[j] = r

LEMMA ChainIsPlanned ==
  ASSUME NEW groups \in Groups, groups # <<>>, NEW initial \in groups[1],
         config.max_fallbacks \in Nat
  PROVE  Planned(<<initial>> \o Chain(groups, initial), groups, config.max_fallbacks)
<1>. DEFINE U    == Reached(groups)
            fg(r) == FirstGroup(groups, r)
            list == Remaining(groups, initial)
            max  == config.max_fallbacks
            n    == Min({max, Len(list)})
            all  == <<initial>> \o Chain(groups, initial)
<1>1. 1 \in DOMAIN groups /\ DOMAIN groups = 1..Len(groups)
  BY DEF Groups
<1>2. initial \in U
  BY <1>1 DEF Reached
<1>3. fg(initial) = 1
  BY <1>1, <1>2, FirstGroupIsFirst
<1>4. /\ Cardinality(U \ {initial}) = Cardinality(U) - 1
      /\ list \in Seq(U \ {initial}) /\ Len(list) = Cardinality(U) - 1
      /\ \A r \in U \ {initial} : \E k \in 1..Len(list) : list[k] = r
      /\ \A i, j \in 1..Len(list) : i < j =>
           list[i] # list[j] /\ fg(list[i]) <= fg(list[j])
  BY <1>2, RemainingIsInOrder
<1>5. Cardinality(U) \in Nat /\ \A r \in U : fg(r) \in Nat /\ fg(r) >= 1
  <2>1. \A r \in U : fg(r) \in 1..Len(groups)
    BY FirstGroupIsFirst
  <2>. QED
    BY <2>1, ReachedIsFinite
<1>. HIDE DEF U, fg, list, max
<1>6. max \in Nat /\ Len(list) \in Nat
  BY <1>4 DEF max
<1>7. n = IF max <= Len(list) THEN max ELSE Len(list)
  BY <1>6, MinOfTwo
<1>8. Chain(groups, initial) = SubSeq(list, 1, n)
  BY DEF Chain, list, max
<1>. HIDE DEF n
<1>9. n \in Nat /\ n <= Len(list)
  BY <1>6, <1>7
<1>10. /\ all \in Seq(U) /\ Len(all) = n + 1 /\ all[1] = initial
       /\ \A i \in 2..(n + 1) : all[i] = list[i - 1]
  <2>. DEFINE sub == SubSeq(list, 1, n)
  <2>1. sub \in Seq(U) /\ Len(sub) = n /\ \A k \in 1..n : sub[k] = list[k]
    BY <1>4, <1>9
  <2>2. <<initial>> \in Seq(U) /\ Len(<<initial>>) = 1 /\ <<initial>>[1] = initial
    BY <1>2
  <2>. HIDE DEF sub
  <2>3. all = <<initial>> \o sub
    BY <1>8 DEF sub
  <2>. HIDE DEF all
  <2>. QED
    BY <2>1, <2>2, <2>3, <1>9
<1>. HIDE DEF all
<1>11. \A i, j \in 1..Len(all) : i # j => all[i] # all[j]
  <2>1. \A i, j \in 1..Len(all) : i < j => all[i] # all[j]
    <3>. SUFFICES ASSUME NEW i \in 1..Len(all), NEW j \in 1..Len(all), i < j
                  PROVE  all[i] # all[j]
      OBVIOUS
    <3>1. j - 1 \in 1..Len(list) /\ all[j] = list[j - 1] /\ all[j] # initial
      BY <1>4, <1>9, <1>10
    <3>2. CASE i = 1
      BY <1>10, <3>1, <3>2
    <3>3. CASE i # 1
      <4>1. i - 1 \in 1..Len(list) /\ all[i] = list[i - 1] /\ i - 1 < j - 1
        BY <1>9, <1>10, <3>3
      <4>. QED
        BY <1>4, <3>1, <4>1
    <3>. QED
      BY <3>2, <3>3
  <2>. QED
    BY <1>9, <1>10, <2>1
<1>12. ASSUME NEW i \in 1..Len(all), NEW r \in U, fg(r) < fg(all[i])
       PROVE  \E j \in 1..(i - 1) : all[j] = r
  <2>1. i # 1
    BY <1>3, <1>5, <1>10, <1>12
  <2>2. i - 1 \in 1..Len(list) /\ all[i] = list[i - 1] /\ 1 \in 1..(i - 1)
    BY <1>9, <1>10, <2>1
  <2>3. CASE r = initial
    BY <1>10, <2>2, <2>3
  <2>4. CASE r # initial
    <3>1. PICK k \in 1..Len(list) : list[k] = r
      BY <1>4, <2>4
    <3>2. list[i - 1] \in U /\ r \in U
      BY <1>4, <2>2
    <3>3. ~(i - 1 <= k)
      <4>1. CASE i - 1 = k
        BY <1>5, <1>12, <2>2, <3>1, <3>2, <4>1
      <4>2. CASE i - 1 < k
        <5>1. fg(list[i - 1]) <= fg(list[k])
          BY <1>4, <2>2, <4>2
        <5>. QED
          BY <1>5, <1>12, <2>2, <3>1, <3>2, <5>1
      <4>. QED
        BY <4>1, <4>2
    <3>4. k + 1 \in 1..(i - 1) /\ k + 1 \in 2..(n + 1) /\ (k + 1) - 1 = k
      BY <1>9, <1>10, <3>3
    <3>. QED
      BY <1>10, <3>1, <3>4
  <2>. QED
    BY <2>3, <2>4
<1>13. Len(all) = Min({max + 1, Cardinality(U)})
  <2>1. Cardinality(U) = Len(list) + 1
    BY <1>4, <1>5
  <2>2. Min({max + 1, Cardinality(U)}) =
          IF max + 1 <= Cardinality(U) THEN max + 1 ELSE Cardinality(U)
    BY <1>5, <1>6, MinOfTwo
  <2>. QED
    BY <1>6, <1>7, <1>10, <2>1, <2>2
<1>. QED
  BY <1>10, <1>11, <1>12, <1>13 DEF Planned, U, fg, max, all

----------------------------------------------------------------------------
(* What is preferred comes first *)

LEMMA PriorityIsTyped ==
  ASSUME config \in Config
  PROVE  /\ config.max_fallbacks \in Nat
         /\ config.priority \in Seq(Range(config.priority))
         /\ DOMAIN config.priority = 1..Len(config.priority)
         /\ Len(config.priority) \in Nat
         /\ \A i \in 1..Len(config.priority) : config.priority[i] # None
<1>1. config.max_fallbacks \in Nat /\ config.priority \in Seq(Range(config.priority))
      /\ None \notin Range(config.priority)
  BY OnlineAssumption
<1>2. \A i \in DOMAIN config.priority : config.priority[i] \in Range(config.priority)
  BY DEF Range
<1>3. DOMAIN config.priority = 1..Len(config.priority) /\ Len(config.priority) \in Nat
  BY <1>1
<1>. QED
  BY <1>1, <1>2, <1>3

\* Where the priority has the tiers that do not lead.
Trailing(tier) == {i \in 1..Len(config.priority) : config.priority[i] # tier}

\* The priority without the tier that leads.
LEMMA OthersInOrder ==
  ASSUME config \in Config, NEW tier
  PROVE  LET P == Trailing(tier) IN
         /\ Others(tier) \in Seq({config.priority[i] : i \in P}) /\ Len(Others(tier)) \in Nat
         /\ \A k \in 1..Len(Others(tier)) :
              Nth(P, k) \in P /\ Others(tier)[k] = config.priority[Nth(P, k)]
         /\ \A i \in P : \E k \in 1..Len(Others(tier)) : Nth(P, k) = i
         /\ \A i, j \in 1..Len(Others(tier)) : i < j => Nth(P, i) < Nth(P, j)
<1>. DEFINE P == Trailing(tier)
<1>1. P \in SUBSET (1..Len(config.priority))
  BY DEF Trailing
<1>2. Others(tier) = At(config.priority, P)
  BY PriorityIsTyped DEF Others, Trailing
<1>. HIDE DEF P
<1>0. Places(At(config.priority, P), config.priority, P)
  BY <1>1, PriorityIsTyped, AtPositions
<1>3. /\ At(config.priority, P) \in Seq({config.priority[i] : i \in P})
      /\ \A k \in 1..Len(At(config.priority, P)) :
           Nth(P, k) \in P /\ At(config.priority, P)[k] = config.priority[Nth(P, k)]
      /\ \A i \in P : \E k \in 1..Len(At(config.priority, P)) : Nth(P, k) = i
      /\ \A i, j \in 1..Len(At(config.priority, P)) : i < j => Nth(P, i) < Nth(P, j)
  BY <1>0 DEF Places
<1>4. Len(At(config.priority, P)) \in Nat
  BY <1>3
<1>. QED
  BY <1>2, <1>3, <1>4 DEF P

\* A sequence of tiers, none of them "no tier".
LEMMA OrderIsTyped ==
  ASSUME config \in Config, NEW tier
  PROVE  /\ TierOrder(tier) \in Seq(Range(config.priority) \cup {tier})
         /\ Len(TierOrder(tier)) \in Nat
         /\ DOMAIN TierOrder(tier) = 1..Len(TierOrder(tier))
         /\ \A i \in 1..Len(TierOrder(tier)) : TierOrder(tier)[i] # None
         /\ tier = None => TierOrder(tier) = config.priority
         /\ tier # None =>
              /\ Len(TierOrder(tier)) = Len(Others(tier)) + 1
              /\ TierOrder(tier)[1] = tier
              /\ \A k \in 1..Len(Others(tier)) : TierOrder(tier)[k + 1] = Others(tier)[k]
<1>. DEFINE T == Range(config.priority) \cup {tier}
<1>1. CASE tier = None
  <2>1. TierOrder(tier) = config.priority
    BY <1>1 DEF TierOrder
  <2>2. config.priority \in Seq(T)
    BY PriorityIsTyped
  <2>. QED
    BY <1>1, <2>1, <2>2, PriorityIsTyped
<1>2. CASE tier # None
  <2>. DEFINE P == Trailing(tier)
              others == Others(tier)
              order  == <<tier>> \o others
  <2>1. TierOrder(tier) = order
    BY <1>2 DEF TierOrder
  <2>2. others \in Seq({config.priority[i] : i \in P})
    BY OthersInOrder
  <2>3. {config.priority[i] : i \in P} \in SUBSET (Range(config.priority) \ {None})
    BY PriorityIsTyped DEF Range, Trailing
  <2>. HIDE DEF others, P
  <2>4. others \in Seq(T \ {None}) /\ <<tier>> \in Seq(T \ {None})
    BY <1>2, <2>2, <2>3
  <2>5. /\ order \in Seq(T \ {None}) /\ Len(order) = Len(others) + 1 /\ order[1] = tier
        /\ \A k \in 1..Len(others) : order[k + 1] = others[k]
    BY <2>4
  <2>. HIDE DEF order
  <2>6. DOMAIN order = 1..Len(order) /\ Len(order) \in Nat
        /\ \A i \in 1..Len(order) : order[i] # None
    BY <2>5
  <2>7. order \in Seq(T)
    BY <2>5
  <2>. QED
    BY <1>2, <2>1, <2>5, <2>6, <2>7 DEF others
<1>. QED
  BY <1>1, <1>2

\* A group for every tier and one of what has none, empty ones included.
TierGroups(category, tier) ==
  Append([i \in DOMAIN TierOrder(tier) |-> Candidates(category, TierOrder(tier)[i])],
         Unlabelled(category))

LEMMA TierGroupsAreTyped ==
  ASSUME config \in Config, NEW category, NEW tier
  PROVE  LET groups == TierGroups(category, tier)
             order  == TierOrder(tier)
         IN  /\ groups \in Seq(SUBSET Route)
             /\ Len(groups) = Len(order) + 1
             /\ \A i \in 1..Len(order) :
                  groups[i] = {r \in Candidates(category, None) : order[i] \in Tiers[r]}
             /\ groups[Len(order) + 1] = {r \in Candidates(category, None) : Tiers[r] = {}}
<1>. DEFINE order  == TierOrder(tier)
            front  == [i \in DOMAIN order |-> Candidates(category, order[i])]
            groups == Append(front, Unlabelled(category))
<1>1. /\ Len(order) \in Nat /\ DOMAIN order = 1..Len(order)
      /\ \A i \in 1..Len(order) : order[i] # None
  BY OrderIsTyped
<1>2. /\ \A t : Candidates(category, t) \in SUBSET Route
      /\ Unlabelled(category) \in SUBSET Route
      /\ Unlabelled(category) = {r \in Candidates(category, None) : Tiers[r] = {}}
  BY DEF Candidates, Unlabelled
<1>3. \A t : t # None =>
        Candidates(category, t) = {r \in Candidates(category, None) : t \in Tiers[r]}
  BY DEF Candidates
<1>. HIDE DEF order
<1>4. front \in Seq(SUBSET Route) /\ Len(front) = Len(order)
      /\ \A i \in 1..Len(order) : front[i] = Candidates(category, order[i])
  BY <1>1, <1>2
<1>. HIDE DEF front
<1>5. /\ groups \in Seq(SUBSET Route) /\ Len(groups) = Len(order) + 1
      /\ \A i \in 1..Len(order) : groups[i] = front[i]
      /\ groups[Len(order) + 1] = Unlabelled(category)
  BY <1>1, <1>2, <1>4
<1>. HIDE DEF groups
<1>6. \A i \in 1..Len(order) :
        groups[i] = {r \in Candidates(category, None) : order[i] \in Tiers[r]}
  BY <1>1, <1>3, <1>4, <1>5
<1>7. groups = TierGroups(category, tier)
  BY DEF groups, front, order, TierGroups
<1>. QED
  BY <1>2, <1>5, <1>6, <1>7 DEF order

\* What is covered is what is in a group.
LEMMA CoveringIsGrouped ==
  ASSUME config \in Config, NEW s
  PROVE  Covering(s) = UNION {TierGroups(s.category, s.tier)[i] :
                                i \in 1..Len(TierGroups(s.category, s.tier))}
<1>. DEFINE groups == TierGroups(s.category, s.tier)
            order  == TierOrder(s.tier)
            cover  == Candidates(s.category, None)
<1>1. /\ Len(groups) = Len(order) + 1 /\ Len(order) \in Nat
      /\ \A i \in 1..Len(order) : groups[i] = {r \in cover : order[i] \in Tiers[r]}
      /\ groups[Len(order) + 1] = {r \in cover : Tiers[r] = {}}
  BY TierGroupsAreTyped, OrderIsTyped
<1>2. DOMAIN config.priority = 1..Len(config.priority)
  BY PriorityIsTyped
<1>3. ASSUME NEW r \in Route
      PROVE  (\E i \in 1..Len(order) : order[i] \in Tiers[r])
               <=> \/ s.tier \in Tiers[r]
                   \/ \E i \in DOMAIN config.priority : config.priority[i] \in Tiers[r]
  <2>. DEFINE P == Trailing(s.tier)
  <2>1. CASE s.tier = None
    <3>1. s.tier \notin Tiers[r]
      BY <2>1, OnlineAssumption DEF Tier
    <3>2. order = config.priority
      BY <2>1, OrderIsTyped
    <3>. QED
      BY <1>2, <3>1, <3>2
  <2>2. CASE s.tier # None
    <3>1. /\ Len(order) = Len(Others(s.tier)) + 1 /\ order[1] = s.tier
          /\ \A k \in 1..Len(Others(s.tier)) : order[k + 1] = Others(s.tier)[k]
      BY <2>2, OrderIsTyped
    <3>2. /\ \A k \in 1..Len(Others(s.tier)) :
               Nth(P, k) \in P /\ Others(s.tier)[k] = config.priority[Nth(P, k)]
          /\ \A i \in P : \E k \in 1..Len(Others(s.tier)) : Nth(P, k) = i
          /\ Len(Others(s.tier)) \in Nat
      BY OthersInOrder
    <3>3. ASSUME NEW i \in 1..Len(order), order[i] \in Tiers[r], i # 1
          PROVE  \E k \in DOMAIN config.priority : config.priority[k] \in Tiers[r]
      <4>1. i - 1 \in 1..Len(Others(s.tier)) /\ (i - 1) + 1 = i
        BY <3>1, <3>2, <3>3
      <4>2. order[i] = config.priority[Nth(P, i - 1)] /\ Nth(P, i - 1) \in P
        BY <3>1, <3>2, <4>1
      <4>. QED
        BY <1>2, <3>3, <4>2 DEF Trailing
    <3>4. ASSUME NEW i \in DOMAIN config.priority, config.priority[i] \in Tiers[r],
                 s.tier \notin Tiers[r]
          PROVE  \E k \in 1..Len(order) : order[k] \in Tiers[r]
      <4>1. i \in P
        BY <1>2, <3>4 DEF Trailing
      <4>2. PICK k \in 1..Len(Others(s.tier)) : Nth(P, k) = i
        BY <3>2, <4>1
      <4>3. k + 1 \in 1..Len(order) /\ order[k + 1] = config.priority[i]
        BY <3>1, <3>2, <4>2
      <4>. QED
        BY <3>4, <4>3
    <3>5. 1 \in 1..Len(order)
      BY <1>1, <3>1, <3>2
    <3>. QED
      BY <3>1, <3>3, <3>4, <3>5
  <2>. QED
    BY <2>1, <2>2
<1>4. cover \in SUBSET Route
  BY DEF Candidates
<1>5. Covering(s) = {r \in cover : Tiers[r] = {} \/ \E i \in 1..Len(order) : order[i] \in Tiers[r]}
  <2>. HIDE DEF order
  <2>. QED
    BY <1>3, <1>4 DEF Covering
<1>6. 1..Len(groups) = (1..Len(order)) \cup {Len(order) + 1}
  BY <1>1
<1>. HIDE DEF groups, order, cover
<1>7. ASSUME NEW r PROVE r \in Covering(s) <=> \E i \in 1..Len(groups) : r \in groups[i]
  BY <1>1, <1>5, <1>6
<1>8. Covering(s) = UNION {groups[i] : i \in 1..Len(groups)}
  BY <1>7
<1>. QED
  BY <1>8 DEF groups

\* Distances are numbers, and one of a labelled route is that of its first tier.
LEMMA DistanceIsFirstTier ==
  ASSUME config \in Config, NEW s, NEW r \in Covering(s)
  PROVE  LET labels == {i \in 1..Len(config.priority) : config.priority[i] \in Tiers[r]} IN
         /\ Distance(s, r) \in 0..(Len(config.priority) + 1)
         /\ s.tier \in Tiers[r] <=> Distance(s, r) = 0
         /\ Tiers[r] = {} <=> Distance(s, r) = Len(config.priority) + 1
         /\ s.tier \notin Tiers[r] /\ Tiers[r] # {} =>
              Distance(s, r) \in labels /\ \A i \in labels : Distance(s, r) <= i
<1>. DEFINE labels == {i \in 1..Len(config.priority) : config.priority[i] \in Tiers[r]}
<1>1. DOMAIN config.priority = 1..Len(config.priority) /\ Len(config.priority) \in Nat
  BY PriorityIsTyped
<1>2. CASE s.tier \in Tiers[r]
  BY <1>1, <1>2 DEF Distance
<1>3. CASE s.tier \notin Tiers[r] /\ Tiers[r] = {}
  BY <1>1, <1>3 DEF Distance
<1>4. CASE s.tier \notin Tiers[r] /\ Tiers[r] # {}
  <2>1. labels # {} /\ labels \in SUBSET Nat
    BY <1>1, <1>4 DEF Covering
  <2>2. Distance(s, r) = Min(labels)
    BY <1>1, <1>4 DEF Distance
  <2>3. Min(labels) \in labels /\ \A i \in labels : Min(labels) <= i
    BY <2>1, MinIsLeast
  <2>. HIDE DEF labels
  <2>4. Distance(s, r) \in labels /\ \A i \in labels : Distance(s, r) <= i
    BY <2>2, <2>3
  <2>5. Distance(s, r) \in 1..Len(config.priority)
    BY <2>4 DEF labels
  <2>. QED
    BY <1>1, <1>4, <2>4, <2>5 DEF labels
<1>. QED
  BY <1>2, <1>3, <1>4

\* What is nearer to the preference of a request is in an earlier group.
LEMMA NearerIsEarlier ==
  ASSUME config \in Config, NEW s, NEW r \in Covering(s), NEW t \in Covering(s),
         Distance(s, r) < Distance(s, t),
         NEW p \in 1..Len(TierGroups(s.category, s.tier)),
         t \in TierGroups(s.category, s.tier)[p]
  PROVE  \E i \in 1..(p - 1) : r \in TierGroups(s.category, s.tier)[i]
<1>. DEFINE groups == TierGroups(s.category, s.tier)
            order  == TierOrder(s.tier)
            cover  == Candidates(s.category, None)
            len    == Len(config.priority)
            labels(u) == {i \in 1..len : config.priority[i] \in Tiers[u]}
            P == Trailing(s.tier)
<1>1. /\ Len(groups) = Len(order) + 1 /\ Len(order) \in Nat
      /\ \A i \in 1..Len(order) : groups[i] = {u \in cover : order[i] \in Tiers[u]}
      /\ groups[Len(order) + 1] = {u \in cover : Tiers[u] = {}}
  BY TierGroupsAreTyped, OrderIsTyped
<1>2. len \in Nat
  BY PriorityIsTyped
<1>3. /\ Distance(s, r) \in 0..(len + 1)
      /\ s.tier \in Tiers[r] <=> Distance(s, r) = 0
      /\ Tiers[r] = {} <=> Distance(s, r) = len + 1
      /\ s.tier \notin Tiers[r] /\ Tiers[r] # {} => Distance(s, r) \in labels(r)
  BY DistanceIsFirstTier
<1>4. /\ Distance(s, t) \in 0..(len + 1)
      /\ s.tier \in Tiers[t] <=> Distance(s, t) = 0
      /\ Tiers[t] = {} <=> Distance(s, t) = len + 1
      /\ s.tier \notin Tiers[t] /\ Tiers[t] # {} => \A i \in labels(t) : Distance(s, t) <= i
  BY DistanceIsFirstTier
<1>5. r \in cover /\ Tiers[r] # {} /\ s.tier \notin Tiers[t]
  BY <1>2, <1>3, <1>4 DEF Covering
<1>6. CASE p = Len(order) + 1
  <2>1. PICK i \in 1..Len(groups) : r \in groups[i]
    BY CoveringIsGrouped
  <2>2. i # Len(order) + 1
    BY <1>1, <1>5, <2>1
  <2>. QED
    BY <1>1, <1>6, <2>1, <2>2
<1>7. CASE p # Len(order) + 1
  <2>1. p \in 1..Len(order) /\ order[p] \in Tiers[t] /\ Tiers[t] # {}
    BY <1>1, <1>7
  <2>2. CASE s.tier = None
    <3>1. order = config.priority /\ s.tier \notin Tiers[r]
      <4>1. order = config.priority
        BY <2>2, OrderIsTyped
      <4>2. cover \in SUBSET Route
        BY DEF Candidates
      <4>3. s.tier \notin Tiers[r]
        BY <1>5, <2>2, <4>2, OnlineAssumption DEF Tier
      <4>. QED
        BY <4>1, <4>3
    <3>2. Distance(s, r) \in labels(r) /\ p \in labels(t)
      BY <1>3, <1>5, <2>1, <3>1
    <3>3. Distance(s, r) \in 1..(p - 1) /\ Distance(s, r) \in 1..Len(order)
      BY <1>2, <1>3, <1>4, <1>5, <2>1, <3>1, <3>2
    <3>4. r \in groups[Distance(s, r)]
      BY <1>1, <1>5, <3>1, <3>2, <3>3
    <3>. QED
      BY <3>3, <3>4
  <2>3. CASE s.tier # None
    <3>. DEFINE others == Others(s.tier)
    <3>1. /\ Len(order) = Len(others) + 1 /\ order[1] = s.tier
          /\ \A k \in 1..Len(others) : order[k + 1] = others[k]
      BY <2>3, OrderIsTyped
    <3>2. /\ \A k \in 1..Len(others) :
               Nth(P, k) \in P /\ others[k] = config.priority[Nth(P, k)]
          /\ \A i \in P : \E k \in 1..Len(others) : Nth(P, k) = i
          /\ \A i, j \in 1..Len(others) : i < j => Nth(P, i) < Nth(P, j)
          /\ Len(others) \in Nat
      BY OthersInOrder
    <3>. HIDE DEF others
    <3>3. p # 1
      BY <1>5, <2>1, <3>1
    <3>4. CASE s.tier \in Tiers[r]
      <4>1. 1 \in 1..(p - 1) /\ 1 \in 1..Len(order)
        BY <1>1, <2>1, <3>3
      <4>2. r \in groups[1]
        BY <1>1, <1>5, <3>1, <3>4, <4>1
      <4>. QED
        BY <4>1, <4>2
    <3>5. CASE s.tier \notin Tiers[r]
      <4>1. p - 1 \in 1..Len(others) /\ (p - 1) + 1 = p
        BY <1>1, <2>1, <3>1, <3>2, <3>3
      <4>2. order[p] = config.priority[Nth(P, p - 1)] /\ Nth(P, p - 1) \in P
        BY <3>1, <3>2, <4>1
      <4>3. Nth(P, p - 1) \in labels(t)
        BY <2>1, <4>2 DEF Trailing
      <4>4. Distance(s, t) <= Nth(P, p - 1) /\ Nth(P, p - 1) \in 1..len
        BY <1>4, <1>5, <2>1, <4>3
      <4>5. Distance(s, r) \in labels(r) /\ Distance(s, r) \in P
        BY <1>3, <1>5, <3>5 DEF Trailing
      <4>6. PICK k \in 1..Len(others) : Nth(P, k) = Distance(s, r)
        BY <3>2, <4>5
      <4>7. Nth(P, k) < Nth(P, p - 1)
        BY <1>2, <1>3, <1>4, <4>4, <4>6
      <4>8. ~(p - 1 <= k)
        <5>1. CASE p - 1 = k
          BY <4>4, <4>7, <5>1
        <5>2. CASE p - 1 < k
          <6>1. Nth(P, p - 1) < Nth(P, k)
            BY <3>2, <4>1, <5>2
          <6>2. Nth(P, k) \in Int /\ Nth(P, p - 1) \in Int
            BY <1>3, <4>4, <4>6
          <6>. QED
            BY <4>7, <6>1, <6>2
        <5>. QED
          BY <4>1, <5>1, <5>2
      <4>9. k + 1 \in 1..(p - 1) /\ k + 1 \in 1..Len(order)
        BY <2>1, <3>1, <3>2, <4>8
      <4>10. order[k + 1] = config.priority[Distance(s, r)]
        BY <3>1, <3>2, <4>6
      <4>11. r \in groups[k + 1]
        BY <1>1, <1>5, <4>5, <4>9, <4>10
      <4>. QED
        BY <4>9, <4>11
    <3>. QED
      BY <3>4, <3>5
  <2>. QED
    BY <2>2, <2>3
<1>. QED
  BY <1>6, <1>7

\* Groups that are empty are left out; the others keep their order.
LEMMA NonEmptyKeepsOrder ==
  ASSUME NEW groups \in Seq(SUBSET Route)
  PROVE  /\ NonEmpty(groups) \in Groups
         /\ Reached(NonEmpty(groups)) = UNION {groups[i] : i \in 1..Len(groups)}
         /\ \A r, t \in Reached(NonEmpty(groups)) :
              (\A p \in 1..Len(groups) :
                 t \in groups[p] => \E i \in 1..(p - 1) : r \in groups[i])
              => FirstGroup(NonEmpty(groups), r) < FirstGroup(NonEmpty(groups), t)
<1>. DEFINE P == {i \in 1..Len(groups) : groups[i] # {}}
            G == NonEmpty(groups)
<1>1. DOMAIN groups = 1..Len(groups) /\ Len(groups) \in Nat
      /\ \A i \in 1..Len(groups) : groups[i] \in SUBSET Route
  OBVIOUS
<1>2. G = At(groups, P)
  BY <1>1 DEF NonEmpty
<1>3. P \in SUBSET (1..Len(groups)) /\ \A i \in P : groups[i] \in (SUBSET Route) \ {{}}
  BY <1>1
<1>4. \A i \in 1..Len(groups) : groups[i] # {} => i \in P
  OBVIOUS
<1>. HIDE DEF P, G
<1>0. Places(G, groups, P)
  BY <1>2, <1>3, AtPositions
<1>5. /\ DOMAIN G = 1..Len(G) /\ Len(G) = Cardinality(P) /\ Cardinality(P) \in Nat
      /\ G \in Seq({groups[i] : i \in P})
      /\ \A k \in 1..Len(G) : Nth(P, k) \in P /\ G[k] = groups[Nth(P, k)]
      /\ \A p \in P : \E k \in 1..Len(G) : Nth(P, k) = p
      /\ \A i, j \in 1..Len(G) : i < j => Nth(P, i) < Nth(P, j)
  BY <1>0 DEF Places
<1>6. G \in Groups
  <2>1. \A k \in 1..Len(G) : G[k] \in (SUBSET Route) \ {{}}
    BY <1>3, <1>5
  <2>2. G \in [1..Len(G) -> (SUBSET Route) \ {{}}] /\ Len(G) \in Nat
    BY <1>5, <2>1
  <2>. QED
    BY <2>2 DEF Groups
<1>7. Reached(G) = UNION {groups[i] : i \in 1..Len(groups)}
  <2>1. ASSUME NEW r, NEW k \in 1..Len(G), r \in G[k]
        PROVE  \E i \in 1..Len(groups) : r \in groups[i]
    BY <1>3, <1>5, <2>1
  <2>2. ASSUME NEW r, NEW i \in 1..Len(groups), r \in groups[i]
        PROVE  \E k \in 1..Len(G) : r \in G[k]
    <3>1. i \in P
      BY <1>4, <2>2
    <3>2. PICK k \in 1..Len(G) : Nth(P, k) = i
      BY <1>5, <3>1
    <3>. QED
      BY <1>5, <2>2, <3>2
  <2>3. \A r : (\E k \in 1..Len(G) : r \in G[k]) <=> (\E i \in 1..Len(groups) : r \in groups[i])
    BY <2>1, <2>2
  <2>4. ASSUME NEW r PROVE r \in Reached(G) <=> \E k \in 1..Len(G) : r \in G[k]
    BY <1>5 DEF Reached
  <2>5. \A r : r \in Reached(G) <=> r \in UNION {groups[i] : i \in 1..Len(groups)}
    BY <2>3, <2>4
  <2>. HIDE DEF G
  <2>. QED
    BY <2>5
<1>8. ASSUME NEW r \in Reached(G), NEW t \in Reached(G),
             \A p \in 1..Len(groups) :
               t \in groups[p] => \E i \in 1..(p - 1) : r \in groups[i]
      PROVE  FirstGroup(G, r) < FirstGroup(G, t)
  <2>. DEFINE last == FirstGroup(G, t)
  <2>1. last \in 1..Len(G) /\ t \in G[last]
    BY <1>6, FirstGroupIsFirst
  <2>. HIDE DEF last
  <2>2. Nth(P, last) \in P /\ t \in groups[Nth(P, last)]
    BY <1>5, <2>1
  <2>3. PICK i \in 1..(Nth(P, last) - 1) : r \in groups[i]
    BY <1>3, <1>8, <2>2
  <2>4. i \in 1..Len(groups) /\ i < Nth(P, last) /\ Nth(P, last) \in Nat
    <3>1. Nth(P, last) \in 1..Len(groups)
      BY <1>3, <2>2
    <3>. QED
      BY <1>1, <3>1
  <2>5. i \in P
    BY <1>4, <2>3, <2>4
  <2>6. PICK k \in 1..Len(G) : Nth(P, k) = i
    BY <1>5, <2>5
  <2>7. k < last
    <3>1. CASE k = last
      BY <2>4, <2>6, <3>1
    <3>2. CASE last < k
      <4>1. Nth(P, last) < Nth(P, k)
        BY <1>5, <2>1, <3>2
      <4>. QED
        BY <2>4, <2>6, <4>1
    <3>. QED
      BY <2>1, <3>1, <3>2
  <2>8. r \in G[k]
    BY <1>5, <2>3, <2>6
  <2>9. FirstGroup(G, r) <= k /\ FirstGroup(G, r) \in 1..Len(G)
    BY <1>6, <2>8, FirstGroupIsFirst
  <2>. QED
    BY <2>1, <2>7, <2>9 DEF last
<1>. QED
  BY <1>6, <1>7, <1>8 DEF G

LEMMA CandidateGroupsAreTyped ==
  ASSUME config \in Config, NEW category, NEW tier
  PROVE  /\ CandidateGroups(category, tier) \in Groups
         /\ NonEmpty(TierGroups(category, tier)) # <<>> =>
              CandidateGroups(category, tier) = NonEmpty(TierGroups(category, tier))
<1>. DEFINE rest == <<Candidates(None, category), Candidates(None, None)>>
<1>1. rest \in Seq(SUBSET Route)
  <2>1. \A c, t : Candidates(c, t) \in SUBSET Route
    BY DEF Candidates
  <2>. QED
    BY <2>1
<1>2. NonEmpty(rest) \in Groups
  BY <1>1, NonEmptyKeepsOrder
<1>3. NonEmpty(TierGroups(category, tier)) \in Groups
  BY TierGroupsAreTyped, NonEmptyKeepsOrder
<1>. QED
  BY <1>2, <1>3 DEF CandidateGroups, TierGroups

\* The plan of a request, in terms of what the docs promise of it.
PlanFits(s) ==
  /\ s.attempts \in Seq(Route) /\ Len(s.attempts) \in 1..(config.max_fallbacks + 1)
  /\ \A i, j \in 1..Len(s.attempts) : i # j => s.attempts[i] # s.attempts[j]
  /\ Covering(s) # {} =>
       /\ s.attempts \in Seq(Covering(s))
       /\ Len(s.attempts) = Min({config.max_fallbacks + 1, Cardinality(Covering(s))})
       /\ \A i \in 1..Len(s.attempts), r \in Covering(s) :
            Distance(s, r) < Distance(s, s.attempts[i]) =>
              \E j \in 1..(i - 1) : s.attempts[j] = r

LEMMA PlansFit ==
  ASSUME config \in Config, NEW s, NEW groups,
         groups = CandidateGroups(s.category, s.tier), groups # <<>>,
         NEW initial \in groups[1], s.attempts = <<initial>> \o Chain(groups, initial)
  PROVE  PlanFits(s)
<1>. DEFINE max == config.max_fallbacks
            tiers == TierGroups(s.category, s.tier)
<1>1. groups \in Groups
  BY CandidateGroupsAreTyped
<1>2. max \in Nat
  BY PriorityIsTyped
<1>3. Planned(s.attempts, groups, max)
  BY <1>1, <1>2, ChainIsPlanned
<1>4. Reached(groups) \in SUBSET Route /\ Cardinality(Reached(groups)) \in Nat
  BY <1>1, ReachedIsFinite
<1>5. Cardinality(Reached(groups)) # 0
  <2>1. 1 \in DOMAIN groups
    BY <1>1 DEF Groups
  <2>2. Reached(groups) # {} /\ IsFiniteSet(Reached(groups))
    BY <1>1, <2>1, ReachedIsFinite
  <2>. QED
    BY <2>2, FS_EmptySet
<1>. HIDE DEF max
<1>6. Len(s.attempts) \in 1..(max + 1)
  <2>1. Len(s.attempts) = Min({max + 1, Cardinality(Reached(groups))})
    BY <1>3 DEF Planned
  <2>. DEFINE n == Cardinality(Reached(groups))
  <2>. HIDE DEF n
  <2>2. n \in Nat /\ n # 0 /\ max + 1 \in Nat
    BY <1>2, <1>4, <1>5 DEF n
  <2>3. Len(s.attempts) = IF max + 1 <= n THEN max + 1 ELSE n
    BY <2>1, <2>2, MinOfTwo DEF n
  <2>. QED
    BY <1>2, <2>2, <2>3
<1>7. s.attempts \in Seq(Route)
      /\ \A i, j \in 1..Len(s.attempts) : i # j => s.attempts[i] # s.attempts[j]
  BY <1>3, <1>4 DEF Planned
<1>8. ASSUME Covering(s) # {}
      PROVE  /\ s.attempts \in Seq(Covering(s))
             /\ Len(s.attempts) = Min({max + 1, Cardinality(Covering(s))})
             /\ \A i \in 1..Len(s.attempts), r \in Covering(s) :
                  Distance(s, r) < Distance(s, s.attempts[i]) =>
                    \E j \in 1..(i - 1) : s.attempts[j] = r
  <2>1. tiers \in Seq(SUBSET Route)
    BY TierGroupsAreTyped
  <2>2. Covering(s) = Reached(NonEmpty(tiers))
    BY <2>1, CoveringIsGrouped, NonEmptyKeepsOrder
  <2>3. NonEmpty(tiers) # <<>>
    BY <1>8, <2>2 DEF Reached
  <2>4. groups = NonEmpty(tiers)
    BY <2>3, CandidateGroupsAreTyped
  <2>5. Covering(s) = Reached(groups)
    BY <2>2, <2>4
  <2>6. \A r, t \in Covering(s) :
          Distance(s, r) < Distance(s, t) => FirstGroup(groups, r) < FirstGroup(groups, t)
    <3>. SUFFICES ASSUME NEW r \in Covering(s), NEW t \in Covering(s),
                         Distance(s, r) < Distance(s, t)
                  PROVE  FirstGroup(groups, r) < FirstGroup(groups, t)
      OBVIOUS
    <3>1. \A p \in 1..Len(tiers) : t \in tiers[p] => \E i \in 1..(p - 1) : r \in tiers[i]
      BY NearerIsEarlier
    <3>. HIDE DEF tiers
    <3>. QED
      BY <2>1, <2>2, <2>4, <3>1, NonEmptyKeepsOrder
  <2>7. s.attempts \in Seq(Covering(s))
        /\ Len(s.attempts) = Min({max + 1, Cardinality(Covering(s))})
    BY <1>3, <2>5 DEF Planned
  <2>8. ASSUME NEW i \in 1..Len(s.attempts), NEW r \in Covering(s),
               Distance(s, r) < Distance(s, s.attempts[i])
        PROVE  \E j \in 1..(i - 1) : s.attempts[j] = r
    <3>1. s.attempts[i] \in Covering(s)
      BY <2>7
    <3>2. FirstGroup(groups, r) < FirstGroup(groups, s.attempts[i])
      BY <2>6, <2>8, <3>1
    <3>. QED
      BY <1>3, <2>5, <3>2 DEF Planned
  <2>. QED
    BY <2>7, <2>8
<1>. QED
  BY <1>6, <1>7, <1>8 DEF PlanFits, max

----------------------------------------------------------------------------
(* Walks and bills *)

Status == {"success", "error", "missing"}

\* What the tools of a trace made that succeeded.
Made(trace) == MadeBy(UNION {Successes(trace[k]) : k \in DOMAIN trace})

\* Every call of a trace got what it needs from the trace itself.
Isolated(trace) ==
  \A k \in DOMAIN trace : \A t \in Called(trace[k]) :
    Needs[t] \subseteq
      MadeBy((UNION {Successes(trace[j]) : j \in 1..(k - 1)}) \cup (Successes(trace[k]) \ {t}))

\* A trace of the first segments of a route.
Walk(trace, r) ==
  /\ trace \in Trace
  /\ Len(trace) <= Len(Segments[r])
  /\ \A k \in 1..Len(trace) : trace[k] \in [Segments[r][k] -> Status]
  /\ Isolated(trace)

LEMMA SegmentsAreTyped ==
  ASSUME NEW r \in Route
  PROVE  /\ Len(Segments[r]) \in Nat \ {0}
         /\ \A k \in 1..Len(Segments[r]) : Segments[r][k] \in SUBSET Tool /\ Segments[r][k] # {}
<1>1. Segments[r] \in Seq(SUBSET Tool) /\ Segments[r] # <<>>
      /\ \A k \in DOMAIN Segments[r] : Segments[r][k] # {}
  BY OnlineAssumption
<1>. QED
  BY <1>1

\* Results of tools are what a trace consists of.
LEMMA ResultsAreTyped ==
  ASSUME NEW T \in SUBSET Tool, NEW result \in [T -> Status]
  PROVE  result \in UNION {[S -> {"success", "error", "missing"}] : S \in SUBSET Tool}
BY DEF Status

LEMMA TraceIsTyped ==
  ASSUME NEW trace \in Trace, NEW k \in 1..Len(trace)
  PROVE  DOMAIN trace[k] \in SUBSET Tool /\ trace[k] \in [DOMAIN trace[k] -> Status]
<1>1. trace[k] \in UNION {[S -> {"success", "error", "missing"}] : S \in SUBSET Tool}
  BY DEF Trace
<1>. QED
  BY <1>1 DEF Status

LEMMA MadeOfAppended ==
  ASSUME NEW trace \in Trace, NEW T \in SUBSET Tool, NEW result \in [T -> Status]
  PROVE  /\ Made(Append(trace, result)) = Made(trace) \cup MadeBy(Successes(result))
         /\ MadeBy(Successes(result)) \in SUBSET MadeBy(Tool)
<1>. DEFINE new == Append(trace, result)
            n   == Len(trace)
<1>1. /\ n \in Nat /\ DOMAIN trace = 1..n /\ DOMAIN new = (1..n) \cup {n + 1}
      /\ \A k \in 1..n : new[k] = trace[k]
      /\ new[n + 1] = result
  BY DEF Trace
<1>2. Successes(result) \in SUBSET Tool
  BY DEF Successes
<1>. HIDE DEF new, n
<1>3. ASSUME NEW x
      PROVE  x \in Made(new) <=> x \in Made(trace) \cup MadeBy(Successes(result))
  <2>1. x \in Made(new) <=> \E k \in DOMAIN new : \E t \in Successes(new[k]) : x \in Makes[t]
    BY DEF Made, MadeBy
  <2>2. x \in Made(trace) <=> \E k \in 1..n : \E t \in Successes(trace[k]) : x \in Makes[t]
    BY <1>1 DEF Made, MadeBy
  <2>3. x \in MadeBy(Successes(result)) <=> \E t \in Successes(result) : x \in Makes[t]
    BY DEF MadeBy
  <2>. QED
    BY <1>1, <2>1, <2>2, <2>3
<1>4. MadeBy(Successes(result)) \in SUBSET MadeBy(Tool)
  BY <1>2 DEF MadeBy
<1>. QED
  BY <1>3, <1>4 DEF new

\* A segment that is run on what the attempt has made continues its walk.
LEMMA WalkGrows ==
  ASSUME NEW r \in Route, NEW trace, Walk(trace, r), Len(trace) < Len(Segments[r]),
         NEW result \in [Segments[r][Len(trace) + 1] -> Status],
         Possible(Made(trace), result)
  PROVE  Walk(Append(trace, result), r)
<1>. DEFINE new == Append(trace, result)
            n   == Len(trace)
            T   == Segments[r][n + 1]
<1>0. trace \in Trace
  BY DEF Walk
<1>1. /\ n \in Nat /\ DOMAIN trace = 1..n
      /\ n + 1 \in 1..Len(Segments[r]) /\ T \in SUBSET Tool /\ DOMAIN result = T
  BY <1>0, SegmentsAreTyped DEF Trace
<1>2. new \in Trace
  <2>. DEFINE all == UNION {[S -> {"success", "error", "missing"}] : S \in SUBSET Tool}
  <2>1. result \in all
    BY <1>1, ResultsAreTyped
  <2>2. trace \in Seq(all)
    BY <1>0 DEF Trace
  <2>. HIDE DEF all
  <2>3. new \in Seq(all)
    BY <2>1, <2>2
  <2>. QED
    BY <2>3 DEF Trace, all
<1>3. /\ Len(new) = n + 1 /\ DOMAIN new = (1..n) \cup {n + 1}
      /\ \A k \in 1..n : new[k] = trace[k]
      /\ new[n + 1] = result
  BY <1>0, <1>1 DEF Trace
<1>4. \A k \in 1..Len(new) : new[k] \in [Segments[r][k] -> Status]
  <2>1. \A k \in 1..n : trace[k] \in [Segments[r][k] -> Status]
    BY DEF Walk
  <2>2. 1..Len(new) = (1..n) \cup {n + 1}
    BY <1>1, <1>3
  <2>. QED
    BY <1>3, <2>1, <2>2
<1>. HIDE DEF new, T
<1>5. ASSUME NEW k \in 1..n, NEW t \in Called(new[k])
      PROVE  Needs[t] \subseteq MadeBy((UNION {Successes(new[j]) : j \in 1..(k - 1)})
                                         \cup (Successes(new[k]) \ {t}))
  <2>1. \A j \in 1..(k - 1) : new[j] = trace[j]
    BY <1>1, <1>3
  <2>2. {Successes(new[j]) : j \in 1..(k - 1)} = {Successes(trace[j]) : j \in 1..(k - 1)}
    BY <2>1
  <2>3. new[k] = trace[k]
    BY <1>3
  <2>4. Needs[t] \subseteq MadeBy((UNION {Successes(trace[j]) : j \in 1..(k - 1)})
                                    \cup (Successes(trace[k]) \ {t}))
    BY <1>1, <1>5, <2>3 DEF Walk, Isolated
  <2>. QED
    BY <2>2, <2>3, <2>4
<1>6. ASSUME NEW t \in Called(result)
      PROVE  Needs[t] \subseteq MadeBy((UNION {Successes(new[j]) : j \in 1..n})
                                         \cup (Successes(result) \ {t}))
  <2>1. t \in T /\ result[t] # "missing"
    BY <1>1, <1>6 DEF Called
  <2>2. PICK rank \in [T -> 1..Cardinality(T)] :
          \A u \in T :
            IF result[u] = "missing"
            THEN ~(Needs[u] \subseteq Made(trace))
            ELSE Needs[u] \subseteq
                   Made(trace) \cup MadeBy({v \in Successes(result) : rank[v] < rank[u]})
    BY <1>1 DEF Possible
  <2>. DEFINE before == {v \in Successes(result) : rank[v] < rank[t]}
              front == UNION {Successes(new[j]) : j \in 1..n}
  <2>3. Needs[t] \subseteq Made(trace) \cup MadeBy(before)
    BY <2>1, <2>2
  <2>4. rank[t] \in Int
    BY <2>1, <2>2
  <2>5. before \subseteq Successes(result) \ {t}
    BY <2>4
  <2>6. Made(trace) = MadeBy(front)
    <3>1. {Successes(new[j]) : j \in 1..n} = {Successes(trace[j]) : j \in 1..n}
      BY <1>3
    <3>. QED
      BY <1>1, <3>1 DEF Made
  <2>. HIDE DEF before, front
  <2>7. MadeBy(front) \cup MadeBy(before) \subseteq MadeBy(front \cup (Successes(result) \ {t}))
    BY <2>5 DEF MadeBy
  <2>. QED
    BY <2>3, <2>6, <2>7 DEF front
<1>7. Isolated(new)
  <2>. SUFFICES ASSUME NEW k \in DOMAIN new, NEW t \in Called(new[k])
                PROVE  Needs[t] \subseteq
                         MadeBy((UNION {Successes(new[j]) : j \in 1..(k - 1)})
                                  \cup (Successes(new[k]) \ {t}))
    BY DEF Isolated
  <2>1. CASE k \in 1..n
    BY <1>5, <2>1
  <2>2. CASE k = n + 1
    <3>1. k - 1 = n /\ new[k] = result
      BY <1>1, <1>3, <2>2
    <3>. QED
      BY <1>6, <3>1
  <2>. QED
    BY <1>3, <2>1, <2>2
<1>8. Len(new) <= Len(Segments[r])
  BY <1>1, <1>3
<1>9. Walk(new, r)
  BY <1>2, <1>4, <1>7, <1>8 DEF Walk
<1>. QED
  BY <1>9 DEF new

Depth == Max({Len(Segments[r]) : r \in Route})

LEMMA DepthBoundsRoutes ==
  Depth \in Nat /\ \A r \in Route : Len(Segments[r]) <= Depth
<1>. DEFINE T == {Len(Segments[r]) : r \in Route}
            f == [r \in Route |-> Len(Segments[r])]
<1>1. T \in SUBSET Nat /\ T # {}
  <2>1. \A r \in Route : Len(Segments[r]) \in Nat
    BY SegmentsAreTyped
  <2>. QED
    BY <2>1, OnlineAssumption
<1>2. f \in Surjection(Route, T)
  BY DEF Surjection
<1>3. IsFiniteSet(T)
  BY <1>2, OnlineAssumption, FS_Surjection
<1>. HIDE DEF T, f
<1>4. /\ Cardinality(T) \in Nat
      /\ \A k \in 1..Cardinality(T) : Nth(T, k) \in T
      /\ \A x \in T : \E k \in 1..Cardinality(T) : Nth(T, k) = x
      /\ \A i, j \in 1..Cardinality(T) : i < j => Nth(T, i) < Nth(T, j)
  BY <1>1, <1>3, NthOfNumbers
<1>. DEFINE n == Cardinality(T)
            m == Nth(T, n)
<1>5. n \in 1..n
  <2>1. PICK x \in T : TRUE
    BY <1>1
  <2>. QED
    BY <1>4, <2>1
<1>6. m \in T /\ m \in Nat
  BY <1>1, <1>4, <1>5
<1>7. ASSUME NEW x \in T PROVE x <= m
  <2>1. PICK k \in 1..n : Nth(T, k) = x
    BY <1>4
  <2>2. k < n \/ k = n
    BY <1>4
  <2>3. x < m \/ x = m
    BY <1>4, <1>5, <2>1, <2>2
  <2>4. x \in Nat
    BY <1>1
  <2>. HIDE DEF m
  <2>. QED
    BY <1>6, <2>3, <2>4
<1>. HIDE DEF m
<1>8. \E x \in T : \A y \in T : x >= y
  BY <1>1, <1>6, <1>7
<1>9. Depth \in T /\ \A y \in T : Depth >= y
  <2>1. Depth = CHOOSE x \in T : \A y \in T : x >= y
    BY DEF Depth, Max, T
  <2>. QED
    BY <1>8, <2>1
<1>10. \A r \in Route : Len(Segments[r]) \in T
  BY DEF T
<1>. QED
  BY <1>1, <1>9, <1>10

\* A history of attempts: as many of their results as the deepest route has segments.
Attempts == {traces \in Seq(Trace) : \A i \in 1..Len(traces) : Len(traces[i]) <= Depth}

IsCallIn(traces, call) ==
  /\ call \in (1..Len(traces)) \X (1..Depth) \X Priced
  /\ call[2] \in DOMAIN traces[call[1]]
  /\ call[3] \in Called(traces[call[1]][call[2]])

LEMMA CallsAreFinite ==
  ASSUME NEW traces \in Attempts
  PROVE  /\ IsFiniteSet(CallsIn(traces)) /\ Cardinality(CallsIn(traces)) \in Nat
         /\ \A call : call \in CallsIn(traces) <=> IsCallIn(traces, call)
<1>. DEFINE n == Len(traces)
            X == (1..n) \X (1..Depth)
            Y == X \X Tool
            f == [call \in CallsIn(traces) |-> <<<<call[1], call[2]>>, call[3]>>]
<1>1. n \in Nat /\ DOMAIN traces = 1..n /\ Depth \in Nat
  BY DepthBoundsRoutes DEF Attempts
<1>2. ASSUME NEW call PROVE call \in CallsIn(traces) <=> IsCallIn(traces, call)
  BY <1>1 DEF CallsIn, IsCallIn, Depth
<1>3. ASSUME NEW call \in CallsIn(traces)
      PROVE  call[1] \in 1..n /\ call[2] \in 1..Depth /\ call[3] \in Tool
             /\ call = <<call[1], call[2], call[3]>>
  <2>1. call \in (1..n) \X (1..Depth) \X Priced
    BY <1>2, <1>3 DEF IsCallIn
  <2>2. call[1] \in 1..n /\ call[2] \in 1..Depth /\ call = <<call[1], call[2], call[3]>>
    BY <2>1
  <2>. DEFINE trace == traces[call[1]]
  <2>3. trace \in Trace
    BY <1>1, <2>2 DEF Attempts
  <2>4. call[2] \in DOMAIN trace /\ call[3] \in Called(trace[call[2]])
    BY <1>2, <1>3 DEF IsCallIn
  <2>5. DOMAIN trace = 1..Len(trace)
    BY <2>3 DEF Trace
  <2>. HIDE DEF trace
  <2>6. DOMAIN trace[call[2]] \in SUBSET Tool
    BY <2>3, <2>4, <2>5, TraceIsTyped
  <2>7. call[3] \in Tool
    BY <2>4, <2>6 DEF Called
  <2>. QED
    BY <2>2, <2>7
<1>4. IsFiniteSet(1..n) /\ IsFiniteSet(1..Depth) /\ IsFiniteSet(Tool)
  BY <1>1, FS_Interval, OnlineAssumption
<1>5. IsFiniteSet(X)
  BY <1>4, FS_Product
<1>. HIDE DEF X
<1>6. IsFiniteSet(Y)
  BY <1>4, <1>5, FS_Product
<1>7. f \in [CallsIn(traces) -> Y]
  BY <1>3 DEF X
<1>8. \A a, b \in CallsIn(traces) : f[a] = f[b] => a = b
  <2>. SUFFICES ASSUME NEW a \in CallsIn(traces), NEW b \in CallsIn(traces), f[a] = f[b]
                PROVE  a = b
    OBVIOUS
  <2>1. <<<<a[1], a[2]>>, a[3]>> = <<<<b[1], b[2]>>, b[3]>>
    OBVIOUS
  <2>2. a[1] = b[1] /\ a[2] = b[2] /\ a[3] = b[3]
    BY <2>1
  <2>. QED
    BY <1>3, <2>2
<1>. HIDE DEF f, Y
<1>9. f \in Injection(CallsIn(traces), Y)
  BY <1>7, <1>8 DEF Injection, IsInjective, f
<1>10. IsFiniteSet(CallsIn(traces))
  BY <1>6, <1>9, FS_Injection
<1>. QED
  BY <1>2, <1>10, FS_CardinalityType

\* What a segment adds to the bill is what it is billed.
LEMMA SegmentIsBilled ==
  ASSUME NEW traces \in Seq(Trace), NEW trace \in Trace,
         NEW T \in SUBSET Tool, NEW result \in [T -> Status],
         Append(traces, trace) \in Attempts, Len(trace) < Depth
  PROVE  /\ Append(traces, Append(trace, result)) \in Attempts
         /\ Cardinality(CallsIn(Append(traces, Append(trace, result))))
              = Cardinality(CallsIn(Append(traces, trace))) + Billed(result)
         /\ Billed(result) \in Nat
<1>. DEFINE old  == Append(traces, trace)
            longer == Append(trace, result)
            new  == Append(traces, longer)
            n    == Len(traces)
            m    == Len(trace)
            U    == {t \in DOMAIN result : result[t] # "missing" /\ t \in Priced}
            B    == {<<n + 1, m + 1, t>> : t \in U}
            f    == [t \in U |-> <<n + 1, m + 1, t>>]
<1>1. n \in Nat /\ m \in Nat /\ DOMAIN trace = 1..m /\ Depth \in Nat
  BY DepthBoundsRoutes DEF Trace
<1>2. longer \in Trace
  <2>. DEFINE all == UNION {[S -> {"success", "error", "missing"}] : S \in SUBSET Tool}
  <2>1. result \in all
    BY ResultsAreTyped
  <2>2. trace \in Seq(all)
    BY DEF Trace
  <2>. HIDE DEF all
  <2>3. longer \in Seq(all)
    BY <2>1, <2>2
  <2>. QED
    BY <2>3 DEF Trace, all
<1>3. /\ Len(longer) = m + 1 /\ DOMAIN longer = 1..(m + 1)
      /\ \A k \in 1..m : longer[k] = trace[k]
      /\ longer[m + 1] = result
  BY <1>1 DEF Trace
<1>4. /\ Len(old) = n + 1 /\ old[n + 1] = trace /\ \A i \in 1..n : old[i] = traces[i]
  OBVIOUS
<1>. HIDE DEF longer
<1>5. /\ new \in Seq(Trace) /\ Len(new) = n + 1
      /\ new[n + 1] = longer /\ \A i \in 1..n : new[i] = traces[i]
  BY <1>2
<1>8. old \in Attempts
  OBVIOUS
<1>. HIDE DEF old, new
<1>6. \A i \in 1..n : Len(traces[i]) <= Depth
  <2>1. \A i \in 1..(n + 1) : Len(old[i]) <= Depth
    BY <1>4, <1>8 DEF Attempts
  <2>. QED
    BY <1>1, <1>4, <2>1
<1>7. new \in Attempts
  <2>1. \A i \in 1..(n + 1) : Len(new[i]) <= Depth
    BY <1>1, <1>3, <1>5, <1>6
  <2>. QED
    BY <1>5, <2>1 DEF Attempts
<1>9. IsFiniteSet(U) /\ Cardinality(U) \in Nat /\ Billed(result) = Cardinality(U)
  <2>1. U \in SUBSET Tool /\ IsFiniteSet(Tool)
    BY OnlineAssumption
  <2>2. IsFiniteSet(U)
    BY <2>1, FS_Subset
  <2>. QED
    BY <2>2, FS_CardinalityType DEF Billed
<1>10. /\ IsFiniteSet(CallsIn(old)) /\ Cardinality(CallsIn(old)) \in Nat
       /\ \A call : call \in CallsIn(old) <=> IsCallIn(old, call)
       /\ \A call : call \in CallsIn(new) <=> IsCallIn(new, call)
  BY <1>7, <1>8, CallsAreFinite
<1>11. \A t : t \in U <=> t \in Called(result) /\ t \in Priced
  BY DEF Called
<1>. HIDE DEF U
<1>12. ASSUME NEW call
       PROVE  call \in CallsIn(new) <=> call \in CallsIn(old) \/ call \in B
  <2>1. ASSUME IsCallIn(new, call), call \notin B PROVE IsCallIn(old, call)
    <3>1. call \in (1..(n + 1)) \X (1..Depth) \X Priced
      BY <1>5, <2>1 DEF IsCallIn
    <3>2. CASE call[1] # n + 1
      <4>1. call[1] \in 1..n
        BY <1>1, <3>1, <3>2
      <4>2. old[call[1]] = new[call[1]]
        BY <1>4, <1>5, <4>1
      <4>. QED
        BY <1>4, <2>1, <3>1, <4>2 DEF IsCallIn
    <3>3. CASE call[1] = n + 1
      <4>1. call[2] \in 1..(m + 1) /\ call[3] \in Called(longer[call[2]]) /\ call[3] \in Priced
        BY <1>3, <1>5, <2>1, <3>1, <3>3 DEF IsCallIn
      <4>2. call[2] # m + 1
        <5>1. SUFFICES ASSUME call[2] = m + 1 PROVE FALSE
          OBVIOUS
        <5>2. call[3] \in U
          BY <1>3, <1>11, <4>1, <5>1
        <5>3. call = <<n + 1, m + 1, call[3]>>
          BY <3>1, <3>3, <5>1
        <5>. QED
          BY <2>1, <5>2, <5>3
      <4>3. call[2] \in 1..m
        BY <1>1, <4>1, <4>2
      <4>4. call[2] \in DOMAIN trace /\ call[3] \in Called(trace[call[2]])
        BY <1>1, <1>3, <4>1, <4>3
      <4>. QED
        BY <1>4, <3>1, <3>3, <4>4 DEF IsCallIn
    <3>. QED
      BY <3>2, <3>3
  <2>2. ASSUME IsCallIn(old, call) PROVE IsCallIn(new, call)
    <3>1. call \in (1..(n + 1)) \X (1..Depth) \X Priced
      BY <1>4, <2>2 DEF IsCallIn
    <3>2. CASE call[1] # n + 1
      <4>1. call[1] \in 1..n
        BY <1>1, <3>1, <3>2
      <4>2. old[call[1]] = new[call[1]]
        BY <1>4, <1>5, <4>1
      <4>. QED
        BY <1>5, <2>2, <3>1, <4>2 DEF IsCallIn
    <3>3. CASE call[1] = n + 1
      <4>1. call[2] \in 1..m /\ call[3] \in Called(trace[call[2]])
        BY <1>1, <1>4, <2>2, <3>3 DEF IsCallIn
      <4>2. call[2] \in DOMAIN longer /\ call[3] \in Called(longer[call[2]])
        BY <1>1, <1>3, <4>1
      <4>. QED
        BY <1>5, <3>1, <3>3, <4>2 DEF IsCallIn
    <3>. QED
      BY <3>2, <3>3
  <2>3. ASSUME NEW t \in U, call = <<n + 1, m + 1, t>> PROVE IsCallIn(new, call)
    <3>1. call \in (1..(n + 1)) \X (1..Depth) \X Priced
      BY <1>1, <1>11, <2>3
    <3>2. call[1] = n + 1 /\ call[2] = m + 1 /\ call[3] = t
      BY <2>3
    <3>3. m + 1 \in DOMAIN longer /\ t \in Called(longer[m + 1])
      BY <1>1, <1>3, <1>11
    <3>. QED
      BY <1>5, <3>1, <3>2, <3>3 DEF IsCallIn
  <2>. QED
    BY <1>10, <2>1, <2>2, <2>3
<1>13. ASSUME NEW t \in U PROVE <<n + 1, m + 1, t>> \notin CallsIn(old)
  <2>1. SUFFICES ASSUME IsCallIn(old, <<n + 1, m + 1, t>>) PROVE FALSE
    BY <1>10
  <2>2. m + 1 \in DOMAIN old[n + 1]
    BY <2>1 DEF IsCallIn
  <2>. QED
    BY <1>1, <1>4, <2>2
<1>14. IsFiniteSet(B) /\ Cardinality(B) = Cardinality(U)
  <2>1. f \in Bijection(U, B)
    <3>1. f \in [U -> B] /\ (\A t \in B : \E s \in U : f[s] = t)
      OBVIOUS
    <3>2. \A a, b \in U : f[a] = f[b] => a = b
      OBVIOUS
    <3>. HIDE DEF f, B
    <3>. QED
      BY <3>1, <3>2 DEF Bijection, Injection, IsInjective, Surjection
  <2>. HIDE DEF f, B
  <2>2. ExistsBijection(U, B)
    BY <2>1 DEF ExistsBijection
  <2>. QED
    BY <1>9, <2>2, FS_Bijection
<1>15. CallsIn(new) = CallsIn(old) \cup B
  <2>. HIDE DEF B
  <2>. QED
    BY <1>12
<1>16. CallsIn(old) \cap B = {}
  BY <1>13
<1>. HIDE DEF B
<1>17. Cardinality(CallsIn(old) \cup B) = Cardinality(CallsIn(old)) + Cardinality(B) - Cardinality({})
  BY <1>10, <1>14, <1>16, FS_Union
<1>18. Cardinality(CallsIn(new)) = Cardinality(CallsIn(old)) + Cardinality(U)
  BY <1>9, <1>10, <1>14, <1>15, <1>17, FS_EmptySet
<1>. QED
  BY <1>7, <1>9, <1>18 DEF new, old, longer

\* A new attempt has cost nothing yet.
LEMMA NoTraceNoBill ==
  /\ \A traces \in Attempts :
       /\ Append(traces, <<>>) \in Attempts
       /\ CallsIn(Append(traces, <<>>)) = CallsIn(traces)
  /\ <<>> \in Attempts /\ Cardinality(CallsIn(<<>>)) = 0
<1>1. ASSUME NEW traces \in Attempts
      PROVE  /\ Append(traces, <<>>) \in Attempts
             /\ CallsIn(Append(traces, <<>>)) = CallsIn(traces)
  <2>. DEFINE new == Append(traces, <<>>)
              n   == Len(traces)
  <2>1. traces \in Seq(Trace) /\ <<>> \in Trace /\ Depth \in Nat /\ n \in Nat
        /\ \A i \in 1..n : Len(traces[i]) <= Depth
    BY DepthBoundsRoutes DEF Attempts, Trace
  <2>2. /\ new \in Seq(Trace) /\ Len(new) = n + 1
        /\ new[n + 1] = <<>> /\ \A i \in 1..n : new[i] = traces[i]
    BY <2>1
  <2>. HIDE DEF new
  <2>3. new \in Attempts
    <3>1. \A i \in 1..(n + 1) : Len(new[i]) <= Depth
      BY <2>1, <2>2
    <3>. QED
      BY <2>2, <3>1 DEF Attempts
  <2>4. ASSUME NEW call PROVE IsCallIn(new, call) <=> IsCallIn(traces, call)
    <3>1. ASSUME IsCallIn(new, call) PROVE IsCallIn(traces, call)
      <4>1. call \in (1..(n + 1)) \X (1..Depth) \X Priced
        BY <2>2, <3>1 DEF IsCallIn
      <4>2. call[1] # n + 1
        BY <2>2, <3>1 DEF IsCallIn
      <4>3. call[1] \in 1..n
        BY <2>1, <4>1, <4>2
      <4>. QED
        BY <2>2, <3>1, <4>1, <4>3 DEF IsCallIn
    <3>2. ASSUME IsCallIn(traces, call) PROVE IsCallIn(new, call)
      <4>1. call \in (1..n) \X (1..Depth) \X Priced
        BY <3>2 DEF IsCallIn
      <4>2. call[1] \in 1..n /\ call \in (1..(n + 1)) \X (1..Depth) \X Priced
        BY <2>1, <4>1
      <4>. QED
        BY <2>2, <3>2, <4>2 DEF IsCallIn
    <3>. QED
      BY <3>1, <3>2
  <2>5. CallsIn(new) = CallsIn(traces)
    BY <2>3, <2>4, CallsAreFinite
  <2>. QED
    BY <2>3, <2>5 DEF new
<1>2. <<>> \in Attempts
  BY DEF Attempts
<1>3. CallsIn(<<>>) = {}
  BY DEF CallsIn
<1>. QED
  BY <1>1, <1>2, <1>3, FS_EmptySet

----------------------------------------------------------------------------
(* The invariant of one request *)

Phase == {"new", "running"} \cup Ended

Serving ==
  [phase : Phase, category : {a.category : a \in Arrival} \cup {None},
   tier : {a.tier : a \in Arrival} \cup {None},
   attempts : Seq(Route), index : Nat, trace : Trace, board : SUBSET MadeBy(Tool),
   steps : Seq(Route \X Route), cost : Nat]

Untried == {"new", "no_candidate"}

Blank(s, p) ==
  /\ s.attempts = <<>> /\ s.index = 0 /\ s.trace = <<>> /\ s.board = {}
  /\ s.steps = <<>> /\ s.cost = 0 /\ p = <<>>

\* The attempts that failed, and the one that is under way or was the last.
WalksFit(s, p) ==
  /\ s.index \in 1..Len(s.attempts)
  /\ Len(p) = s.index - 1 /\ Len(s.steps) = s.index - 1
  /\ \A i \in 1..Len(p) :
       /\ s.steps[i] = <<s.attempts[i], s.attempts[i + 1]>>
       /\ Walk(p[i], s.attempts[i])
       /\ p[i] # <<>> /\ AllFailed(p[i][Len(p[i])])
  /\ Walk(s.trace, RouteOf(s))
  /\ s.phase \in {"running", "served"} => s.board = Made(s.trace)
  /\ s.phase = "running" => Len(s.trace) < Len(Segments[RouteOf(s)])
  /\ s.phase = "served" => Len(s.trace) = Len(Segments[RouteOf(s)])
  /\ s.phase = "route_failed" =>
       /\ s.index = Len(s.attempts)
       /\ s.trace # <<>> /\ AllFailed(s.trace[Len(s.trace)])

RequestFits(s, p) ==
  /\ s \in Serving /\ p \in Seq(Trace)
  /\ Append(p, s.trace) \in Attempts
  /\ s.cost = Cardinality(CallsIn(Append(p, s.trace)))
  /\ s.phase \in Untried => Blank(s, p)
  /\ s.phase \notin Untried => PlanFits(s) /\ WalksFit(s, p)

LEMMA IdleFits ==
  ASSUME NEW s, s \in Serving, s.phase \in Untried, Blank(s, <<>>)
  PROVE  RequestFits(s, <<>>)
<1>1. s.trace = <<>> /\ s.cost = 0
  BY DEF Blank
<1>2. <<>> \in Attempts /\ Append(<<>>, <<>>) \in Attempts
      /\ CallsIn(Append(<<>>, <<>>)) = CallsIn(<<>>) /\ Cardinality(CallsIn(<<>>)) = 0
  BY NoTraceNoBill
<1>3. <<>> \in Seq(Trace)
  OBVIOUS
<1>. QED
  BY <1>1, <1>2, <1>3 DEF RequestFits

\* What has been planned stays planned.
LEMMA PlanStays ==
  ASSUME NEW s, NEW t, t.attempts = s.attempts, t.category = s.category, t.tier = s.tier,
         PlanFits(s)
  PROVE  PlanFits(t)
<1>1. Covering(t) = Covering(s)
  BY DEF Covering
<1>2. \A r : Distance(t, r) = Distance(s, r)
  BY DEF Distance
<1>. QED
  BY <1>1, <1>2 DEF PlanFits

LEMMA RunningIsTyped ==
  ASSUME NEW s, NEW p, RequestFits(s, p), s.phase = "running"
  PROVE  /\ s \in Serving /\ PlanFits(s) /\ WalksFit(s, p)
         /\ s.index \in 1..Len(s.attempts) /\ s.index \in Nat
         /\ RouteOf(s) \in Route
         /\ Len(s.trace) \in Nat
         /\ Len(s.trace) + 1 \in 1..Len(Segments[RouteOf(s)])
         /\ SegmentOf(s) \in SUBSET Tool /\ SegmentOf(s) # {}
<1>1. s \in Serving /\ PlanFits(s) /\ WalksFit(s, p)
  BY DEF RequestFits, Untried
<1>2. s.index \in 1..Len(s.attempts) /\ s.attempts \in Seq(Route)
      /\ Len(s.trace) < Len(Segments[RouteOf(s)]) /\ s.trace \in Trace
  BY <1>1 DEF Serving, WalksFit
<1>3. s.index \in Nat /\ RouteOf(s) \in Route /\ Len(s.trace) \in Nat
  BY <1>2 DEF RouteOf, Trace
<1>4. Len(Segments[RouteOf(s)]) \in Nat
  BY <1>3, SegmentsAreTyped
<1>5. Len(s.trace) + 1 \in 1..Len(Segments[RouteOf(s)])
  BY <1>2, <1>3, <1>4
<1>. QED
  BY <1>1, <1>2, <1>3, <1>5, SegmentsAreTyped DEF SegmentOf

\* A segment continues the walk, adds to the blackboard what it made and to the bill
\* what it called.
Continues(s, p, result, ran) ==
  /\ ran \in Serving
  /\ ran.phase = "running" /\ ran.attempts = s.attempts /\ ran.index = s.index
  /\ ran.category = s.category /\ ran.tier = s.tier /\ ran.steps = s.steps
  /\ Len(ran.trace) = Len(s.trace) + 1 /\ ran.trace # <<>>
  /\ ran.trace[Len(ran.trace)] = result
  /\ Walk(ran.trace, RouteOf(s))
  /\ ran.board = Made(ran.trace)
  /\ Append(p, ran.trace) \in Attempts
  /\ ran.cost = Cardinality(CallsIn(Append(p, ran.trace)))

\* What may come back from a segment that a running request has started.
EndsSegment(s, p, result) ==
  /\ RequestFits(s, p) /\ s.phase = "running"
  /\ result \in [SegmentOf(s) -> Status] /\ Possible(s.board, result)

LEMMA RanContinues ==
  ASSUME NEW s, NEW p, NEW result, EndsSegment(s, p, result)
  PROVE  Continues(s, p, result, Ran(s, result))
<1>. DEFINE r   == RouteOf(s)
            ran == Ran(s, result)
            new == Append(s.trace, result)
<1>0. RequestFits(s, p) /\ s.phase = "running" /\ Possible(s.board, result)
      /\ result \in [SegmentOf(s) -> Status]
  BY DEF EndsSegment
<1>1. /\ s \in Serving /\ PlanFits(s) /\ WalksFit(s, p)
      /\ r \in Route
      /\ Len(s.trace) \in Nat
      /\ Len(s.trace) + 1 \in 1..Len(Segments[r])
      /\ SegmentOf(s) \in SUBSET Tool
  BY <1>0, RunningIsTyped
<1>2. p \in Seq(Trace) /\ Append(p, s.trace) \in Attempts
      /\ s.cost = Cardinality(CallsIn(Append(p, s.trace)))
  BY <1>0 DEF RequestFits
<1>3. Walk(s.trace, r) /\ s.board = Made(s.trace) /\ s.trace \in Trace
      /\ Len(s.trace) < Len(Segments[r])
  BY <1>0, <1>1 DEF WalksFit, Serving
<1>4. SegmentOf(s) = Segments[r][Len(s.trace) + 1]
  BY DEF SegmentOf
<1>. HIDE DEF r
<1>5. Walk(new, r)
  BY <1>0, <1>1, <1>3, <1>4, WalkGrows
<1>6. /\ Made(new) = Made(s.trace) \cup MadeBy(Successes(result))
      /\ MadeBy(Successes(result)) \in SUBSET MadeBy(Tool)
  BY <1>0, <1>1, <1>3, MadeOfAppended
<1>7. Len(s.trace) < Depth
  <2>1. Len(Segments[r]) <= Depth /\ Depth \in Nat /\ Len(Segments[r]) \in Nat
    BY <1>1, DepthBoundsRoutes, SegmentsAreTyped
  <2>. QED
    BY <1>1, <1>3, <2>1
<1>8. /\ Append(p, new) \in Attempts
      /\ Cardinality(CallsIn(Append(p, new)))
           = Cardinality(CallsIn(Append(p, s.trace))) + Billed(result)
      /\ Billed(result) \in Nat
  BY <1>0, <1>1, <1>2, <1>3, <1>7, SegmentIsBilled
<1>9. new \in Trace /\ Len(new) = Len(s.trace) + 1 /\ new[Len(s.trace) + 1] = result
      /\ new # <<>>
  <2>1. new \in Trace
    BY <1>5 DEF Walk
  <2>2. Len(new) = Len(s.trace) + 1 /\ new[Len(s.trace) + 1] = result
    BY <1>3 DEF Trace
  <2>. HIDE DEF new
  <2>3. new # <<>>
    BY <1>1, <2>2
  <2>. QED
    BY <2>1, <2>2, <2>3
<1>. HIDE DEF new
<1>10. ran.trace = new /\ ran.board = Made(new) /\ ran.cost = s.cost + Billed(result)
  BY <1>1, <1>3, <1>6 DEF Ran, Serving, new
<1>11. ran \in Serving
  <2>1. s.cost + Billed(result) \in Nat /\ Made(new) \in SUBSET MadeBy(Tool)
    BY <1>1, <1>3, <1>6, <1>8 DEF Serving
  <2>. QED
    BY <1>1, <1>3, <1>6, <1>9, <2>1 DEF Ran, Serving, new
<1>12. /\ ran.phase = "running" /\ ran.attempts = s.attempts /\ ran.index = s.index
       /\ ran.category = s.category /\ ran.tier = s.tier /\ ran.steps = s.steps
  BY <1>0, <1>1 DEF Ran, Serving
<1>. HIDE DEF ran
<1>13. Continues(s, p, result, ran)
  BY <1>2, <1>5, <1>8, <1>9, <1>10, <1>11, <1>12 DEF r, Continues
<1>. QED
  BY <1>13 DEF ran

\* The attempt goes on, or has walked its route to the end.
LEMMA GoneOnFits ==
  ASSUME NEW s, NEW p, NEW result, EndsSegment(s, p, result),
         NEW ran, ran = Ran(s, result),
         NEW t,
         t = IF Len(ran.trace) = Len(Segments[RouteOf(s)])
             THEN [ran EXCEPT !.phase = "served"] ELSE ran
  PROVE  RequestFits(t, p)
<1>0. Continues(s, p, result, ran)
  BY RanContinues
<1>1. /\ s \in Serving /\ PlanFits(s) /\ WalksFit(s, p)
      /\ Len(s.trace) \in Nat /\ Len(s.trace) + 1 \in 1..Len(Segments[RouteOf(s)])
  BY RunningIsTyped DEF EndsSegment
<1>2. /\ ran \in Serving
      /\ Len(ran.trace) = Len(s.trace) + 1
      /\ Walk(ran.trace, RouteOf(s))
      /\ ran.board = Made(ran.trace)
      /\ Append(p, ran.trace) \in Attempts
      /\ ran.cost = Cardinality(CallsIn(Append(p, ran.trace)))
  BY <1>0 DEF Continues
<1>3. p \in Seq(Trace)
  BY DEF RequestFits, EndsSegment
<1>4. /\ ran.phase = "running" /\ ran.attempts = s.attempts /\ ran.index = s.index
      /\ ran.category = s.category /\ ran.tier = s.tier /\ ran.steps = s.steps
  BY <1>0 DEF Continues
<1>5. /\ t.attempts = s.attempts /\ t.index = s.index
      /\ t.category = s.category /\ t.tier = s.tier /\ t.steps = s.steps
      /\ t.trace = ran.trace /\ t.board = ran.board /\ t.cost = ran.cost
      /\ t \in Serving
      /\ t.phase = IF Len(ran.trace) = Len(Segments[RouteOf(s)]) THEN "served" ELSE "running"
  BY <1>2, <1>4 DEF Serving, Phase, Ended
<1>6. PlanFits(t)
  BY <1>1, <1>5, PlanStays
<1>7. RouteOf(t) = RouteOf(s)
  BY <1>5 DEF RouteOf
<1>8. /\ t.phase = "running" => Len(t.trace) < Len(Segments[RouteOf(s)])
      /\ t.phase = "served" => Len(t.trace) = Len(Segments[RouteOf(s)])
      /\ t.phase \in {"running", "served"}
  <2>. DEFINE n == Len(s.trace)
              m == Len(Segments[RouteOf(s)])
  <2>1. n \in Nat /\ n + 1 \in 1..m /\ m \in Nat
    BY <1>1
  <2>2. Len(ran.trace) = n + 1
    BY <1>2
  <2>. HIDE DEF n, m
  <2>. QED
    BY <1>5, <2>1, <2>2 DEF n, m
<1>9. WalksFit(t, p)
  <2>1. \A i \in 1..Len(p) :
          /\ t.steps[i] = <<t.attempts[i], t.attempts[i + 1]>>
          /\ Walk(p[i], t.attempts[i])
          /\ p[i] # <<>> /\ AllFailed(p[i][Len(p[i])])
    BY <1>1, <1>5 DEF WalksFit
  <2>2. t.index \in 1..Len(t.attempts) /\ Len(p) = t.index - 1 /\ Len(t.steps) = t.index - 1
    BY <1>1, <1>5 DEF WalksFit
  <2>3. Walk(t.trace, RouteOf(t)) /\ t.board = Made(t.trace)
    BY <1>2, <1>5, <1>7
  <2>. QED
    BY <1>7, <1>8, <2>1, <2>2, <2>3 DEF WalksFit
<1>. QED
  BY <1>2, <1>3, <1>5, <1>6, <1>9 DEF RequestFits, Untried

\* No attempt is left.
LEMMA FailedFits ==
  ASSUME NEW s, NEW p, NEW result, EndsSegment(s, p, result),
         AllFailed(result), s.index = Len(s.attempts),
         NEW ran, ran = Ran(s, result),
         NEW t, t = [ran EXCEPT !.phase = "route_failed", !.board = {}]
  PROVE  RequestFits(t, p)
<1>0. Continues(s, p, result, ran)
  BY RanContinues
<1>1. s \in Serving /\ PlanFits(s) /\ WalksFit(s, p)
  BY RunningIsTyped DEF EndsSegment
<1>2. /\ ran \in Serving
      /\ ran.trace # <<>> /\ ran.trace[Len(ran.trace)] = result
      /\ Walk(ran.trace, RouteOf(s))
      /\ Append(p, ran.trace) \in Attempts
      /\ ran.cost = Cardinality(CallsIn(Append(p, ran.trace)))
  BY <1>0 DEF Continues
<1>3. p \in Seq(Trace)
  BY DEF RequestFits, EndsSegment
<1>4. /\ ran.attempts = s.attempts /\ ran.index = s.index
      /\ ran.category = s.category /\ ran.tier = s.tier /\ ran.steps = s.steps
  BY <1>0 DEF Continues
<1>5. /\ t.attempts = s.attempts /\ t.index = s.index
      /\ t.category = s.category /\ t.tier = s.tier /\ t.steps = s.steps
      /\ t.trace = ran.trace /\ t.cost = ran.cost
      /\ t \in Serving /\ t.phase = "route_failed"
  BY <1>2, <1>4 DEF Serving, Phase, Ended
<1>6. PlanFits(t)
  BY <1>1, <1>5, PlanStays
<1>7. RouteOf(t) = RouteOf(s)
  BY <1>5 DEF RouteOf
<1>9. WalksFit(t, p)
  BY <1>1, <1>2, <1>5, <1>7 DEF WalksFit
<1>. QED
  BY <1>2, <1>3, <1>5, <1>6, <1>9 DEF RequestFits, Untried

\* The next attempt begins with nothing, and the one before is kept as it was.
LEMMA FallbackFits ==
  ASSUME NEW s, NEW p, NEW result, EndsSegment(s, p, result),
         AllFailed(result), s.index < Len(s.attempts),
         NEW ran, ran = Ran(s, result)
  PROVE  RequestFits(Fallback(ran), Append(p, ran.trace))
<1>. DEFINE t   == Fallback(ran)
            new == Append(p, ran.trace)
<1>0. Continues(s, p, result, ran)
  BY RanContinues
<1>1. s \in Serving /\ PlanFits(s) /\ WalksFit(s, p)
      /\ s.index \in 1..Len(s.attempts) /\ s.index \in Nat /\ RouteOf(s) \in Route
  BY RunningIsTyped DEF EndsSegment
<1>2. /\ ran \in Serving
      /\ ran.trace # <<>> /\ ran.trace[Len(ran.trace)] = result
      /\ Walk(ran.trace, RouteOf(s))
      /\ Append(p, ran.trace) \in Attempts
      /\ ran.cost = Cardinality(CallsIn(Append(p, ran.trace)))
  BY <1>0 DEF Continues
<1>3. p \in Seq(Trace) /\ ran.trace \in Trace
  BY <1>2 DEF RequestFits, Serving, EndsSegment
<1>4. /\ ran.attempts = s.attempts /\ ran.index = s.index /\ ran.phase = "running"
      /\ ran.category = s.category /\ ran.tier = s.tier /\ ran.steps = s.steps
  BY <1>0 DEF Continues
<1>. DEFINE step == <<s.attempts[s.index], s.attempts[s.index + 1]>>
<1>5. /\ s.index + 1 \in 1..Len(s.attempts) /\ s.attempts \in Seq(Route)
      /\ step \in Route \X Route
  <2>1. s.attempts \in Seq(Route)
    BY <1>1 DEF Serving
  <2>2. s.index + 1 \in 1..Len(s.attempts)
    BY <1>1, <2>1
  <2>. QED
    BY <1>1, <2>1, <2>2
<1>6. /\ t.attempts = s.attempts /\ t.index = s.index + 1
      /\ t.category = s.category /\ t.tier = s.tier /\ t.steps = Append(s.steps, step)
      /\ t.trace = <<>> /\ t.cost = ran.cost /\ t.board = {}
      /\ t.phase = "running"
  BY <1>2, <1>4 DEF Serving, Fallback, RouteOf
<1>7. t \in Serving
  <2>1. <<>> \in Trace /\ s.index + 1 \in Nat /\ {} \in SUBSET MadeBy(Tool)
    BY <1>1 DEF Trace
  <2>2. Append(s.steps, step) \in Seq(Route \X Route)
    BY <1>1, <1>5 DEF Serving
  <2>. HIDE DEF step
  <2>3. t = [ran EXCEPT !.index = s.index + 1, !.trace = <<>>, !.board = {},
                        !.steps = Append(s.steps, step)]
    BY <1>2, <1>4 DEF Fallback, Serving, RouteOf, step
  <2>. HIDE DEF t
  <2>. QED
    BY <1>2, <2>1, <2>2, <2>3 DEF Serving
<1>. HIDE DEF t
<1>8. PlanFits(t)
  BY <1>1, <1>6, PlanStays
<1>9. /\ new \in Seq(Trace) /\ Len(new) = s.index /\ new[s.index] = ran.trace
      /\ \A i \in 1..(s.index - 1) : new[i] = p[i]
  BY <1>1, <1>3 DEF WalksFit
<1>10. /\ Len(t.steps) = s.index /\ t.steps[s.index] = step
       /\ \A i \in 1..(s.index - 1) : t.steps[i] = s.steps[i]
  <2>1. s.steps \in Seq(Route \X Route) /\ Len(s.steps) = s.index - 1
    BY <1>1 DEF Serving, WalksFit
  <2>. HIDE DEF step
  <2>. QED
    BY <1>1, <1>6, <2>1
<1>11. RouteOf(t) \in Route
  BY <1>5, <1>6 DEF RouteOf
<1>12. Walk(t.trace, RouteOf(t)) /\ t.board = Made(t.trace)
       /\ Len(t.trace) < Len(Segments[RouteOf(t)])
  <2>1. Len(Segments[RouteOf(t)]) \in Nat \ {0}
    BY <1>11, SegmentsAreTyped
  <2>2. <<>> \in Trace /\ Isolated(<<>>) /\ Made(<<>>) = {}
    BY DEF Trace, Isolated, Made, MadeBy
  <2>. QED
    BY <1>6, <2>1, <2>2 DEF Walk
<1>. HIDE DEF new
<1>13. \A i \in 1..Len(new) :
         /\ t.steps[i] = <<t.attempts[i], t.attempts[i + 1]>>
         /\ Walk(new[i], t.attempts[i])
         /\ new[i] # <<>> /\ AllFailed(new[i][Len(new[i])])
  <2>. TAKE i \in 1..Len(new)
  <2>1. CASE i = s.index
    BY <1>2, <1>6, <1>9, <1>10, <2>1 DEF RouteOf
  <2>2. CASE i # s.index
    <3>1. i \in 1..(s.index - 1)
      BY <1>1, <1>9, <2>2
    <3>. QED
      BY <1>1, <1>6, <1>9, <1>10, <3>1 DEF WalksFit
  <2>. QED
    BY <2>1, <2>2
<1>14. WalksFit(t, new)
  <2>1. t.index \in 1..Len(t.attempts) /\ Len(new) = t.index - 1 /\ Len(t.steps) = t.index - 1
    BY <1>1, <1>5, <1>6, <1>9, <1>10
  <2>. QED
    BY <1>6, <1>12, <1>13, <2>1 DEF WalksFit
<1>15. Append(new, <<>>) \in Attempts /\ CallsIn(Append(new, <<>>)) = CallsIn(new)
  BY <1>2, NoTraceNoBill DEF new
<1>. QED
  BY <1>2, <1>6, <1>7, <1>8, <1>9, <1>14, <1>15 DEF RequestFits, Untried, new, t

----------------------------------------------------------------------------
(* The invariant *)

\* Every pick was made by the counter, which has gone up once per pick.
PickFits(pick, at) ==
  /\ pick.group \in SUBSET Route /\ pick.group # {}
  /\ pick.route = Nth(pick.group, (at % Cardinality(pick.group)) + 1)

PicksFit ==
  /\ picks \in Seq([group : SUBSET Route, route : Route])
  /\ Len(picks) <= turn
  /\ \A i \in 1..Len(picks) : PickFits(picks[i], (turn - Len(picks)) + (i - 1))

IInv ==
  /\ config \in Config /\ turn \in Nat
  /\ req \in [Request -> Serving] /\ past \in [Request -> Seq(Trace)]
  /\ \A q \in Request : RequestFits(req[q], past[q])
  /\ PicksFit

LEMMA RemainderIsSmall ==
  ASSUME NEW a \in Nat, NEW n \in Nat \ {0}
  PROVE  a % n \in 0..(n - 1)
BY SMT

LEMMA PickIsInGroup ==
  ASSUME turn \in Nat, NEW group \in SUBSET Route, group # {}
  PROVE  Pick(group) \in group
<1>1. group \in SUBSET Nat /\ IsFiniteSet(group)
  <2>1. IsFiniteSet(Route) /\ Route \subseteq Nat
    BY OnlineAssumption
  <2>2. IsFiniteSet(group)
    BY <2>1, FS_Subset
  <2>. QED
    BY <2>1, <2>2
<1>2. Cardinality(group) \in Nat \ {0}
  BY <1>1, FS_CardinalityType, FS_EmptySet
<1>3. turn % Cardinality(group) \in 0..(Cardinality(group) - 1)
  BY <1>2, RemainderIsSmall
<1>4. (turn % Cardinality(group)) + 1 \in 1..Cardinality(group)
  BY <1>2, <1>3
<1>. QED
  BY <1>1, <1>4, NthOfNumbers DEF Pick

LEMMA InitIsGood == Init => IInv
<1>. SUFFICES ASSUME Init PROVE IInv
  OBVIOUS
<1>1. config \in Config /\ turn \in Nat
  BY OnlineAssumption DEF Init
<1>2. Idle \in Serving /\ Idle.phase \in Untried /\ Blank(Idle, <<>>)
  BY DEF Idle, Serving, Phase, Trace, Untried, Blank
<1>3. RequestFits(Idle, <<>>)
  BY <1>2, IdleFits
<1>4. <<>> \in Seq(Trace)
  OBVIOUS
<1>5. PicksFit
  BY <1>1 DEF Init, PicksFit
<1>. QED
  BY <1>1, <1>2, <1>3, <1>4, <1>5 DEF Init, IInv

\* A request that is not touched stays as it is.
LEMMA UntouchedFits ==
  ASSUME NEW s, NEW p, RequestFits(s, p), config' = config
  PROVE  RequestFits(s, p)'
<1>1. ASSUME NEW t, PlanFits(t) PROVE PlanFits(t)'
  <2>1. Covering(t)' = Covering(t)
    BY DEF Covering
  <2>2. \A r : Distance(t, r)' = Distance(t, r)
    BY DEF Distance
  <2>. QED
    BY <1>1, <2>1, <2>2 DEF PlanFits
<1>. QED
  BY <1>1 DEF RequestFits

LEMMA PicksStay ==
  ASSUME PicksFit, UNCHANGED <<turn, picks>>
  PROVE  PicksFit'
BY DEF PicksFit

LEMMA RequestStepKeeps ==
  ASSUME IInv, NEW q \in Request, NEW s, NEW p, RequestFits(s, p), config' = config,
         req' = [req EXCEPT ![q] = s], past' = [past EXCEPT ![q] = p]
  PROVE  /\ req' \in [Request -> Serving] /\ past' \in [Request -> Seq(Trace)]
         /\ \A r \in Request : RequestFits(req[r], past[r])'
<1>1. /\ req \in [Request -> Serving] /\ past \in [Request -> Seq(Trace)]
      /\ \A r \in Request : RequestFits(req[r], past[r])
  BY DEF IInv
<1>2. s \in Serving /\ p \in Seq(Trace)
  BY DEF RequestFits
<1>3. ASSUME NEW r \in Request PROVE RequestFits(req[r], past[r])'
  <2>1. PICK t, u : t = req'[r] /\ u = past'[r]
    OBVIOUS
  <2>2. RequestFits(t, u)
    BY <1>1, <2>1
  <2>3. RequestFits(t, u)'
    BY <2>2, UntouchedFits
  <2>. QED
    BY <2>1, <2>3
<1>. QED
  BY <1>1, <1>2, <1>3

LEMMA ReceiveKeeps ==
  ASSUME IInv, NEW q \in Request, NEW a \in Arrival, Receive(q, a.category, a.tier)
  PROVE  IInv'
<1>. DEFINE groups  == CandidateGroups(a.category, a.tier)
            asked   == [Idle EXCEPT !.category = a.category, !.tier = a.tier]
            initial == Pick(groups[1])
            n       == Len(picks)
<1>1. /\ config \in Config /\ turn \in Nat /\ config' = config /\ past' = past
      /\ req \in [Request -> Serving] /\ past \in [Request -> Seq(Trace)]
      /\ PicksFit /\ RequestFits(req[q], past[q]) /\ req[q].phase = "new"
  BY DEF IInv, Receive
<1>2. past[q] = <<>>
  BY <1>1 DEF RequestFits, Blank, Untried
<1>3. past' = [past EXCEPT ![q] = <<>>]
  BY <1>1, <1>2
<1>4. /\ asked \in Serving /\ asked.phase = "new"
      /\ asked.category = a.category /\ asked.tier = a.tier
      /\ asked.attempts = <<>> /\ asked.index = 0 /\ asked.trace = <<>> /\ asked.board = {}
      /\ asked.steps = <<>> /\ asked.cost = 0
  <2>1. /\ Idle \in Serving /\ Idle.phase = "new"
        /\ Idle.attempts = <<>> /\ Idle.index = 0 /\ Idle.trace = <<>> /\ Idle.board = {}
        /\ Idle.steps = <<>> /\ Idle.cost = 0
    BY DEF Idle, Serving, Phase, Trace
  <2>2. a.category \in {b.category : b \in Arrival} /\ a.tier \in {b.tier : b \in Arrival}
    OBVIOUS
  <2>. QED
    BY <2>1, <2>2 DEF Serving
<1>5. CASE groups = <<>>
  <2>. DEFINE s == [asked EXCEPT !.phase = "no_candidate"]
  <2>1. req' = [req EXCEPT ![q] = s] /\ UNCHANGED <<turn, picks>>
    BY <1>5 DEF Receive
  <2>2. s \in Serving /\ s.phase \in Untried /\ Blank(s, <<>>)
    BY <1>4 DEF Serving, Phase, Ended, Untried, Blank
  <2>3. RequestFits(s, <<>>)
    BY <2>2, IdleFits
  <2>. HIDE DEF s
  <2>4. /\ req' \in [Request -> Serving] /\ past' \in [Request -> Seq(Trace)]
        /\ \A r \in Request : RequestFits(req[r], past[r])'
    BY <1>1, <1>3, <2>1, <2>3, RequestStepKeeps
  <2>5. PicksFit'
    BY <1>1, <2>1, PicksStay
  <2>. QED
    BY <1>1, <2>1, <2>4, <2>5 DEF IInv
<1>6. CASE groups # <<>>
  <2>. DEFINE attempts == <<initial>> \o Chain(groups, initial)
              s == [asked EXCEPT !.phase = "running", !.index = 1, !.attempts = attempts]
              pick == [group |-> groups[1], route |-> initial]
  <2>1. /\ req' = [req EXCEPT ![q] = s] /\ turn' = turn + 1 /\ picks' = Append(picks, pick)
    BY <1>6 DEF Receive
  <2>2. groups \in Groups
    BY <1>1, CandidateGroupsAreTyped
  <2>3. 1 \in DOMAIN groups
    BY <1>6, <2>2 DEF Groups
  <2>4. groups[1] \in SUBSET Route /\ groups[1] # {}
    BY <2>2, <2>3 DEF Groups
  <2>5. initial \in groups[1]
    BY <1>1, <2>4, PickIsInGroup
  <2>. HIDE DEF groups, asked, initial
  <2>6. /\ s.category = a.category /\ s.tier = a.tier /\ s.attempts = attempts
        /\ s.phase = "running" /\ s.index = 1 /\ s.trace = <<>> /\ s.board = {}
        /\ s.steps = <<>> /\ s.cost = 0
    BY <1>4
  <2>. HIDE DEF attempts
  <2>7. PlanFits(s)
    <3>. HIDE DEF s
    <3>1. groups = CandidateGroups(s.category, s.tier)
      BY <2>6 DEF groups
    <3>2. s.attempts = <<initial>> \o Chain(groups, initial)
      BY <2>6 DEF attempts
    <3>. QED
      BY <1>1, <1>6, <2>5, <3>1, <3>2, PlansFit
  <2>8. attempts \in Seq(Route) /\ 1 \in 1..Len(attempts)
    <3>1. attempts \in Seq(Route) /\ Len(attempts) \in 1..(config.max_fallbacks + 1)
      BY <2>6, <2>7 DEF PlanFits
    <3>. QED
      BY <3>1
  <2>9. s \in Serving
    BY <1>4, <2>8 DEF Serving, Phase
  <2>. HIDE DEF s
  <2>10. RouteOf(s) \in Route
    BY <2>6, <2>8 DEF RouteOf
  <2>11. WalksFit(s, <<>>)
    <3>1. Len(Segments[RouteOf(s)]) \in Nat \ {0}
      BY <2>10, SegmentsAreTyped
    <3>2. <<>> \in Trace /\ Isolated(<<>>) /\ Made(<<>>) = {}
      BY DEF Trace, Isolated, Made, MadeBy
    <3>3. Walk(<<>>, RouteOf(s))
      BY <3>1, <3>2 DEF Walk
    <3>. QED
      BY <2>6, <2>8, <3>1, <3>2, <3>3 DEF WalksFit
  <2>12. RequestFits(s, <<>>)
    <3>1. <<>> \in Attempts /\ Append(<<>>, <<>>) \in Attempts
          /\ CallsIn(Append(<<>>, <<>>)) = CallsIn(<<>>) /\ Cardinality(CallsIn(<<>>)) = 0
      BY NoTraceNoBill
    <3>2. <<>> \in Seq(Trace)
      OBVIOUS
    <3>. QED
      BY <2>6, <2>7, <2>9, <2>11, <3>1, <3>2 DEF RequestFits, Untried
  <2>13. /\ req' \in [Request -> Serving] /\ past' \in [Request -> Seq(Trace)]
         /\ \A r \in Request : RequestFits(req[r], past[r])'
    BY <1>1, <1>3, <2>1, <2>12, RequestStepKeeps
  <2>14. PicksFit'
    <3>1. /\ picks \in Seq([group : SUBSET Route, route : Route])
          /\ n \in Nat /\ n <= turn
          /\ \A i \in 1..n : PickFits(picks[i], (turn - n) + (i - 1))
      BY <1>1 DEF PicksFit
    <3>2. pick \in [group : SUBSET Route, route : Route]
      BY <2>4, <2>5
    <3>3. PickFits(pick, turn)
      BY <2>4 DEF PickFits, Pick, initial
    <3>. HIDE DEF pick
    <3>4. /\ picks' \in Seq([group : SUBSET Route, route : Route])
          /\ Len(picks') = n + 1
          /\ \A i \in 1..n : picks'[i] = picks[i]
          /\ picks'[n + 1] = pick
      BY <2>1, <3>1, <3>2
    <3>. HIDE DEF n
    <3>5. n + 1 <= turn' /\ turn' - (n + 1) = turn - n
      BY <1>1, <2>1, <3>1
    <3>6. ASSUME NEW i \in 1..(n + 1)
          PROVE  PickFits(picks'[i], (turn - n) + (i - 1))
      <4>1. CASE i \in 1..n
        BY <3>1, <3>4, <4>1
      <4>2. CASE i = n + 1
        <5>1. (turn - n) + (i - 1) = turn
          BY <1>1, <3>1, <4>2
        <5>. QED
          BY <3>3, <3>4, <4>2, <5>1
      <4>. QED
        BY <3>1, <4>1, <4>2
    <3>. QED
      BY <3>4, <3>5, <3>6 DEF PicksFit, PickFits
  <2>15. turn' \in Nat
    BY <1>1, <2>1
  <2>. QED
    BY <1>1, <2>13, <2>14, <2>15 DEF IInv
<1>. QED
  BY <1>5, <1>6

LEMMA RunKeeps ==
  ASSUME IInv, NEW q \in Request, Run(q)
  PROVE  IInv'
<1>1. PICK result \in [SegmentOf(req[q]) -> Status] : RunSegment(q, result)
  BY DEF Run, Status
<1>2. PICK s, p : s = req[q] /\ p = past[q]
  OBVIOUS
<1>3. /\ req \in [Request -> Serving] /\ past \in [Request -> Seq(Trace)]
      /\ config \in Config /\ turn \in Nat /\ PicksFit
      /\ config' = config /\ UNCHANGED <<turn, picks>>
  BY <1>1 DEF IInv, RunSegment
<1>4. EndsSegment(s, p, result)
  BY <1>1, <1>2 DEF IInv, RunSegment, EndsSegment
<1>5. s.index \in 1..Len(s.attempts) /\ s.attempts \in Seq(Route)
  BY <1>4, RunningIsTyped DEF EndsSegment, Serving
<1>6. PICK ran : ran = Ran(s, result)
  OBVIOUS
<1>7. \E t, u : /\ RequestFits(t, u)
                /\ req' = [req EXCEPT ![q] = t] /\ past' = [past EXCEPT ![q] = u]
  <2>1. CASE AllFailed(result) /\ s.index < Len(s.attempts)
    <3>1. req' = [req EXCEPT ![q] = Fallback(ran)]
      BY <1>1, <1>2, <1>5, <1>6, <2>1 DEF RunSegment
    <3>2. past' = [past EXCEPT ![q] = Append(p, ran.trace)]
      BY <1>1, <1>2, <1>5, <1>6, <2>1 DEF RunSegment
    <3>3. RequestFits(Fallback(ran), Append(p, ran.trace))
      BY <1>4, <1>6, <2>1, FallbackFits
    <3>. QED
      BY <3>1, <3>2, <3>3
  <2>2. CASE AllFailed(result) /\ s.index = Len(s.attempts)
    <3>. DEFINE t == [ran EXCEPT !.phase = "route_failed", !.board = {}]
    <3>1. ~(s.index < Len(s.attempts))
      BY <1>5, <2>2
    <3>2. req' = [req EXCEPT ![q] = t] /\ past' = past
      BY <1>1, <1>2, <1>6, <2>2, <3>1 DEF RunSegment
    <3>3. past' = [past EXCEPT ![q] = p]
      BY <1>2, <1>3, <3>2
    <3>4. RequestFits(t, p)
      BY <1>4, <1>6, <2>2, FailedFits
    <3>. HIDE DEF t
    <3>. QED
      BY <3>2, <3>3, <3>4
  <2>3. CASE ~AllFailed(result)
    <3>. DEFINE t == IF Len(ran.trace) = Len(Segments[RouteOf(s)])
                     THEN [ran EXCEPT !.phase = "served"] ELSE ran
    <3>1. req' = [req EXCEPT ![q] = t] /\ past' = past
      BY <1>1, <1>2, <1>6, <2>3 DEF RunSegment
    <3>2. past' = [past EXCEPT ![q] = p]
      BY <1>2, <1>3, <3>1
    <3>3. RequestFits(t, p)
      BY <1>4, <1>6, GoneOnFits
    <3>. HIDE DEF t
    <3>. QED
      BY <3>1, <3>2, <3>3
  <2>4. s.index < Len(s.attempts) \/ s.index = Len(s.attempts)
    BY <1>5
  <2>. QED
    BY <2>1, <2>2, <2>3, <2>4
<1>8. PICK t, u : /\ RequestFits(t, u)
                  /\ req' = [req EXCEPT ![q] = t] /\ past' = [past EXCEPT ![q] = u]
  BY <1>7
<1>9. /\ req' \in [Request -> Serving] /\ past' \in [Request -> Seq(Trace)]
      /\ \A r \in Request : RequestFits(req[r], past[r])'
  BY <1>3, <1>8, RequestStepKeeps
<1>10. PicksFit'
  BY <1>3, PicksStay
<1>. QED
  BY <1>3, <1>9, <1>10 DEF IInv

LEMMA StepKeeps == IInv /\ [Next]_vars => IInv'
<1>. SUFFICES ASSUME IInv, [Next]_vars PROVE IInv'
  OBVIOUS
<1>1. ASSUME NEW q \in Request, NEW a \in Arrival, Receive(q, a.category, a.tier)
      PROVE  IInv'
  BY <1>1, ReceiveKeeps
<1>2. ASSUME NEW q \in Request, Run(q) PROVE IInv'
  BY <1>2, RunKeeps
<1>3. CASE UNCHANGED vars
  <2>1. config' = config /\ turn' = turn /\ req' = req /\ past' = past /\ picks' = picks
    BY <1>3 DEF vars
  <2>2. \A q \in Request : RequestFits(req[q], past[q])'
    <3>. TAKE q \in Request
    <3>1. PICK s, p : s = req[q] /\ p = past[q]
      OBVIOUS
    <3>2. RequestFits(s, p)'
      BY <2>1, <3>1, UntouchedFits DEF IInv
    <3>. QED
      BY <2>1, <3>1, <3>2
  <2>3. PicksFit'
    BY <2>1, PicksStay DEF IInv
  <2>. QED
    BY <2>1, <2>2, <2>3 DEF IInv
<1>. QED
  BY <1>1, <1>2, <1>3 DEF Next

\* Requests that are served at once do not disturb one another: each keeps to its
\* plan, its walk and its bill, and the counter to its picks.
THEOREM ServingIsGood == Spec => []IInv
<1>. QED
  BY InitIsGood, StepKeeps, PTL DEF Spec

----------------------------------------------------------------------------
(* What it gives *)

\* Ids, counters and traces stay what they are, and no request gets more attempts
\* than one and the fallbacks that the configuration allows.
THEOREM ServingIsTyped == Spec => []TypeOK
<1>1. IInv => TypeOK
  <2>. SUFFICES ASSUME IInv PROVE TypeOK
    OBVIOUS
  <2>1. ASSUME NEW q \in Request
        PROVE  LET s == req[q] IN
               /\ s.phase \in {"new", "running"} \cup Ended
               /\ s.attempts \in Seq(Route) /\ Len(s.attempts) <= config.max_fallbacks + 1
               /\ s.index \in 0..Len(s.attempts)
               /\ s.trace \in Trace
               /\ s.board \subseteq MadeBy(Tool)
               /\ s.cost \in Nat
    <3>1. PICK s, p : s = req[q] /\ p = past[q]
      OBVIOUS
    <3>2. s \in Serving /\ RequestFits(s, p) /\ config \in Config
      BY <3>1 DEF IInv
    <3>3. /\ s.phase \in {"new", "running"} \cup Ended /\ s.attempts \in Seq(Route)
          /\ s.trace \in Trace /\ s.board \subseteq MadeBy(Tool) /\ s.cost \in Nat
      BY <3>2 DEF Serving, Phase
    <3>4. Len(s.attempts) <= config.max_fallbacks + 1 /\ s.index \in 0..Len(s.attempts)
      <4>1. CASE s.phase \in Untried
        <5>1. s.attempts = <<>> /\ s.index = 0
          BY <3>2, <4>1 DEF RequestFits, Blank
        <5>2. config.max_fallbacks \in Nat
          BY <3>2, PriorityIsTyped
        <5>. QED
          BY <5>1, <5>2
      <4>2. CASE s.phase \notin Untried
        <5>1. /\ Len(s.attempts) \in 1..(config.max_fallbacks + 1)
              /\ s.index \in 1..Len(s.attempts)
          BY <3>2, <4>2 DEF RequestFits, PlanFits, WalksFit
        <5>. QED
          BY <5>1
      <4>. QED
        BY <4>1, <4>2
    <3>. QED
      BY <3>1, <3>3, <3>4
  <2>. QED
    BY <2>1 DEF TypeOK, IInv
<1>. QED
  BY <1>1, ServingIsGood, PTL

\* The order of one request's attempts.
LEMMA PlanTells ==
  ASSUME NEW s, NEW p, RequestFits(s, p)
  PROVE  /\ s.attempts # <<>> /\ Covering(s) # {} =>
              /\ Tried(s) \subseteq Covering(s)
              /\ \A r \in Covering(s) :
                   Distance(s, r) < Distance(s, RouteOf(s)) => r \in Tried(s)
         /\ Cardinality(Tried(s)) = s.index
         /\ s.phase = "route_failed" /\ Covering(s) # {} =>
              s.index = Min({config.max_fallbacks + 1, Cardinality(Covering(s))})
         /\ \A i \in DOMAIN p : AllFailed(p[i][Len(p[i])])
<1>1. CASE s.phase \in Untried
  <2>1. s.attempts = <<>> /\ s.index = 0 /\ p = <<>>
    BY <1>1 DEF RequestFits, Blank
  <2>2. Tried(s) = {}
    BY <2>1 DEF Tried
  <2>3. s.phase # "route_failed"
    BY <1>1 DEF Untried
  <2>. QED
    BY <2>1, <2>2, <2>3, FS_EmptySet
<1>2. CASE s.phase \notin Untried
  <2>. DEFINE n == s.index
              f == [i \in 1..n |-> s.attempts[i]]
  <2>1. PlanFits(s) /\ WalksFit(s, p) /\ p \in Seq(Trace)
    BY <1>2 DEF RequestFits
  <2>2. /\ n \in 1..Len(s.attempts) /\ s.attempts \in Seq(Route) /\ n \in Nat
        /\ 1..n \subseteq 1..Len(s.attempts)
    BY <2>1 DEF WalksFit, PlanFits
  <2>3. Cardinality(Tried(s)) = n
    <3>1. f \in [1..n -> Tried(s)] /\ \A t \in Tried(s) : \E i \in 1..n : f[i] = t
      BY DEF Tried
    <3>2. \A i, j \in 1..n : f[i] = f[j] => i = j
      BY <2>1, <2>2 DEF PlanFits
    <3>. HIDE DEF f
    <3>3. f \in Bijection(1..n, Tried(s))
      BY <3>1, <3>2 DEF Bijection, Injection, IsInjective, Surjection
    <3>4. ExistsBijection(1..n, Tried(s))
      BY <3>3 DEF ExistsBijection
    <3>5. IsFiniteSet(1..n) /\ Cardinality(1..n) = n
      BY <2>2, FS_Interval
    <3>. QED
      BY <3>4, <3>5, FS_Bijection
  <2>4. ASSUME Covering(s) # {}
        PROVE  /\ Tried(s) \subseteq Covering(s)
               /\ \A r \in Covering(s) :
                    Distance(s, r) < Distance(s, RouteOf(s)) => r \in Tried(s)
    <3>1. /\ s.attempts \in Seq(Covering(s))
          /\ \A i \in 1..Len(s.attempts), r \in Covering(s) :
               Distance(s, r) < Distance(s, s.attempts[i]) =>
                 \E j \in 1..(i - 1) : s.attempts[j] = r
      BY <2>1, <2>4 DEF PlanFits
    <3>2. \A i \in 1..Len(s.attempts) : s.attempts[i] \in Covering(s)
      BY <3>1
    <3>3. Tried(s) \subseteq Covering(s)
      BY <2>2, <3>2 DEF Tried
    <3>4. ASSUME NEW r \in Covering(s), Distance(s, r) < Distance(s, RouteOf(s))
          PROVE  r \in Tried(s)
      <4>1. PICK j \in 1..(n - 1) : s.attempts[j] = r
        BY <2>2, <3>1, <3>4 DEF RouteOf
      <4>2. j \in 1..n
        BY <2>2
      <4>. QED
        BY <4>1, <4>2 DEF Tried
    <3>. QED
      BY <3>3, <3>4
  <2>5. ASSUME s.phase = "route_failed", Covering(s) # {}
        PROVE  n = Min({config.max_fallbacks + 1, Cardinality(Covering(s))})
    <3>1. n = Len(s.attempts)
      BY <2>1, <2>5 DEF WalksFit
    <3>2. Len(s.attempts) = Min({config.max_fallbacks + 1, Cardinality(Covering(s))})
      BY <2>1, <2>5 DEF PlanFits
    <3>. QED
      BY <3>1, <3>2
  <2>6. \A i \in DOMAIN p : AllFailed(p[i][Len(p[i])])
    <3>1. DOMAIN p = 1..Len(p)
      BY <2>1
    <3>. QED
      BY <2>1, <3>1 DEF WalksFit
  <2>. QED
    BY <2>3, <2>4, <2>5, <2>6
<1>. QED
  BY <1>1, <1>2

\* The isolation of one request's attempts.
LEMMA WalksTell ==
  ASSUME NEW s, NEW p, RequestFits(s, p)
  PROVE  /\ \A i \in DOMAIN Append(p, s.trace) : Isolated(Append(p, s.trace)[i])
         /\ s.phase = "served" => s.board = Made(s.trace)
<1>1. p \in Seq(Trace) /\ s.trace \in Trace
  BY DEF RequestFits, Serving
<1>2. /\ DOMAIN Append(p, s.trace) = 1..(Len(p) + 1)
      /\ \A i \in 1..Len(p) : Append(p, s.trace)[i] = p[i]
      /\ Append(p, s.trace)[Len(p) + 1] = s.trace /\ Len(p) \in Nat
  BY <1>1
<1>3. CASE s.phase \in Untried
  <2>1. s.trace = <<>> /\ p = <<>> /\ s.phase # "served"
    BY <1>3 DEF RequestFits, Blank, Untried
  <2>2. Isolated(<<>>)
    BY DEF Isolated
  <2>3. \A i \in 1..(Len(p) + 1) : i = Len(p) + 1
    BY <2>1
  <2>. QED
    BY <1>2, <2>1, <2>2, <2>3
<1>4. CASE s.phase \notin Untried
  <2>1. WalksFit(s, p)
    BY <1>4 DEF RequestFits
  <2>2. /\ \A i \in 1..Len(p) : Isolated(p[i])
        /\ Isolated(s.trace)
        /\ s.phase = "served" => s.board = Made(s.trace)
    BY <2>1 DEF WalksFit, Walk
  <2>3. \A i \in 1..(Len(p) + 1) : i \in 1..Len(p) \/ i = Len(p) + 1
    BY <1>2
  <2>. QED
    BY <1>2, <2>2, <2>3
<1>. QED
  BY <1>3, <1>4

\* However many requests are served at once and however the picks of the others turn
\* the rotation: a request tries what it prefers first, nothing twice, gives up only
\* when its budget is spent or everything that covers it has failed, and no attempt
\* builds on what another one left.
THEOREM AttemptsAreSoundAlways == Spec => []AttemptsAreSound
<1>1. IInv => AttemptsAreSound
  <2>. SUFFICES ASSUME IInv PROVE AttemptsAreSound
    OBVIOUS
  <2>1. \A q \in Request : RequestFits(req[q], past[q])
    BY DEF IInv
  <2>2. PreferredFirst
    BY <2>1, PlanTells DEF PreferredFirst
  <2>3. GivesUpLast
    BY <2>1, PlanTells DEF GivesUpLast
  <2>4. AttemptsAreIsolated
    <3>. SUFFICES ASSUME NEW q \in Request
                  PROVE  /\ \A i \in DOMAIN AllTraces(q) : Isolated(AllTraces(q)[i])
                         /\ req[q].phase = "served" => req[q].board = Made(req[q].trace)
      BY DEF AttemptsAreIsolated, Isolated, Made
    <3>. QED
      BY <2>1, WalksTell DEF AllTraces
  <2>. QED
    BY <2>2, <2>3, <2>4 DEF AttemptsAreSound, AttemptsInOrder
<1>. QED
  BY <1>1, ServingIsGood, PTL

\* Numbers that are less than n apart leave different remainders.
LEMMA RemaindersDiffer ==
  ASSUME NEW a \in Nat, NEW d \in Nat, NEW n \in Nat \ {0}, 0 < d, d < n
  PROVE  a % n # (a + d) % n
<1>. DEFINE q == a \div n
            u == (a + d) \div n
<1>1. SUFFICES ASSUME a % n = (a + d) % n PROVE FALSE
  OBVIOUS
<1>2. a = n * q + (a % n) /\ q \in Nat /\ a % n \in Nat
  BY SMT
<1>3. a + d = n * u + ((a + d) % n) /\ u \in Nat
  BY SMT
<1>4. n * u = n * q + d
  <2>. HIDE DEF q, u
  <2>1. n * u \in Int /\ n * q \in Int
    BY <1>2, <1>3
  <2>. QED
    BY <1>1, <1>2, <1>3, <2>1
<1>. HIDE DEF q, u
<1>5. CASE u <= q
  <2>1. n * u <= n * q
    BY <1>2, <1>3, <1>5, SMT
  <2>2. n * u \in Int /\ n * q \in Int
    BY <1>2, <1>3
  <2>. QED
    BY <1>4, <2>1, <2>2
<1>6. CASE q + 1 <= u
  <2>1. n * (q + 1) <= n * u /\ n * (q + 1) = n * q + n
    BY <1>2, <1>3, <1>6, SMT
  <2>2. n * u \in Int /\ n * q \in Int
    BY <1>2, <1>3
  <2>. QED
    BY <1>4, <2>1, <2>2
<1>. QED
  BY <1>2, <1>3, <1>5, <1>6

\* The picks of all requests are spread over a group, whoever makes them.
THEOREM RotationSpreadsAlways == Spec => []RotationSpreads
<1>1. IInv => RotationSpreads
  <2>. SUFFICES ASSUME IInv, NEW i \in DOMAIN picks, NEW j \in DOMAIN picks,
                       i < j, j - i < Cardinality(picks[i].group),
                       \A k \in i..j : picks[k].group = picks[i].group
                PROVE  picks[i].route # picks[j].route
    BY DEF RotationSpreads
  <2>. DEFINE group == picks[i].group
              n     == Cardinality(group)
              a     == (turn - Len(picks)) + (i - 1)
              d     == j - i
  <2>1. /\ i \in 1..Len(picks) /\ j \in 1..Len(picks) /\ i \in Nat /\ j \in Nat
        /\ Len(picks) \in Nat /\ turn \in Nat /\ Len(picks) <= turn
    BY DEF IInv, PicksFit
  <2>2. /\ PickFits(picks[i], a)
        /\ PickFits(picks[j], (turn - Len(picks)) + (j - 1))
        /\ picks[j].group = group
    <3>1. \A k \in 1..Len(picks) : PickFits(picks[k], (turn - Len(picks)) + (k - 1))
      BY DEF IInv, PicksFit
    <3>2. j \in i..j
      BY <2>1
    <3>. QED
      BY <2>1, <3>1, <3>2
  <2>3. /\ a \in Nat /\ d \in Nat /\ 0 < d /\ d < n
        /\ (turn - Len(picks)) + (j - 1) = a + d
    <3>1. PICK l, c : l = Len(picks) /\ c = n
      OBVIOUS
    <3>2. l \in Nat /\ l <= turn /\ i \in 1..l /\ j \in 1..l /\ i < j /\ j - i < c
      BY <2>1, <3>1
    <3>. HIDE DEF n, group
    <3>. QED
      BY <2>1, <3>1, <3>2
  <2>4. group \in SUBSET Route /\ group # {}
    BY <2>2 DEF PickFits
  <2>5. group \in SUBSET Nat /\ IsFiniteSet(group)
    <3>1. IsFiniteSet(Route) /\ Route \subseteq Nat
      BY OnlineAssumption
    <3>2. IsFiniteSet(group)
      BY <2>4, <3>1, FS_Subset
    <3>. QED
      BY <2>4, <3>1, <3>2
  <2>6. n \in Nat \ {0}
    BY <2>4, <2>5, FS_CardinalityType, FS_EmptySet
  <2>. HIDE DEF a
  <2>7. picks[i].route = Nth(group, (a % n) + 1)
        /\ picks[j].route = Nth(group, ((a + d) % n) + 1)
    BY <2>2, <2>3 DEF PickFits
  <2>. HIDE DEF group, n, d
  <2>8. a % n # (a + d) % n
    BY <2>3, <2>6, RemaindersDiffer
  <2>9. a % n \in 0..(n - 1) /\ (a + d) % n \in 0..(n - 1)
    <3>1. a + d \in Nat
      BY <2>3
    <3>. QED
      BY <2>3, <2>6, <3>1, RemainderIsSmall
  <2>10. PICK x, y : x = a % n /\ y = (a + d) % n
    OBVIOUS
  <2>11. x + 1 \in 1..n /\ y + 1 \in 1..n /\ (x + 1 < y + 1 \/ y + 1 < x + 1)
    BY <2>6, <2>8, <2>9, <2>10
  <2>12. Nth(group, x + 1) < Nth(group, y + 1) \/ Nth(group, y + 1) < Nth(group, x + 1)
    BY <2>5, <2>11, NthOfNumbers DEF n
  <2>13. Nth(group, x + 1) \in Nat /\ Nth(group, y + 1) \in Nat
    BY <2>5, <2>11, NthOfNumbers DEF n
  <2>14. Nth(group, x + 1) # Nth(group, y + 1)
    BY <2>12, <2>13
  <2>. QED
    BY <2>7, <2>10, <2>14
<1>. QED
  BY <1>1, ServingIsGood, PTL

----------------------------------------------------------------------------
(* Sums *)

\* Among sets of elements of a finite set some have no smaller one in them.
LEMMA SmallestSet ==
  ASSUME NEW S, IsFiniteSet(S), NEW F \in SUBSET (SUBSET S), F # {}
  PROVE  \E T \in F : IsFiniteSet(T) /\ \A U \in SUBSET T : U # T => U \notin F
<1>. DEFINE sizes == {Cardinality(T) : T \in F}
<1>1. \A T \in F : IsFiniteSet(T) /\ Cardinality(T) \in Nat
  BY FS_Subset, FS_CardinalityType
<1>2. sizes \in SUBSET Nat /\ sizes # {}
  BY <1>1
<1>3. PICK n \in sizes : \A m \in sizes : n <= m
  BY <1>2, LeastElement
<1>4. PICK T \in F : Cardinality(T) = n
  BY <1>3
<1>5. ASSUME NEW U \in SUBSET T, U # T, U \in F PROVE FALSE
  <2>1. IsFiniteSet(T) /\ Cardinality(U) <= Cardinality(T)
        /\ Cardinality(U) # Cardinality(T)
    BY <1>1, <1>5, FS_Subset
  <2>2. n <= Cardinality(U)
    BY <1>3, <1>5
  <2>3. Cardinality(U) \in Nat /\ Cardinality(T) \in Nat
    BY <1>1, <1>5
  <2>. QED
    BY <1>4, <2>1, <2>2, <2>3
<1>. QED
  BY <1>1, <1>4, <1>5

Any(T) == CHOOSE x \in T : TRUE

\* g sums f over every part of S, element after element.
Sums(g, f, S) ==
  g = [T \in SUBSET S |-> IF T = {} THEN 0 ELSE f[Any(T)] + g[T \ {Any(T)}]]

LEMMA AnyIsElement ==
  ASSUME NEW T, T # {}
  PROVE  Any(T) \in T
BY DEF Any

LEMMA SumsExist ==
  ASSUME NEW S, IsFiniteSet(S), NEW f \in [S -> Nat]
  PROVE  \E g \in [SUBSET S -> Nat] : Sums(g, f, S)
<1>. DEFINE Goes(g, T) == g[T] = IF T = {} THEN 0 ELSE f[Any(T)] + g[T \ {Any(T)}]
            small(m) == {T \in SUBSET S : Cardinality(T) <= m}
            upto(m) == {g \in [small(m) -> Nat] : \A T \in small(m) : Goes(g, T)}
            bad == {m \in Nat : upto(m) = {}}
            n == Cardinality(S)
<1>1. \A T \in SUBSET S : IsFiniteSet(T) /\ Cardinality(T) \in Nat /\ Cardinality(T) <= n
  BY FS_Subset, FS_CardinalityType
<1>2. n \in Nat
  BY FS_CardinalityType
<1>3. 0 \notin bad
  <2>1. small(0) = {{}}
    <3>1. \A T \in SUBSET S : Cardinality(T) <= 0 <=> T = {}
      BY <1>1, FS_EmptySet
    <3>. QED
      BY <3>1
  <2>. DEFINE g == [T \in small(0) |-> 0]
  <2>2. g \in [small(0) -> Nat] /\ \A T \in small(0) : Goes(g, T)
    <3>1. \A T \in small(0) : T = {} /\ g[T] = 0
      BY <2>1
    <3>. HIDE DEF small, g
    <3>2. \A T \in small(0) : Goes(g, T)
      BY <3>1
    <3>. QED
      BY <3>2 DEF g
  <2>. HIDE DEF small, g, Goes
  <2>. QED
    BY <2>2
<1>. HIDE DEF upto
<1>4. bad = {}
  <2>1. SUFFICES ASSUME bad # {} PROVE FALSE
    OBVIOUS
  <2>2. PICK m \in bad : \A k \in bad : m <= k
    <3>1. bad \in SUBSET Nat
      OBVIOUS
    <3>. HIDE DEF bad
    <3>. QED
      BY <2>1, <3>1, LeastElement
  <2>3. m \in Nat /\ m # 0 /\ m - 1 \in Nat /\ m - 1 \notin bad
    BY <1>3, <2>2
  <2>4. PICK h \in upto(m - 1) : TRUE
    BY <2>3
  <2>5. h \in [small(m - 1) -> Nat] /\ \A T \in small(m - 1) : Goes(h, T)
    BY <2>4 DEF upto
  <2>. DEFINE g == [T \in small(m) |->
                      IF T \in small(m - 1) THEN h[T] ELSE f[Any(T)] + h[T \ {Any(T)}]]
  <2>6. ASSUME NEW T \in small(m), T # {}
        PROVE  T \ {Any(T)} \in small(m - 1) /\ f[Any(T)] \in Nat
    <3>1. Any(T) \in T /\ Any(T) \in S /\ IsFiniteSet(T) /\ Cardinality(T) \in Nat
          /\ Cardinality(T) <= m
      BY <1>1, <2>6, AnyIsElement
    <3>2. Cardinality(T \ {Any(T)}) = Cardinality(T) - 1
      BY <3>1, FS_RemoveElement
    <3>3. Cardinality(T \ {Any(T)}) <= m - 1
      BY <2>3, <3>1, <3>2
    <3>. QED
      BY <3>1, <3>3
  <2>7. {} \in small(m - 1)
    BY <2>3, FS_EmptySet
  <2>8. small(m - 1) \in SUBSET small(m)
    <3>. SUFFICES ASSUME NEW T \in SUBSET S, Cardinality(T) <= m - 1
                  PROVE  Cardinality(T) <= m
      OBVIOUS
    <3>. QED
      BY <1>1, <2>3
  <2>. HIDE DEF small
  <2>9. ASSUME NEW T \in small(m)
        PROVE  g[T] \in Nat /\ Goes(g, T)
    <3>1. CASE T = {}
      <4>1. g[T] = h[T] /\ Goes(h, T)
        BY <2>5, <2>7, <3>1
      <4>. QED
        BY <3>1, <4>1
    <3>2. CASE T # {}
      <4>1. T \ {Any(T)} \in small(m - 1) /\ f[Any(T)] \in Nat
        BY <2>6, <3>2
      <4>2. g[T \ {Any(T)}] = h[T \ {Any(T)}] /\ h[T \ {Any(T)}] \in Nat
        BY <2>5, <2>8, <4>1
      <4>3. g[T] = f[Any(T)] + h[T \ {Any(T)}]
        <5>1. CASE T \in small(m - 1)
          <6>1. Goes(h, T)
            BY <2>5, <5>1
          <6>. QED
            BY <3>2, <5>1, <6>1
        <5>2. CASE T \notin small(m - 1)
          BY <5>2
        <5>. QED
          BY <5>1, <5>2
      <4>. HIDE DEF g
      <4>. QED
        BY <3>2, <4>1, <4>2, <4>3
    <3>. QED
      BY <3>1, <3>2
  <2>10. g \in [small(m) -> Nat] /\ \A T \in small(m) : Goes(g, T)
    BY <2>9
  <2>. HIDE DEF g, Goes
  <2>11. g \in upto(m)
    BY <2>10 DEF upto
  <2>. QED
    BY <2>2, <2>11
<1>5. PICK g \in upto(n) : TRUE
  BY <1>2, <1>4
<1>6. small(n) = SUBSET S
  BY <1>1
<1>. HIDE DEF small
<1>7. g \in [SUBSET S -> Nat] /\ \A T \in SUBSET S : Goes(g, T)
  BY <1>5, <1>6 DEF upto
<1>8. g = [T \in SUBSET S |-> IF T = {} THEN 0 ELSE f[Any(T)] + g[T \ {Any(T)}]]
  BY <1>7
<1>. QED
  BY <1>7, <1>8 DEF Sums

\* What is summed over a part does not depend on the whole.
LEMMA SumsAgree ==
  ASSUME NEW S, IsFiniteSet(S), NEW f, NEW g, Sums(g, f, S),
         NEW T \in SUBSET S, NEW f1, NEW g1, Sums(g1, f1, T),
         \A x \in T : f1[x] = f[x]
  PROVE  g1[T] = g[T]
<1>. DEFINE bad == {U \in SUBSET T : g1[U] # g[U]}
<1>1. SUFFICES ASSUME bad # {} PROVE FALSE
  OBVIOUS
<1>2. bad \in SUBSET (SUBSET S)
  OBVIOUS
<1>3. PICK U \in bad : IsFiniteSet(U) /\ \A V \in SUBSET U : V # U => V \notin bad
  <2>. HIDE DEF bad
  <2>. QED
    BY <1>1, <1>2, SmallestSet
<1>4. U \in SUBSET T /\ U \in SUBSET S
  OBVIOUS
<1>5. /\ g[U] = IF U = {} THEN 0 ELSE f[Any(U)] + g[U \ {Any(U)}]
      /\ g1[U] = IF U = {} THEN 0 ELSE f1[Any(U)] + g1[U \ {Any(U)}]
  BY <1>4 DEF Sums
<1>6. U # {}
  BY <1>3, <1>5
<1>7. Any(U) \in U
  BY <1>6, AnyIsElement
<1>8. g1[U \ {Any(U)}] = g[U \ {Any(U)}]
  BY <1>3, <1>4, <1>7
<1>9. f1[Any(U)] = f[Any(U)]
  BY <1>4, <1>7
<1>. QED
  BY <1>3, <1>5, <1>6, <1>8, <1>9

\* The sum of the community modules is that one.
LEMMA SumFunctionSums ==
  ASSUME NEW S, IsFiniteSet(S), NEW f \in [S -> Nat], NEW g, Sums(g, f, S),
         NEW T \in SUBSET S, NEW f1 \in [T -> Nat], \A x \in T : f1[x] = f[x]
  PROVE  SumFunction(f1) = g[T]
<1>. DEFINE it == CHOOSE iter : iter = [s \in SUBSET T |->
                    IF s = {} THEN 0
                    ELSE f1[CHOOSE x \in s : TRUE] + iter[s \ {CHOOSE x \in s : TRUE}]]
<1>1. DOMAIN f1 = T
  OBVIOUS
<1>2. SumFunction(f1) = it[T]
  BY <1>1 DEF SumFunction, SumFunctionOnSet, FoldFunctionOnSet, MapThenFoldSet
<1>3. IsFiniteSet(T)
  BY FS_Subset
<1>4. PICK h \in [SUBSET T -> Nat] : Sums(h, f1, T)
  BY <1>3, SumsExist
<1>5. it = CHOOSE iter : Sums(iter, f1, T)
  BY DEF Sums, Any
<1>. HIDE DEF it
<1>6. Sums(it, f1, T)
  BY <1>4, <1>5
<1>. QED
  BY <1>2, <1>6, SumsAgree

TakesOut(g, f, S) == \A T \in SUBSET S : \A x \in T : g[T] = f[x] + g[T \ {x}]

\* In whatever order: any element can be taken out.
LEMMA SumsTakeOut ==
  ASSUME NEW S, IsFiniteSet(S), NEW f \in [S -> Nat],
         NEW g \in [SUBSET S -> Nat], Sums(g, f, S)
  PROVE  TakesOut(g, f, S)
<1>. DEFINE bad == {T \in SUBSET S : ~ \A x \in T : g[T] = f[x] + g[T \ {x}]}
<1>1. SUFFICES ASSUME bad # {} PROVE FALSE
  BY DEF TakesOut
<1>2. PICK T \in bad : IsFiniteSet(T) /\ \A V \in SUBSET T : V # T => V \notin bad
  <2>1. bad \in SUBSET (SUBSET S)
    OBVIOUS
  <2>. HIDE DEF bad
  <2>. QED
    BY <1>1, <2>1, SmallestSet
<1>3. PICK x \in T : g[T] # f[x] + g[T \ {x}]
  BY <1>2
<1>. DEFINE c == Any(T)
<1>4. T \in SUBSET S /\ T # {} /\ x \in S
  BY <1>2, <1>3
<1>5. c \in T /\ c \in S
  BY <1>4, AnyIsElement
<1>6. g[T] = f[c] + g[T \ {c}]
  BY <1>4 DEF Sums
<1>7. c # x
  BY <1>3, <1>6
<1>. HIDE DEF c
<1>8. T \ {c} \notin bad /\ T \ {x} \notin bad
  BY <1>2, <1>3, <1>4, <1>5
<1>9. g[T \ {c}] = f[x] + g[(T \ {c}) \ {x}]
  BY <1>4, <1>7, <1>8
<1>10. g[T \ {x}] = f[c] + g[(T \ {x}) \ {c}]
  BY <1>4, <1>5, <1>7, <1>8
<1>11. (T \ {c}) \ {x} = (T \ {x}) \ {c} /\ (T \ {c}) \ {x} \in SUBSET S
  BY <1>4
<1>12. PICK n \in Nat, i \in Nat, j \in Nat :
         n = g[(T \ {c}) \ {x}] /\ i = f[x] /\ j = f[c]
  BY <1>4, <1>5, <1>11
<1>13. g[T] = j + (i + n)
  BY <1>6, <1>9, <1>12
<1>14. f[x] + g[T \ {x}] = i + (j + n)
  BY <1>10, <1>11, <1>12
<1>. QED
  BY <1>3, <1>13, <1>14, <1>12

\* f on a part of its domain
Part(f, T) == [x \in T |-> f[x]]

\* A sum is a number, nothing for nothing, and any element can be taken out of it.
LEMMA SumLaws ==
  ASSUME NEW S, IsFiniteSet(S), NEW f \in [S -> Nat]
  PROVE  /\ SumFunction(f) \in Nat
         /\ SumFunction(Part(f, {})) = 0
         /\ \A T \in SUBSET S : SumFunction(Part(f, T)) \in Nat
         /\ \A T \in SUBSET S : \A x \in T :
              SumFunction(Part(f, T)) = f[x] + SumFunction(Part(f, T \ {x}))
         /\ Part(f, S) = f
<1>0. {} \in SUBSET S /\ S \in SUBSET S
  OBVIOUS
<1>1. PICK g \in [SUBSET S -> Nat] : Sums(g, f, S)
  BY SumsExist
<1>2. \A T \in SUBSET S : SumFunction(Part(f, T)) = g[T]
  <2>. TAKE T \in SUBSET S
  <2>1. Part(f, T) \in [T -> Nat] /\ \A x \in T : Part(f, T)[x] = f[x]
    BY DEF Part
  <2>. QED
    BY <1>1, <2>1, SumFunctionSums
<1>3. Part(f, S) = f
  BY DEF Part
<1>4. g[{}] = 0
  BY <1>0, <1>1 DEF Sums
<1>5. TakesOut(g, f, S)
  BY <1>1, SumsTakeOut
<1>6. \A T \in SUBSET S : \A x \in T :
        SumFunction(Part(f, T)) = f[x] + SumFunction(Part(f, T \ {x}))
  <2>. TAKE T \in SUBSET S
  <2>. TAKE x \in T
  <2>1. T \ {x} \in SUBSET S
    OBVIOUS
  <2>. QED
    BY <1>2, <1>5, <2>1 DEF TakesOut
<1>. QED
  BY <1>0, <1>1, <1>2, <1>3, <1>4, <1>6

\* What is zero does not count.
LEMMA SumOfSupport ==
  ASSUME NEW S, IsFiniteSet(S), NEW f \in [S -> Nat], NEW U \in SUBSET S,
         \A x \in S \ U : f[x] = 0
  PROVE  SumFunction(f) = SumFunction(Part(f, U))
<1>. DEFINE sum(T) == SumFunction(Part(f, T))
            bad == {T \in SUBSET S : U \subseteq T /\ sum(T) # sum(U)}
<1>1. /\ \A T \in SUBSET S : sum(T) \in Nat
      /\ \A T \in SUBSET S : \A x \in T : sum(T) = f[x] + sum(T \ {x})
      /\ sum(S) = SumFunction(f)
  BY SumLaws
<1>. HIDE DEF sum
<1>2. bad = {}
  <2>1. SUFFICES ASSUME bad # {} PROVE FALSE
    OBVIOUS
  <2>2. PICK T \in bad : IsFiniteSet(T) /\ \A V \in SUBSET T : V # T => V \notin bad
    <3>1. bad \in SUBSET (SUBSET S)
      OBVIOUS
    <3>. HIDE DEF bad
    <3>. QED
      BY <2>1, <3>1, SmallestSet
  <2>3. PICK x \in T : x \notin U
    <3>1. T \in SUBSET S /\ U \subseteq T /\ sum(T) # sum(U)
      BY <2>2
    <3>2. T # U
      BY <3>1
    <3>. QED
      BY <3>1, <3>2
  <2>4. x \in S \ U /\ T \in SUBSET S /\ T \ {x} \in SUBSET S
    BY <2>2, <2>3
  <2>5. sum(T) = f[x] + sum(T \ {x}) /\ f[x] = 0 /\ sum(T \ {x}) \in Nat
    BY <1>1, <2>3, <2>4
  <2>6. sum(T \ {x}) = sum(U)
    <3>1. T \ {x} \notin bad /\ U \subseteq T \ {x}
      BY <2>2, <2>3
    <3>. QED
      BY <2>4, <3>1
  <2>. QED
    BY <2>2, <2>5, <2>6
<1>3. sum(S) = sum(U)
  BY <1>2
<1>. QED
  BY <1>1, <1>3 DEF sum

\* As many as there are.
LEMMA SumOfOnes ==
  ASSUME NEW S, IsFiniteSet(S)
  PROVE  SumFunction([x \in S |-> 1]) = Cardinality(S)
<1>. DEFINE f == [x \in S |-> 1]
            sum(T) == SumFunction(Part(f, T))
            bad == {T \in SUBSET S : sum(T) # Cardinality(T)}
<1>1. f \in [S -> Nat] /\ \A x \in S : f[x] = 1
  OBVIOUS
<1>. HIDE DEF f
<1>2. /\ \A T \in SUBSET S : \A x \in T : sum(T) = f[x] + sum(T \ {x})
      /\ sum(S) = SumFunction(f) /\ sum({}) = 0
  BY <1>1, SumLaws
<1>. HIDE DEF sum
<1>3. bad = {}
  <2>1. SUFFICES ASSUME bad # {} PROVE FALSE
    OBVIOUS
  <2>2. PICK T \in bad : IsFiniteSet(T) /\ \A V \in SUBSET T : V # T => V \notin bad
    <3>1. bad \in SUBSET (SUBSET S)
      OBVIOUS
    <3>. HIDE DEF bad
    <3>. QED
      BY <2>1, <3>1, SmallestSet
  <2>3. T # {}
    BY <1>2, <2>2, FS_EmptySet
  <2>4. PICK x \in T : TRUE
    BY <2>3
  <2>5. T \in SUBSET S /\ x \in S /\ T \ {x} \in SUBSET S /\ T \ {x} \notin bad
    BY <2>2, <2>4
  <2>6. sum(T) = 1 + sum(T \ {x}) /\ sum(T \ {x}) = Cardinality(T \ {x})
    BY <1>1, <1>2, <2>4, <2>5
  <2>7. Cardinality(T \ {x}) = Cardinality(T) - 1 /\ Cardinality(T) \in Nat
    BY <2>2, <2>4, FS_RemoveElement, FS_CardinalityType
  <2>. QED
    BY <2>2, <2>6, <2>7
<1>4. sum(S) = Cardinality(S)
  BY <1>3
<1>. QED
  BY <1>2, <1>4 DEF f

\* The elements of T that h sends to d.
Fibre(h, T, d) == {x \in T : h[x] = d}

\* What is summed by parts is summed.
LEMMA SumOfFibres ==
  ASSUME NEW S, IsFiniteSet(S), NEW D, IsFiniteSet(D), NEW h \in [S -> D],
         NEW f \in [S -> Nat]
  PROVE  SumFunction([d \in D |-> SumFunction(Part(f, Fibre(h, S, d)))]) = SumFunction(f)
<1>. DEFINE sum(T)  == SumFunction(Part(f, T))
            F(T) == [d \in D |-> sum(Fibre(h, T, d))]
            bad == {T \in SUBSET S : SumFunction(F(T)) # sum(T)}
<1>1. /\ \A T \in SUBSET S : sum(T) \in Nat
      /\ \A T \in SUBSET S : \A x \in T : sum(T) = f[x] + sum(T \ {x})
      /\ sum(S) = SumFunction(f) /\ sum({}) = 0
  BY SumLaws
<1>. HIDE DEF sum
<1>2. ASSUME NEW T \in SUBSET S, NEW d \in D PROVE Fibre(h, T, d) \in SUBSET S
  BY DEF Fibre
<1>3. ASSUME NEW T \in SUBSET S
      PROVE  F(T) \in [D -> Nat]
  BY <1>1, <1>2
<1>4. bad = {}
  <2>1. SUFFICES ASSUME bad # {} PROVE FALSE
    OBVIOUS
  <2>2. PICK T \in bad : IsFiniteSet(T) /\ \A V \in SUBSET T : V # T => V \notin bad
    <3>1. bad \in SUBSET (SUBSET S)
      OBVIOUS
    <3>. HIDE DEF bad
    <3>. QED
      BY <2>1, <3>1, SmallestSet
  <2>3. T \in SUBSET S /\ SumFunction(F(T)) # sum(T)
    BY <2>2
  <2>4. CASE T = {}
    <3>. DEFINE zero == F(T)
    <3>1. \A d \in D : zero[d] = 0
      BY <1>1, <2>4 DEF Fibre
    <3>2. zero \in [D -> Nat]
      BY <1>3, <2>3
    <3>. HIDE DEF zero
    <3>3. SumFunction(zero) = SumFunction(Part(zero, {}))
      BY <3>1, <3>2, SumOfSupport
    <3>4. SumFunction(Part(zero, {})) = 0
      BY <3>2, SumLaws
    <3>. QED
      BY <1>1, <2>3, <2>4, <3>3, <3>4 DEF zero
  <2>5. CASE T # {}
    <3>1. PICK x \in T : TRUE
      BY <2>5
    <3>. DEFINE V == T \ {x}
                c == h[x]
                new == F(T)
                old == F(V)
    <3>2. x \in S /\ c \in D /\ V \in SUBSET S /\ V \notin bad /\ f[x] \in Nat
      BY <2>2, <2>3, <3>1
    <3>3. sum(T) = f[x] + sum(V)
      BY <1>1, <2>3, <3>1
    <3>4. SumFunction(old) = sum(V)
      BY <3>2
    <3>5. new \in [D -> Nat] /\ old \in [D -> Nat]
      BY <1>3, <2>3, <3>2
    <3>6. Fibre(h, V, c) = Fibre(h, T, c) \ {x} /\ x \in Fibre(h, T, c)
      BY <3>1 DEF Fibre
    <3>7. new[c] = f[x] + old[c]
      <4>1. sum(Fibre(h, T, c)) = f[x] + sum(Fibre(h, T, c) \ {x})
        BY <1>1, <1>2, <2>3, <3>2, <3>6
      <4>. QED
        BY <3>2, <3>6, <4>1
    <3>8. \A d \in D \ {c} : new[d] = old[d]
      <4>1. \A d \in D \ {c} : Fibre(h, T, d) = Fibre(h, V, d)
        BY DEF Fibre
      <4>. QED
        BY <4>1
    <3>. HIDE DEF new, old, V, c
    <3>9. Part(new, D \ {c}) = Part(old, D \ {c})
      BY <3>8 DEF Part
    <3>10. /\ SumFunction(new) = new[c] + SumFunction(Part(new, D \ {c}))
           /\ SumFunction(old) = old[c] + SumFunction(Part(old, D \ {c}))
           /\ SumFunction(Part(old, D \ {c})) \in Nat
      <4>1. D \in SUBSET D /\ D \ {c} \in SUBSET D
        OBVIOUS
      <4>2. /\ Part(new, D) = new /\ Part(old, D) = old
            /\ SumFunction(Part(new, D)) = new[c] + SumFunction(Part(new, D \ {c}))
            /\ SumFunction(Part(old, D)) = old[c] + SumFunction(Part(old, D \ {c}))
            /\ SumFunction(Part(old, D \ {c})) \in Nat
        BY <3>2, <3>5, <4>1, SumLaws
      <4>. QED
        BY <4>2
    <3>11. old[c] \in Nat /\ new[c] \in Nat
      BY <3>2, <3>5
    <3>12. SumFunction(new) = f[x] + SumFunction(old)
      BY <3>2, <3>7, <3>9, <3>10, <3>11
    <3>. QED
      BY <2>3, <3>3, <3>4, <3>12 DEF new
  <2>. QED
    BY <2>4, <2>5
<1>5. SumFunction(F(S)) = sum(S)
  BY <1>4
<1>. QED
  BY <1>1, <1>5 DEF sum

----------------------------------------------------------------------------
(* Bills, trials and statistics *)

\* What goes back of one request to the offline analysis.
TrialTells(s, p) ==
  s.phase \in Ended \ {"no_candidate"} =>
    LET trial == TrialOf(s) IN
    /\ trial.status = "completed" => trial.route = Segments[RouteOf(s)]
    /\ trial.status = "layer_error" =>
         /\ trial.route = SubSeq(Segments[RouteOf(s)], 1, Len(trial.route))
         /\ AllFailed(s.trace[Len(s.trace)])
    /\ Len(s.steps) = Len(p)
    /\ s.steps # <<>> => s.steps[Len(s.steps)][2] = RouteOf(s)
    /\ \A i \in 2..Len(s.steps) : s.steps[i][1] = s.steps[i - 1][2]
    /\ s.steps = <<>> => trial.cost = Cardinality(CallsIn(<<s.trace>>))

Named(trace) == [k \in DOMAIN trace |-> DOMAIN trace[k]]

\* A trace names the segments that were run.
LEMMA TraceNamesSegments ==
  ASSUME NEW r \in Route, NEW trace, Walk(trace, r)
  PROVE  /\ Len(Named(trace)) = Len(trace)
         /\ Named(trace) = SubSeq(Segments[r], 1, Len(trace))
         /\ Len(trace) = Len(Segments[r]) => Named(trace) = Segments[r]
<1>. DEFINE n == Len(trace)
<1>1. /\ n \in Nat /\ DOMAIN trace = 1..n /\ n <= Len(Segments[r])
      /\ \A k \in 1..n : DOMAIN trace[k] = Segments[r][k]
  BY DEF Walk, Trace
<1>2. Segments[r] \in Seq(SUBSET Tool)
  BY OnlineAssumption
<1>3. Named(trace) = [k \in 1..n |-> Segments[r][k]]
  BY <1>1 DEF Named
<1>. HIDE DEF n
<1>4. [k \in 1..n |-> Segments[r][k]] = SubSeq(Segments[r], 1, n)
  BY <1>1, <1>2
<1>5. Len([k \in 1..n |-> Segments[r][k]]) = n
  BY <1>1, <1>2
<1>6. n = Len(Segments[r]) => [k \in 1..n |-> Segments[r][k]] = Segments[r]
  BY <1>2
<1>. QED
  BY <1>3, <1>4, <1>5, <1>6 DEF n

LEMMA TrialsTell ==
  ASSUME NEW s, NEW p, RequestFits(s, p)
  PROVE  TrialTells(s, p)
<1>. SUFFICES ASSUME s.phase \in Ended \ {"no_candidate"} PROVE TrialTells(s, p)
  BY DEF TrialTells
<1>. DEFINE n == s.index
            trial == TrialOf(s)
<1>1. s.phase \notin Untried /\ s.phase \in {"served", "route_failed"}
  BY DEF Untried, Ended
<1>2. WalksFit(s, p) /\ PlanFits(s) /\ s \in Serving /\ p \in Seq(Trace)
  BY <1>1 DEF RequestFits
<1>3. /\ n \in 1..Len(s.attempts) /\ n \in Nat /\ RouteOf(s) \in Route
      /\ s.steps \in Seq(Route \X Route) /\ s.trace \in Trace
      /\ Walk(s.trace, RouteOf(s)) /\ Len(s.steps) = n - 1 /\ Len(p) = n - 1
      /\ \A i \in 1..(n - 1) : s.steps[i] = <<s.attempts[i], s.attempts[i + 1]>>
  BY <1>2 DEF WalksFit, Serving, RouteOf
<1>4. /\ trial.route = Named(s.trace)
      /\ trial.cost = s.cost
      /\ trial.status = "completed" => s.phase = "served"
      /\ trial.status = "layer_error" => s.phase = "route_failed"
  BY <1>1 DEF TrialOf, Named
<1>5. /\ Len(trial.route) = Len(s.trace)
      /\ trial.route = SubSeq(Segments[RouteOf(s)], 1, Len(s.trace))
      /\ Len(s.trace) = Len(Segments[RouteOf(s)]) => trial.route = Segments[RouteOf(s)]
  BY <1>3, <1>4, TraceNamesSegments
<1>. HIDE DEF trial
<1>6. trial.status = "completed" => trial.route = Segments[RouteOf(s)]
  BY <1>2, <1>4, <1>5 DEF WalksFit
<1>7. trial.status = "layer_error" =>
        /\ trial.route = SubSeq(Segments[RouteOf(s)], 1, Len(trial.route))
        /\ AllFailed(s.trace[Len(s.trace)])
  BY <1>2, <1>4, <1>5 DEF WalksFit
<1>8. s.steps # <<>> => s.steps[Len(s.steps)][2] = RouteOf(s)
  <2>. SUFFICES ASSUME s.steps # <<>> PROVE s.steps[Len(s.steps)][2] = RouteOf(s)
    OBVIOUS
  <2>1. n - 1 \in 1..(n - 1)
    BY <1>3
  <2>2. s.steps[n - 1] = <<s.attempts[n - 1], s.attempts[(n - 1) + 1]>>
    BY <1>3, <2>1
  <2>3. (n - 1) + 1 = n
    BY <1>3
  <2>. QED
    BY <1>3, <2>2, <2>3 DEF RouteOf
<1>9. \A i \in 2..Len(s.steps) : s.steps[i][1] = s.steps[i - 1][2]
  <2>. TAKE i \in 2..Len(s.steps)
  <2>1. i \in 1..(n - 1) /\ i - 1 \in 1..(n - 1) /\ (i - 1) + 1 = i
    BY <1>3
  <2>. QED
    BY <1>3, <2>1
<1>10. s.steps = <<>> => trial.cost = Cardinality(CallsIn(<<s.trace>>))
  <2>. SUFFICES ASSUME s.steps = <<>> PROVE s.cost = Cardinality(CallsIn(<<s.trace>>))
    BY <1>4
  <2>1. p = <<>>
    BY <1>2, <1>3
  <2>2. Append(p, s.trace) = <<s.trace>>
    BY <2>1
  <2>. QED
    BY <2>2 DEF RequestFits
<1>. QED
  BY <1>3, <1>6, <1>7, <1>8, <1>9, <1>10 DEF TrialTells, trial

\* What is counted and summed route by route is counted and summed.
LEMMA CountedByRoute ==
  ASSUME NEW A, IsFiniteSet(A), NEW T \in SUBSET A, NEW h \in [T -> Route],
         NEW cost \in [A -> Nat], \A q \in A \ T : cost[q] = 0
  PROVE  /\ SumFunction([r \in Route |-> Cardinality(Fibre(h, T, r))]) = Cardinality(T)
         /\ SumFunction([r \in Route |-> SumFunction(Part(cost, Fibre(h, T, r)))])
              = SumFunction(cost)
<1>1. IsFiniteSet(T) /\ IsFiniteSet(Route)
  BY FS_Subset, OnlineAssumption
<1>2. \A r \in Route : Fibre(h, T, r) \in SUBSET T
  BY DEF Fibre
<1>3. SumFunction([r \in Route |-> Cardinality(Fibre(h, T, r))]) = Cardinality(T)
  <2>. DEFINE ones == [q \in T |-> 1]
  <2>1. ones \in [T -> Nat]
    OBVIOUS
  <2>2. \A r \in Route : SumFunction(Part(ones, Fibre(h, T, r))) = Cardinality(Fibre(h, T, r))
    <3>. TAKE r \in Route
    <3>1. IsFiniteSet(Fibre(h, T, r))
      BY <1>1, <1>2, FS_Subset
    <3>2. Part(ones, Fibre(h, T, r)) = [q \in Fibre(h, T, r) |-> 1]
      BY <1>2 DEF Part
    <3>. QED
      BY <3>1, <3>2, SumOfOnes
  <2>3. SumFunction(ones) = Cardinality(T)
    BY <1>1, SumOfOnes
  <2>. HIDE DEF ones
  <2>4. SumFunction([r \in Route |-> SumFunction(Part(ones, Fibre(h, T, r)))]) = SumFunction(ones)
    BY <1>1, <2>1, SumOfFibres
  <2>5. [r \in Route |-> SumFunction(Part(ones, Fibre(h, T, r)))]
          = [r \in Route |-> Cardinality(Fibre(h, T, r))]
    BY <2>2
  <2>. QED
    BY <2>3, <2>4, <2>5
<1>4. SumFunction([r \in Route |-> SumFunction(Part(cost, Fibre(h, T, r)))]) = SumFunction(cost)
  <2>. DEFINE f == Part(cost, T)
  <2>1. f \in [T -> Nat]
    BY DEF Part
  <2>2. \A r \in Route : Part(f, Fibre(h, T, r)) = Part(cost, Fibre(h, T, r))
    BY <1>2 DEF Part
  <2>3. SumFunction(cost) = SumFunction(f)
    BY SumOfSupport
  <2>. HIDE DEF f
  <2>4. SumFunction([r \in Route |-> SumFunction(Part(f, Fibre(h, T, r)))]) = SumFunction(f)
    BY <1>1, <2>1, SumOfFibres
  <2>5. [r \in Route |-> SumFunction(Part(f, Fibre(h, T, r)))]
          = [r \in Route |-> SumFunction(Part(cost, Fibre(h, T, r)))]
    BY <2>2
  <2>. QED
    BY <2>3, <2>4, <2>5
<1>. QED
  BY <1>3, <1>4

\* The two halves of a set are as many as the set.
LEMMA HalvesAddUp ==
  ASSUME NEW S, IsFiniteSet(S), NEW P \in SUBSET S
  PROVE  Cardinality(P) + Cardinality(S \ P) = Cardinality(S)
<1>. DEFINE Q == S \ P
<1>1. IsFiniteSet(P) /\ IsFiniteSet(Q)
  BY FS_Subset
<1>2. P \cup Q = S /\ P \cap Q = {}
  OBVIOUS
<1>. HIDE DEF Q
<1>3. Cardinality(P) \in Nat /\ Cardinality(Q) \in Nat /\ Cardinality({}) = 0
  BY <1>1, FS_CardinalityType, FS_EmptySet
<1>4. Cardinality(S) = Cardinality(P) + Cardinality(Q) - Cardinality({})
  BY <1>1, <1>2, FS_Union
<1>5. Cardinality(P) + Cardinality(Q) = Cardinality(S)
  BY <1>3, <1>4
<1>. QED
  BY <1>5 DEF Q

\* What the invariant of a request says of it once it is answered.
LEMMA AnsweredTells ==
  ASSUME NEW s, NEW p, RequestFits(s, p)
  PROVE  /\ s.cost \in Nat
         /\ s.phase \in Ended /\ s.attempts # <<>> <=> s.phase \in {"served", "route_failed"}
         /\ s.phase = "no_candidate" => s.cost = 0
         /\ s.phase \in {"served", "route_failed"} => RouteOf(s) \in Route
         /\ s.phase = "served" => TrialOf(s).route = Segments[RouteOf(s)]
<1>1. s \in Serving
  BY DEF RequestFits
<1>2. s.cost \in Nat /\ s.trace \in Trace /\ s.attempts \in Seq(Route)
  BY <1>1 DEF Serving
<1>3. CASE s.phase \in Untried
  <2>1. s.attempts = <<>> /\ s.cost = 0 /\ s.phase \notin {"served", "route_failed"}
    BY <1>3 DEF RequestFits, Blank, Untried
  <2>. QED
    BY <1>2, <2>1
<1>4. CASE s.phase \notin Untried
  <2>1. WalksFit(s, p)
    BY <1>4 DEF RequestFits
  <2>2. /\ s.index \in 1..Len(s.attempts) /\ Walk(s.trace, RouteOf(s))
        /\ s.phase = "served" => Len(s.trace) = Len(Segments[RouteOf(s)])
    BY <2>1 DEF WalksFit
  <2>3. RouteOf(s) \in Route /\ s.attempts # <<>>
    BY <1>2, <2>2 DEF RouteOf
  <2>4. s.phase = "served" => TrialOf(s).route = Segments[RouteOf(s)]
    <3>1. TrialOf(s).route = Named(s.trace)
      BY DEF TrialOf, Named
    <3>. QED
      BY <2>2, <2>3, <3>1, TraceNamesSegments
  <2>5. s.phase \in Ended <=> s.phase \in {"served", "route_failed"}
    BY <1>4 DEF Ended, Untried
  <2>. QED
    BY <1>2, <1>4, <2>3, <2>4, <2>5 DEF Untried
<1>. QED
  BY <1>3, <1>4

\* The answered requests that had a candidate
Walked == {q \in Request : req[q].phase \in {"served", "route_failed"}}

ServedBy(r) == {q \in Request : req[q].phase = "served" /\ RouteOf(req[q]) = r}

\* The statistics of a route, by the requests that tried it last.
LEMMA UsageTells ==
  ASSUME IInv, NEW r \in Route,
         NEW h, h = [q \in Walked |-> RouteOf(req[q])],
         NEW cost, cost = [q \in Answered |-> req[q].cost]
  PROVE  /\ Usage(r).served = Cardinality(ServedBy(r))
         /\ Usage(r).served + Usage(r).failed = Cardinality(Fibre(h, Walked, r))
         /\ Usage(r).bill = SumFunction(Part(cost, Fibre(h, Walked, r)))
<1>. DEFINE mine   == {q \in Answered : r \in RecordOf(q).selected}
            served == {q \in mine : RecordOf(q).served}
            failed == {q \in mine : ~RecordOf(q).served}
<1>1. Usage(r).served = Cardinality(served) /\ Usage(r).failed = Cardinality(failed)
      /\ Usage(r).bill = SumFunction([q \in mine |-> RecordOf(q).cost])
  BY DEF Usage
<1>2. mine = Fibre(h, Walked, r)
  <2>1. ASSUME NEW q \in Answered
        PROVE  r \in RecordOf(q).selected <=> q \in Walked /\ h[q] = r
    <3>1. req[q].phase \in {"served", "route_failed", "no_candidate"} /\ q \in Request
      BY DEF Answered, Ended
    <3>2. r \in RecordOf(q).selected <=> req[q].phase # "no_candidate" /\ RouteOf(req[q]) = r
      BY DEF RecordOf
    <3>3. q \in Walked <=> req[q].phase # "no_candidate"
      BY <3>1 DEF Walked
    <3>. QED
      BY <3>2, <3>3
  <2>2. Walked \subseteq Answered
    BY DEF Walked, Answered, Ended
  <2>. QED
    BY <2>1, <2>2 DEF Fibre
<1>3. served = ServedBy(r)
  <2>1. ASSUME NEW q PROVE q \in served <=> q \in ServedBy(r)
    <3>1. q \in mine <=> q \in Walked /\ RouteOf(req[q]) = r
      BY <1>2 DEF Fibre
    <3>2. RecordOf(q).served <=> req[q].phase = "served"
      BY DEF RecordOf
    <3>3. q \in served <=> q \in mine /\ RecordOf(q).served
      OBVIOUS
    <3>. QED
      BY <3>1, <3>2, <3>3 DEF Walked, ServedBy
  <2>. QED
    BY <2>1
<1>4. IsFiniteSet(mine)
  <2>1. mine \in SUBSET Request
    BY DEF Answered
  <2>. QED
    BY <2>1, OnlineAssumption, FS_Subset
<1>5. served \in SUBSET mine /\ failed = mine \ served
  OBVIOUS
<1>6. [q \in mine |-> RecordOf(q).cost] = Part(cost, mine)
  <2>1. \A q \in mine : RecordOf(q).cost = cost[q]
    BY DEF RecordOf
  <2>. QED
    BY <2>1 DEF Part
<1>. HIDE DEF mine, served, failed
<1>7. Cardinality(served) + Cardinality(failed) = Cardinality(mine)
  BY <1>4, <1>5, HalvesAddUp
<1>. QED
  BY <1>1, <1>2, <1>3, <1>6, <1>7

\* The statistics of all routes add up.
LEMMA StatisticsTell ==
  ASSUME IInv
  PROVE  UsageAddsUp
<1>. DEFINE h    == [q \in Walked |-> RouteOf(req[q])]
            cost == [q \in Answered |-> req[q].cost]
<1>1. \A q \in Request : RequestFits(req[q], past[q])
  BY DEF IInv
<1>2. ASSUME NEW q \in Request
      PROVE  /\ req[q].cost \in Nat
             /\ req[q].phase \in Ended /\ req[q].attempts # <<>> <=> q \in Walked
             /\ req[q].phase = "no_candidate" => req[q].cost = 0
             /\ q \in Walked => RouteOf(req[q]) \in Route
             /\ req[q].phase = "served" => TrialOf(req[q]).route = Segments[RouteOf(req[q])]
             /\ req[q].cost = Cardinality(CallsIn(AllTraces(q)))
  BY <1>1, AnsweredTells DEF Walked, RequestFits, AllTraces
<1>3. Walked = {q \in Answered : req[q].attempts # <<>>}
  BY <1>2 DEF Walked, Answered
<1>4. Walked \in SUBSET Answered /\ IsFiniteSet(Answered)
  <2>1. Answered \in SUBSET Request
    BY DEF Answered
  <2>. QED
    BY <1>3, <2>1, OnlineAssumption, FS_Subset
<1>5. h \in [Walked -> Route]
  BY <1>2 DEF Walked
<1>6. cost \in [Answered -> Nat] /\ \A q \in Answered \ Walked : cost[q] = 0
  <2>1. \A q \in Answered \ Walked : q \in Request /\ req[q].phase = "no_candidate"
    BY DEF Answered, Walked, Ended
  <2>2. \A q \in Answered : q \in Request
    BY DEF Answered
  <2>. QED
    BY <1>2, <2>1, <2>2
<1>7. cost = [q \in Answered |-> Cardinality(CallsIn(AllTraces(q)))]
  BY <1>2 DEF Answered
<1>8. ASSUME NEW r \in Route
      PROVE  /\ Usage(r).served = Cardinality(ServedBy(r))
             /\ Usage(r).served + Usage(r).failed = Cardinality(Fibre(h, Walked, r))
             /\ Usage(r).bill = SumFunction(Part(cost, Fibre(h, Walked, r)))
  BY UsageTells
<1>9. ASSUME NEW r \in Route
      PROVE  ServedBy(r) = {q \in Request : /\ req[q].phase = "served"
                                            /\ TrialOf(req[q]).route = Segments[r]}
  <2>1. ASSUME NEW q \in Request, req[q].phase = "served"
        PROVE  RouteOf(req[q]) = r <=> TrialOf(req[q]).route = Segments[r]
    <3>1. RouteOf(req[q]) \in Route /\ TrialOf(req[q]).route = Segments[RouteOf(req[q])]
      BY <1>2, <2>1 DEF Walked
    <3>. QED
      BY <3>1, OnlineAssumption
  <2>. QED
    BY <2>1 DEF ServedBy
<1>. HIDE DEF h, cost
<1>10. /\ SumFunction([r \in Route |-> Cardinality(Fibre(h, Walked, r))]) = Cardinality(Walked)
       /\ SumFunction([r \in Route |-> SumFunction(Part(cost, Fibre(h, Walked, r)))])
            = SumFunction(cost)
  BY <1>4, <1>5, <1>6, CountedByRoute
<1>11. [r \in Route |-> Usage(r).served + Usage(r).failed]
         = [r \in Route |-> Cardinality(Fibre(h, Walked, r))]
  BY <1>8
<1>12. [r \in Route |-> Usage(r).bill]
         = [r \in Route |-> SumFunction(Part(cost, Fibre(h, Walked, r)))]
  BY <1>8
<1>13. \A r \in Route :
         Usage(r).served =
           Cardinality({q \in Request : /\ req[q].phase = "served"
                                        /\ TrialOf(req[q]).route = Segments[r]})
  BY <1>8, <1>9
<1>14. SumFunction([r \in Route |-> Usage(r).served + Usage(r).failed])
         = Cardinality({q \in Answered : req[q].attempts # <<>>})
  BY <1>3, <1>10, <1>11
<1>15. SumFunction([r \in Route |-> Usage(r).bill])
         = SumFunction([q \in Answered |-> Cardinality(CallsIn(AllTraces(q)))])
  BY <1>7, <1>10, <1>12
<1>. QED
  BY <1>13, <1>14, <1>15 DEF UsageAddsUp

\* The bill of a request is that of every call of every attempt; what goes back of it to
\* the offline analysis is what ran; and the statistics of the routes count and bill
\* every answered request once, by the route that it tried last.
THEOREM AccountsAreTrueAlways == Spec => []AccountsAreTrue
<1>1. IInv => AccountsAreTrue
  <2>. SUFFICES ASSUME IInv PROVE AccountsAreTrue
    OBVIOUS
  <2>1. \A q \in Request : RequestFits(req[q], past[q])
    BY DEF IInv
  <2>2. EveryAttemptIsBilled
    BY <2>1 DEF EveryAttemptIsBilled, RequestFits, AllTraces
  <2>3. TrialsTellWhatRan
    <3>. SUFFICES ASSUME NEW q \in Request PROVE TrialTells(req[q], past[q])
      BY DEF TrialsTellWhatRan, TrialTells
    <3>. QED
      BY <2>1, TrialsTell
  <2>4. UsageAddsUp
    BY StatisticsTell
  <2>. QED
    BY <2>2, <2>3, <2>4 DEF AccountsAreTrue
<1>. QED
  BY <1>1, ServingIsGood, PTL


----------------------------------------------------------------------------
(* Metering: the inductive invariant *)

\* The access that has been made and is recorded only when the client returns.
Pending(t) ==
  IF state[t] = "awaiting" /\ Current(t).handle = "client" THEN {pc[t]} ELSE {}

\* What has been reached belongs to a call, and to a use that it has come to; the
\* use under way is not answered.
ReachedInOrder ==
  /\ reached \subseteq Call \X Nat \X {"access", "answer"}
  /\ \A r \in reached : /\ 1 <= r[2] /\ r[2] <= pc[r[1]]
                        /\ r[3] = "answer" /\ state[r[1]] = "awaiting" => r[2] # pc[r[1]]

\* The collector of a call has what the call itself reached.
Tallied(t) ==
  /\ \A a \in Access : collector[t].access[a] = Cardinality(AccessesOf(t, a) \ Pending(t))
  /\ collector[t].tokens = IF Reported(t) \cup Estimated(t) = {} THEN Nothing ELSE TokensOf(t)
  /\ collector[t].cost = CostOf(t)
  /\ collector[t].estimated <=> Estimated(t) # {}

\* A task finds its own collector in its context, as long as it runs.
ContextsAreOwn ==
  \A t \in Call : context[t] = IF state[t] \in {"body", "awaiting"} THEN t ELSE Nothing

\* What is awaited is a client, which has been accessed, or a model.
Awaits(t) ==
  /\ 1 <= pc[t] /\ Current(t) \in ClientUse \cup ModelUse
  /\ Current(t).handle = "client" => <<t, pc[t], "access">> \in reached

AwaitedWasBegun == \A t \in Call : state[t] = "awaiting" => Awaits(t)

WriterHasWritten ==
  \A k \in Key : store[k] # Nothing => AccessesOf(store[k], <<"store", "write">>) # {}

MeterInv ==
  /\ MeterTypeOK
  /\ ReachedInOrder
  /\ ContextsAreOwn
  /\ AwaitedWasBegun
  /\ \A t \in Call : Tallied(t)
  /\ \A t \in Call : state[t] = "ended" => execution[t] = Bill(t, collector[t])
  /\ WriterHasWritten

----------------------------------------------------------------------------
(* What a call has used *)

LEMMA UsesAreTyped ==
  ASSUME NEW t \in Call
  PROVE  /\ Len(Uses[t]) \in Nat /\ DOMAIN Uses[t] = 1..Len(Uses[t])
         /\ \A i \in DOMAIN Uses[t] : Uses[t][i] \in StoreUse \cup ClientUse \cup ModelUse
BY MeteringAssumption

LEMMA UsesAreFinite ==
  ASSUME NEW t \in Call
  PROVE  /\ IsFiniteSet(DOMAIN Uses[t])
         /\ \A a : IsFiniteSet(AccessesOf(t, a))
         /\ IsFiniteSet(Reported(t)) /\ IsFiniteSet(Estimated(t)) /\ IsFiniteSet(Charged(t))
<1>1. IsFiniteSet(DOMAIN Uses[t])
  <2>1. IsFiniteSet(1..Len(Uses[t]))
    BY UsesAreTyped, FS_Interval
  <2>. QED
    BY <2>1, UsesAreTyped
<1>2. /\ \A a : AccessesOf(t, a) \subseteq DOMAIN Uses[t]
      /\ Reported(t) \subseteq DOMAIN Uses[t] /\ Estimated(t) \subseteq DOMAIN Uses[t]
      /\ Charged(t) \subseteq DOMAIN Uses[t]
  BY DEF AccessesOf, Reported, Estimated, Charged, AnswersTo
<1>. QED
  BY <1>1, <1>2, FS_Subset

\* The sums are of numbers.
LEMMA AmountsAreNumbers ==
  ASSUME NEW t \in Call
  PROVE  /\ \A i \in Reported(t) : Uses[t][i].tokens \in Nat
         /\ \A i \in Estimated(t) : Uses[t][i].estimate \in Nat
         /\ \A i \in Charged(t) : i \in Reported(t) /\ Uses[t][i].tokens * Price \in Nat
<1>1. \A i \in Reported(t) : Uses[t][i] \in ModelUse /\ Uses[t][i].tokens # Nothing
  BY UsesAreTyped DEF Reported, AnswersTo, StoreUse, ClientUse, ModelUse
<1>2. \A i \in Estimated(t) : Uses[t][i] \in ClientUse /\ Uses[t][i].estimate # Nothing
  BY UsesAreTyped DEF Estimated, AnswersTo, StoreUse, ClientUse, ModelUse
<1>3. \A i \in Reported(t) : Uses[t][i].tokens \in Nat
  BY <1>1 DEF ModelUse
<1>4. \A n \in Nat : n * Price \in Nat
  BY MeteringAssumption
<1>. QED
  BY <1>2, <1>3, <1>4 DEF Charged, ClientUse

\* The sum of f over the members of S
Total(f, S) == SumFunction([x \in S |-> f[x]])

LEMMA TotalOfNone ==
  ASSUME NEW f
  PROVE  Total(f, {}) = 0
<1>. DEFINE g == [x \in {} |-> 0]
<1>1. g \in [{} -> Nat] /\ IsFiniteSet({})
  BY FS_EmptySet
<1>. HIDE DEF g
<1>2. SumFunction(Part(g, {})) = 0
  BY <1>1, SumLaws
<1>3. Part(g, {}) = [x \in {} |-> f[x]]
  BY DEF Part
<1>. QED
  BY <1>2, <1>3 DEF Total

LEMMA TotalIsNumber ==
  ASSUME NEW S, IsFiniteSet(S), NEW f, \A x \in S : f[x] \in Nat
  PROVE  Total(f, S) \in Nat
<1>. DEFINE g == [x \in S |-> f[x]]
<1>1. g \in [S -> Nat]
  OBVIOUS
<1>. HIDE DEF g
<1>2. SumFunction(g) \in Nat
  BY <1>1, SumLaws
<1>. QED
  BY <1>2 DEF g, Total

LEMMA TotalOfOneMore ==
  ASSUME NEW S, IsFiniteSet(S), NEW j, j \notin S,
         NEW f, \A x \in S \cup {j} : f[x] \in Nat
  PROVE  Total(f, S \cup {j}) = Total(f, S) + f[j]
<1>. DEFINE T == S \cup {j}
            g == [x \in T |-> f[x]]
<1>1. g \in [T -> Nat]
  OBVIOUS
<1>2. IsFiniteSet(T)
  BY FS_AddElement
<1>3. Part(g, T) = [x \in T |-> f[x]] /\ Part(g, T \ {j}) = [x \in S |-> f[x]]
      /\ g[j] = f[j] /\ j \in T /\ T \in SUBSET T
  BY DEF Part
<1>. HIDE DEF g, T
<1>4. SumFunction(Part(g, T)) = g[j] + SumFunction(Part(g, T \ {j}))
  BY <1>1, <1>2, <1>3, SumLaws
<1>5. Total(f, S) \in Nat /\ f[j] \in Nat
  BY TotalIsNumber
<1>6. Total(f, T) = f[j] + Total(f, S)
  BY <1>3, <1>4 DEF Total
<1>. QED
  BY <1>5, <1>6 DEF T

TokensIn(t)    == [i \in DOMAIN Uses[t] |-> Uses[t][i].tokens]
EstimatesIn(t) == [i \in DOMAIN Uses[t] |-> Uses[t][i].estimate]
CostsIn(t)     == [i \in DOMAIN Uses[t] |-> Uses[t][i].tokens * Price]

\* The sums of the properties are totals.
LEMMA SumsAreTotals ==
  ASSUME NEW t \in Call, NEW S \in SUBSET DOMAIN Uses[t]
  PROVE  /\ SumFunction([i \in S |-> Uses[t][i].tokens]) = Total(TokensIn(t), S)
         /\ SumFunction([i \in S |-> Uses[t][i].estimate]) = Total(EstimatesIn(t), S)
         /\ SumFunction([i \in S |-> Uses[t][i].tokens * Price]) = Total(CostsIn(t), S)
<1>1. [i \in S |-> Uses[t][i].tokens] = [i \in S |-> TokensIn(t)[i]]
  BY DEF TokensIn
<1>2. [i \in S |-> Uses[t][i].estimate] = [i \in S |-> EstimatesIn(t)[i]]
  BY DEF EstimatesIn
<1>3. [i \in S |-> Uses[t][i].tokens * Price] = [i \in S |-> CostsIn(t)[i]]
  BY DEF CostsIn
<1>. QED
  BY <1>1, <1>2, <1>3 DEF Total

LEMMA TotalsAreNumbers ==
  ASSUME NEW t \in Call
  PROVE  /\ Reported(t) \subseteq DOMAIN Uses[t] /\ Estimated(t) \subseteq DOMAIN Uses[t]
         /\ Charged(t) \subseteq DOMAIN Uses[t]
         /\ \A i \in Reported(t) : TokensIn(t)[i] \in Nat
         /\ \A i \in Estimated(t) : EstimatesIn(t)[i] \in Nat
         /\ \A i \in Charged(t) : CostsIn(t)[i] \in Nat
         /\ Total(TokensIn(t), Reported(t)) \in Nat
         /\ Total(EstimatesIn(t), Estimated(t)) \in Nat
         /\ Total(CostsIn(t), Charged(t)) \in Nat
         /\ TokensOf(t) = Total(TokensIn(t), Reported(t)) + Total(EstimatesIn(t), Estimated(t))
         /\ CostOf(t) = IF Charged(t) = {} THEN Nothing ELSE Total(CostsIn(t), Charged(t))
<1>1. Reported(t) \subseteq DOMAIN Uses[t] /\ Estimated(t) \subseteq DOMAIN Uses[t]
      /\ Charged(t) \subseteq DOMAIN Uses[t]
  BY DEF Reported, Estimated, Charged, AnswersTo
<1>2. \A i \in Reported(t) : TokensIn(t)[i] \in Nat
  BY <1>1, AmountsAreNumbers DEF TokensIn
<1>3. \A i \in Estimated(t) : EstimatesIn(t)[i] \in Nat
  BY <1>1, AmountsAreNumbers DEF EstimatesIn
<1>4. \A i \in Charged(t) : CostsIn(t)[i] \in Nat
  BY <1>1, AmountsAreNumbers DEF CostsIn
<1>5. /\ Total(TokensIn(t), Reported(t)) \in Nat
      /\ Total(EstimatesIn(t), Estimated(t)) \in Nat
      /\ Total(CostsIn(t), Charged(t)) \in Nat
  BY <1>2, <1>3, <1>4, UsesAreFinite, TotalIsNumber
<1>6. TokensOf(t) = Total(TokensIn(t), Reported(t)) + Total(EstimatesIn(t), Estimated(t))
  BY <1>1, SumsAreTotals DEF TokensOf
<1>7. CostOf(t) = IF Charged(t) = {} THEN Nothing ELSE Total(CostsIn(t), Charged(t))
  BY <1>1, SumsAreTotals DEF CostOf
<1>. QED
  BY <1>1, <1>2, <1>3, <1>4, <1>5, <1>6, <1>7

LEMMA MergedIsSum ==
  ASSUME NEW known \in Nat \cup {Nothing}, NEW extra \in Nat
  PROVE  /\ Merged(known, extra) \in Nat /\ Merged(known, extra) # Nothing
         /\ known = Nothing => Merged(known, extra) = extra
         /\ known # Nothing => Merged(known, extra) = known + extra
BY MeteringAssumption DEF Merged

----------------------------------------------------------------------------
(* Metering: what a step reaches *)

LEMMA AccessGrows ==
  ASSUME NEW t \in Call, NEW j \in DOMAIN Uses[t], reached' = reached \cup {<<t, j, "access">>}
  PROVE  /\ \A u, a : AccessesOf(u, a)' =
               IF u = t /\ <<Uses[t][j].handle, Uses[t][j].mode>> = a
               THEN AccessesOf(u, a) \cup {j} ELSE AccessesOf(u, a)
         /\ \A u, h : AnswersTo(u, h)' = AnswersTo(u, h)
BY DEF AccessesOf, AnswersTo

LEMMA AnswerGrows ==
  ASSUME NEW t \in Call, NEW j \in DOMAIN Uses[t], reached' = reached \cup {<<t, j, "answer">>}
  PROVE  /\ \A u, a : AccessesOf(u, a)' = AccessesOf(u, a)
         /\ \A u, h : AnswersTo(u, h)' = IF u = t /\ Uses[t][j].handle = h
                                         THEN AnswersTo(u, h) \cup {j} ELSE AnswersTo(u, h)
BY DEF AccessesOf, AnswersTo

LEMMA NothingGrows ==
  ASSUME reached' = reached
  PROVE  /\ \A u, a : AccessesOf(u, a)' = AccessesOf(u, a)
         /\ \A u, h : AnswersTo(u, h)' = AnswersTo(u, h)
BY DEF AccessesOf, AnswersTo

LEMMA SameAnswersSameSums ==
  ASSUME NEW u, \A h : AnswersTo(u, h)' = AnswersTo(u, h)
  PROVE  /\ Reported(u)' = Reported(u) /\ Estimated(u)' = Estimated(u)
         /\ Charged(u)' = Charged(u)
         /\ TokensOf(u)' = TokensOf(u) /\ CostOf(u)' = CostOf(u)
<1>1. Reported(u)' = Reported(u) /\ Estimated(u)' = Estimated(u)
  BY DEF Reported, Estimated
<1>2. Charged(u)' = Charged(u)
  BY <1>1 DEF Charged
<1>3. TokensOf(u)' = TokensOf(u)
  BY <1>1 DEF TokensOf
<1>4. CostOf(u)' = CostOf(u)
  BY <1>2 DEF CostOf
<1>. QED
  BY <1>1, <1>2, <1>3, <1>4

\* A collector that is left alone, while its call reaches nothing that counts, stays true.
LEMMA TallyStays ==
  ASSUME NEW u \in Call, Tallied(u), collector'[u] = collector[u],
         \A a \in Access : (AccessesOf(u, a) \ Pending(u))' = AccessesOf(u, a) \ Pending(u),
         \A h : AnswersTo(u, h)' = AnswersTo(u, h)
  PROVE  Tallied(u)'
BY SameAnswersSameSums DEF Tallied

\* A step of t reaches something at j, or nothing.
Reaches(t) ==
  \/ reached' = reached
  \/ \E j \in DOMAIN Uses[t], what \in {"access", "answer"} :
       reached' = reached \cup {<<t, j, what>>}

LEMMA OthersReachNothing ==
  ASSUME NEW t \in Call, Reaches(t), NEW u, u # t
  PROVE  /\ \A a : AccessesOf(u, a)' = AccessesOf(u, a)
         /\ \A h : AnswersTo(u, h)' = AnswersTo(u, h)
<1>1. CASE reached' = reached
  BY <1>1, NothingGrows
<1>2. ASSUME NEW j \in DOMAIN Uses[t], reached' = reached \cup {<<t, j, "access">>}
      PROVE  /\ \A a : AccessesOf(u, a)' = AccessesOf(u, a)
             /\ \A h : AnswersTo(u, h)' = AnswersTo(u, h)
  BY <1>2, AccessGrows
<1>3. ASSUME NEW j \in DOMAIN Uses[t], reached' = reached \cup {<<t, j, "answer">>}
      PROVE  /\ \A a : AccessesOf(u, a)' = AccessesOf(u, a)
             /\ \A h : AnswersTo(u, h)' = AnswersTo(u, h)
  BY <1>3, AnswerGrows
<1>. QED
  BY <1>1, <1>2, <1>3 DEF Reaches

LEMMA AccessesOnlyGrow ==
  ASSUME NEW t \in Call, Reaches(t), NEW u, NEW a
  PROVE  AccessesOf(u, a) \subseteq AccessesOf(u, a)'
<1>1. reached \subseteq reached'
  BY DEF Reaches
<1>. QED
  BY <1>1 DEF AccessesOf

\* What a step of t leaves alone.
StepOf(t) ==
  /\ Reaches(t)
  /\ \A u \in Call \ {t} : /\ state'[u] = state[u] /\ pc'[u] = pc[u]
                           /\ collector'[u] = collector[u] /\ context'[u] = context[u]
                           /\ execution'[u] = execution[u]
  /\ \A k \in Key : store'[k] # store[k] =>
       store'[k] = t /\ AccessesOf(t, <<"store", "write">>)' # {}

\* Of all the parts of the invariant, only those that are about the call itself are
\* left to show.
LEMMA StepKeepsInv ==
  ASSUME MeterInv, NEW t \in Call, StepOf(t), MeterTypeOK', ReachedInOrder',
         context'[t] = IF state'[t] \in {"body", "awaiting"} THEN t ELSE Nothing,
         state'[t] = "awaiting" => Awaits(t)',
         Tallied(t)',
         state'[t] = "ended" => execution'[t] = Bill(t, collector'[t])
  PROVE  MeterInv'
<1>1. ContextsAreOwn'
  BY DEF ContextsAreOwn, StepOf, MeterInv
<1>2. AwaitedWasBegun'
  <2>. SUFFICES ASSUME NEW u \in Call, u # t, state'[u] = "awaiting"
                PROVE  Awaits(u)'
    BY DEF AwaitedWasBegun
  <2>1. state[u] = "awaiting" /\ pc'[u] = pc[u] /\ reached \subseteq reached'
    BY DEF StepOf, Reaches
  <2>. QED
    BY <2>1 DEF AwaitedWasBegun, MeterInv, Current, Awaits
<1>3. ASSUME NEW u \in Call PROVE Tallied(u)'
  <2>1. CASE u # t
    <3>1. /\ \A a : AccessesOf(u, a)' = AccessesOf(u, a)
          /\ \A h : AnswersTo(u, h)' = AnswersTo(u, h)
      BY <2>1, OthersReachNothing DEF StepOf
    <3>2. Pending(u)' = Pending(u) /\ collector'[u] = collector[u]
      BY <2>1 DEF StepOf, Pending, Current
    <3>3. \A a \in Access : (AccessesOf(u, a) \ Pending(u))' = AccessesOf(u, a) \ Pending(u)
      BY <3>1, <3>2
    <3>. QED
      BY <3>1, <3>2, <3>3, TallyStays DEF MeterInv
  <2>. QED
    BY <2>1
<1>4. \A u \in Call : state'[u] = "ended" => execution'[u] = Bill(u, collector'[u])
  BY DEF StepOf, MeterInv
<1>5. ASSUME NEW k \in Key, NEW w, store'[k] = w, w # Nothing
      PROVE  AccessesOf(w, <<"store", "write">>)' # {}
  <2>1. CASE store[k] = w
    <3>1. AccessesOf(w, <<"store", "write">>) # {}
      BY <1>5, <2>1 DEF MeterInv, WriterHasWritten
    <3>2. AccessesOf(w, <<"store", "write">>) \subseteq AccessesOf(w, <<"store", "write">>)'
      BY AccessesOnlyGrow DEF StepOf
    <3>. QED
      BY <3>1, <3>2
  <2>2. CASE store[k] # w
    BY <1>5, <2>2 DEF StepOf
  <2>. QED
    BY <2>1, <2>2
<1>6. WriterHasWritten'
  BY <1>5 DEF WriterHasWritten, AccessesOf
<1>. QED
  BY <1>1, <1>2, <1>3, <1>4, <1>6 DEF MeterInv

----------------------------------------------------------------------------
(* Metering: what is recorded *)

LEMMA AccessKeepsType ==
  ASSUME NEW c \in Collector, NEW a \in Access
  PROVE  /\ WithAccess(c, a) \in Collector
         /\ \A b \in Access : WithAccess(c, a).access[b] = IF b = a THEN c.access[b] + 1
                                                           ELSE c.access[b]
         /\ WithAccess(c, a).tokens = c.tokens /\ WithAccess(c, a).cost = c.cost
         /\ WithAccess(c, a).estimated = c.estimated
BY DEF WithAccess, Collector

LEMMA RecordsKeepType ==
  ASSUME NEW c \in Collector, NEW n \in Nat
  PROVE  /\ WithTokens(c, n) \in Collector
         /\ WithTokens(c, n).tokens = Merged(c.tokens, n)
         /\ WithTokens(c, n).access = c.access /\ WithTokens(c, n).cost = c.cost
         /\ WithTokens(c, n).estimated = c.estimated
         /\ WithEstimate(c, n) \in Collector
         /\ WithEstimate(c, n).tokens = Merged(c.tokens, n)
         /\ WithEstimate(c, n).access = c.access /\ WithEstimate(c, n).cost = c.cost
         /\ WithEstimate(c, n).estimated = TRUE
         /\ WithCost(c, n) \in Collector
         /\ WithCost(c, n).cost = Merged(c.cost, n)
         /\ WithCost(c, n).access = c.access /\ WithCost(c, n).tokens = c.tokens
         /\ WithCost(c, n).estimated = c.estimated
<1>1. Merged(c.tokens, n) \in Nat /\ Merged(c.cost, n) \in Nat
  BY MergedIsSum DEF Collector, OrNone
<1>. QED
  BY <1>1 DEF WithTokens, WithEstimate, WithCost, Collector, OrNone

\* One more use of a kind: the count goes up by one.
LEMMA OneMoreAccess ==
  ASSUME NEW S, IsFiniteSet(S), NEW j, j \notin S
  PROVE  Cardinality(S \cup {j}) = Cardinality(S) + 1
BY FS_AddElement

\* When the client has ended, its access is recorded like the others.
LEMMA AccessedTallies ==
  ASSUME MeterInv, NEW t \in Call, state[t] = "awaiting", Current(t).handle = "client",
         state'[t] # "awaiting", \A a : AccessesOf(t, a)' = AccessesOf(t, a)
  PROVE  /\ Current(t) \in ClientUse /\ <<"client", Current(t).mode>> \in Access
         /\ \A a \in Access : Accessed(t, collector[t]).access[a]
                                = Cardinality((AccessesOf(t, a) \ Pending(t))')
<1>. DEFINE j == pc[t]
            mine == <<"client", Current(t).mode>>
<1>1. /\ Awaits(t) /\ Tallied(t) /\ MeterTypeOK
      /\ j \in DOMAIN Uses[t]
  BY UsesAreTyped DEF MeterInv, AwaitedWasBegun, Awaits, MeterTypeOK
<1>2. Current(t) \in ClientUse
  BY <1>1 DEF Awaits, ModelUse
<1>3. mine \in Access
  BY <1>2 DEF ClientUse, Access
<1>4. Pending(t) = {j} /\ Pending(t)' = {}
  BY DEF Pending
<1>5. collector[t] \in Collector
  BY <1>1 DEF MeterTypeOK
<1>6. ASSUME NEW a \in Access
      PROVE  Accessed(t, collector[t]).access[a] = Cardinality((AccessesOf(t, a) \ Pending(t))')
  <2>1. (AccessesOf(t, a) \ Pending(t))' = AccessesOf(t, a)
    BY <1>4
  <2>2. Accessed(t, collector[t]).access[a]
          = IF a = mine THEN collector[t].access[a] + 1 ELSE collector[t].access[a]
    BY <1>3, <1>5, AccessKeepsType DEF Accessed
  <2>3. collector[t].access[a] = Cardinality(AccessesOf(t, a) \ {j})
    BY <1>1, <1>4 DEF Tallied
  <2>4. CASE a = mine
    <3>1. j \in AccessesOf(t, a)
      BY <1>1, <1>2, <2>4 DEF AccessesOf, Awaits, Current, ClientUse
    <3>2. IsFiniteSet(AccessesOf(t, a) \ {j}) /\ AccessesOf(t, a) = (AccessesOf(t, a) \ {j}) \cup {j}
      BY <3>1, UsesAreFinite, FS_RemoveElement
    <3>3. Cardinality(AccessesOf(t, a)) = Cardinality(AccessesOf(t, a) \ {j}) + 1
      BY <3>2, OneMoreAccess
    <3>. QED
      BY <2>1, <2>2, <2>3, <2>4, <3>3
  <2>5. CASE a # mine
    <3>1. j \notin AccessesOf(t, a)
      BY <1>2, <2>5 DEF AccessesOf, Current, ClientUse
    <3>2. AccessesOf(t, a) \ {j} = AccessesOf(t, a)
      BY <3>1
    <3>. QED
      BY <2>1, <2>2, <2>3, <2>5, <3>2
  <2>. QED
    BY <2>4, <2>5
<1>. QED
  BY <1>2, <1>3, <1>6

\* An estimate more: what is recorded is what was estimated.
LEMMA EstimateTallies ==
  ASSUME NEW t \in Call, NEW j \in DOMAIN Uses[t], j \notin Estimated(t),
         Uses[t][j].estimate \in Nat,
         Estimated(t)' = Estimated(t) \cup {j}, Reported(t)' = Reported(t),
         NEW known \in Nat \cup {Nothing},
         known = IF Reported(t) \cup Estimated(t) = {} THEN Nothing ELSE TokensOf(t)
  PROVE  Merged(known, Uses[t][j].estimate) = TokensOf(t)'
<1>1. TokensOf(t)' = Total(TokensIn(t), Reported(t)) + Total(EstimatesIn(t), Estimated(t) \cup {j})
  <2>1. TokensOf(t)' = SumFunction([i \in Reported(t) |-> Uses[t][i].tokens])
                         + SumFunction([i \in Estimated(t) \cup {j} |-> Uses[t][i].estimate])
    BY DEF TokensOf
  <2>2. Reported(t) \in SUBSET DOMAIN Uses[t] /\ Estimated(t) \cup {j} \in SUBSET DOMAIN Uses[t]
    BY TotalsAreNumbers
  <2>. QED
    BY <2>1, <2>2, SumsAreTotals
<1>2. EstimatesIn(t)[j] = Uses[t][j].estimate
  BY DEF EstimatesIn
<1>3. Total(EstimatesIn(t), Estimated(t) \cup {j}) = Total(EstimatesIn(t), Estimated(t)) + Uses[t][j].estimate
  <2>1. \A i \in Estimated(t) \cup {j} : EstimatesIn(t)[i] \in Nat
    BY <1>2, TotalsAreNumbers
  <2>. QED
    BY <1>2, <2>1, UsesAreFinite, TotalOfOneMore
<1>4. PICK m \in Nat, n \in Nat, e \in Nat :
        /\ m = Total(TokensIn(t), Reported(t)) /\ n = Total(EstimatesIn(t), Estimated(t))
        /\ e = Uses[t][j].estimate
  BY TotalsAreNumbers
<1>5. TokensOf(t) = m + n /\ TokensOf(t)' = m + (n + e)
  BY <1>1, <1>3, <1>4, TotalsAreNumbers
<1>6. CASE Reported(t) \cup Estimated(t) = {}
  <2>1. m = 0 /\ n = 0
    BY <1>4, <1>6, TotalOfNone
  <2>. QED
    BY <1>4, <1>5, <1>6, <2>1, MergedIsSum
<1>7. CASE Reported(t) \cup Estimated(t) # {}
  <2>1. known = m + n /\ known # Nothing
    BY <1>5, <1>7, MeteringAssumption
  <2>2. Merged(known, e) = known + e
    BY <2>1, MergedIsSum
  <2>. QED
    BY <1>4, <1>5, <2>1, <2>2
<1>. QED
  BY <1>6, <1>7

\* An answer more: the same of its tokens.
LEMMA AnswerTallies ==
  ASSUME NEW t \in Call, NEW j \in DOMAIN Uses[t], j \notin Reported(t),
         Uses[t][j].tokens \in Nat,
         Reported(t)' = Reported(t) \cup {j}, Estimated(t)' = Estimated(t),
         NEW known \in Nat \cup {Nothing},
         known = IF Reported(t) \cup Estimated(t) = {} THEN Nothing ELSE TokensOf(t)
  PROVE  Merged(known, Uses[t][j].tokens) = TokensOf(t)'
<1>1. TokensOf(t)' = Total(TokensIn(t), Reported(t) \cup {j}) + Total(EstimatesIn(t), Estimated(t))
  <2>1. TokensOf(t)' = SumFunction([i \in Reported(t) \cup {j} |-> Uses[t][i].tokens])
                         + SumFunction([i \in Estimated(t) |-> Uses[t][i].estimate])
    BY DEF TokensOf
  <2>2. Reported(t) \cup {j} \in SUBSET DOMAIN Uses[t] /\ Estimated(t) \in SUBSET DOMAIN Uses[t]
    BY TotalsAreNumbers
  <2>. QED
    BY <2>1, <2>2, SumsAreTotals
<1>2. TokensIn(t)[j] = Uses[t][j].tokens
  BY DEF TokensIn
<1>3. Total(TokensIn(t), Reported(t) \cup {j}) = Total(TokensIn(t), Reported(t)) + Uses[t][j].tokens
  <2>1. \A i \in Reported(t) \cup {j} : TokensIn(t)[i] \in Nat
    BY <1>2, TotalsAreNumbers
  <2>. QED
    BY <1>2, <2>1, UsesAreFinite, TotalOfOneMore
<1>4. PICK m \in Nat, n \in Nat, e \in Nat :
        /\ m = Total(TokensIn(t), Reported(t)) /\ n = Total(EstimatesIn(t), Estimated(t))
        /\ e = Uses[t][j].tokens
  BY TotalsAreNumbers
<1>5. TokensOf(t) = m + n /\ TokensOf(t)' = (m + e) + n
  BY <1>1, <1>3, <1>4, TotalsAreNumbers
<1>6. CASE Reported(t) \cup Estimated(t) = {}
  <2>1. m = 0 /\ n = 0
    BY <1>4, <1>6, TotalOfNone
  <2>. QED
    BY <1>4, <1>5, <1>6, <2>1, MergedIsSum
<1>7. CASE Reported(t) \cup Estimated(t) # {}
  <2>1. known = m + n /\ known # Nothing
    BY <1>5, <1>7, MeteringAssumption
  <2>2. Merged(known, e) = known + e
    BY <2>1, MergedIsSum
  <2>. QED
    BY <1>4, <1>5, <2>1, <2>2
<1>. QED
  BY <1>6, <1>7

\* And of what it costs.
LEMMA ChargeTallies ==
  ASSUME NEW t \in Call, NEW j \in DOMAIN Uses[t], j \notin Charged(t),
         Uses[t][j].tokens \in Nat, Charged(t)' = Charged(t) \cup {j}
  PROVE  Merged(CostOf(t), Uses[t][j].tokens * Price) = CostOf(t)'
<1>1. CostOf(t)' = Total(CostsIn(t), Charged(t) \cup {j})
  <2>1. CostOf(t)' = SumFunction([i \in Charged(t) \cup {j} |-> Uses[t][i].tokens * Price])
    BY DEF CostOf
  <2>2. Charged(t) \cup {j} \in SUBSET DOMAIN Uses[t]
    BY TotalsAreNumbers
  <2>. QED
    BY <2>1, <2>2, SumsAreTotals
<1>2. CostsIn(t)[j] = Uses[t][j].tokens * Price /\ Uses[t][j].tokens * Price \in Nat
  BY MeteringAssumption DEF CostsIn
<1>3. Total(CostsIn(t), Charged(t) \cup {j}) = Total(CostsIn(t), Charged(t)) + CostsIn(t)[j]
  <2>1. \A i \in Charged(t) \cup {j} : CostsIn(t)[i] \in Nat
    BY <1>2, TotalsAreNumbers
  <2>. QED
    BY <2>1, UsesAreFinite, TotalOfOneMore
<1>4. PICK m \in Nat, e \in Nat : m = Total(CostsIn(t), Charged(t)) /\ e = CostsIn(t)[j]
  BY <1>2, TotalsAreNumbers
<1>5. CostOf(t)' = m + e /\ CostOf(t) = IF Charged(t) = {} THEN Nothing ELSE m
  BY <1>1, <1>3, <1>4, TotalsAreNumbers
<1>6. CASE Charged(t) = {}
  <2>1. m = 0 /\ CostOf(t) = Nothing
    BY <1>4, <1>5, <1>6, TotalOfNone
  <2>2. Merged(CostOf(t), e) = e
    BY <2>1, MergedIsSum
  <2>. QED
    BY <1>2, <1>4, <1>5, <2>1, <2>2
<1>7. CASE Charged(t) # {}
  <2>1. CostOf(t) = m /\ m # Nothing
    BY <1>4, <1>5, <1>7, MeteringAssumption
  <2>2. Merged(CostOf(t), e) = m + e
    BY <2>1, MergedIsSum
  <2>. QED
    BY <1>2, <1>4, <1>5, <2>2
<1>. QED
  BY <1>6, <1>7

----------------------------------------------------------------------------
(* Metering: the steps *)

LEMMA OwnContext ==
  ASSUME MeterInv, NEW t \in Call, state[t] \in {"body", "awaiting"}
  PROVE  /\ context[t] = t /\ collector[t] \in Collector /\ Tallied(t)
         /\ collector = [u \in Call |-> collector[u]]
BY DEF MeterInv, ContextsAreOwn, MeterTypeOK

LEMMA NotReachedYet ==
  ASSUME MeterInv, NEW t \in Call
  PROVE  /\ \A a : pc[t] + 1 \notin AccessesOf(t, a)
         /\ state[t] = "awaiting" => \A h : pc[t] \notin AnswersTo(t, h)
<1>1. pc[t] \in Nat
  BY DEF MeterInv, MeterTypeOK
<1>. QED
  BY <1>1 DEF MeterInv, ReachedInOrder, AccessesOf, AnswersTo

LEMMA MountKeepsInv ==
  ASSUME MeterInv, NEW t \in Call, Mount(t)
  PROVE  MeterInv'
<1>0. MeterTypeOK /\ ReachedInOrder /\ Tallied(t)
  BY DEF MeterInv
<1>1. /\ state[t] = "waiting" /\ state' = [state EXCEPT ![t] = "body"]
      /\ context' = [context EXCEPT ![t] = t]
      /\ UNCHANGED <<pc, collector, store, execution, reached>>
  BY DEF Mount
<1>2. StepOf(t)
  BY <1>0, <1>1 DEF StepOf, Reaches, MeterTypeOK
<1>3. MeterTypeOK'
  BY <1>0, <1>1, MeteringAssumption DEF MeterTypeOK, OrNone
<1>4. ReachedInOrder'
  BY <1>0, <1>1 DEF ReachedInOrder, MeterTypeOK
<1>5. state'[t] = "body" /\ context'[t] = t
  BY <1>0, <1>1 DEF MeterTypeOK
<1>6. Tallied(t)'
  <2>1. Pending(t) = {} /\ Pending(t)' = {}
    BY <1>1, <1>5 DEF Pending
  <2>2. /\ \A a : AccessesOf(t, a)' = AccessesOf(t, a)
        /\ \A h : AnswersTo(t, h)' = AnswersTo(t, h)
    BY <1>1, NothingGrows
  <2>3. \A a \in Access : (AccessesOf(t, a) \ Pending(t))' = AccessesOf(t, a) \ Pending(t)
    BY <2>1, <2>2
  <2>. QED
    BY <1>0, <1>1, <2>2, <2>3, TallyStays
<1>. QED
  BY <1>2, <1>3, <1>4, <1>5, <1>6, StepKeepsInv

\* The handle call that comes next is one of the body's.
LEMMA ComingIsNext ==
  ASSUME MeterInv, NEW t \in Call, pc[t] < Len(Uses[t])
  PROVE  /\ pc[t] \in Nat /\ pc[t] + 1 \in DOMAIN Uses[t]
         /\ Coming(t) = Uses[t][pc[t] + 1]
         /\ Coming(t) \in StoreUse \cup ClientUse \cup ModelUse
<1>1. pc[t] \in Nat
  BY DEF MeterInv, MeterTypeOK
<1>2. pc[t] + 1 \in DOMAIN Uses[t]
  BY <1>1, UsesAreTyped
<1>. QED
  BY <1>1, <1>2, UsesAreTyped DEF Coming

LEMMA UseStoreKeepsInv ==
  ASSUME MeterInv, NEW t \in Call, UseStore(t)
  PROVE  MeterInv'
<1>. DEFINE j == pc[t] + 1
            key == <<"store", Coming(t).mode>>
<1>0. MeterTypeOK /\ ReachedInOrder /\ Tallied(t)
  BY DEF MeterInv
<1>1. /\ state[t] = "body" /\ pc[t] < Len(Uses[t]) /\ Coming(t).handle = "store"
      /\ pc' = [pc EXCEPT ![t] = j]
      /\ collector' = [collector EXCEPT ![t] = WithAccess(collector[t], key)]
      /\ store' = IF Coming(t).mode = "write" THEN [store EXCEPT ![Coming(t).key] = t] ELSE store
      /\ reached' = reached \cup {<<t, j, "access">>}
      /\ UNCHANGED <<state, context, execution>>
  <2>1. state[t] = "body"
    BY DEF UseStore, CanUse
  <2>2. context[t] = t
    BY <2>1, OwnContext
  <2>. QED
    BY <2>1, <2>2 DEF UseStore, CanUse
<1>2. j \in DOMAIN Uses[t] /\ Coming(t) = Uses[t][j] /\ Coming(t) \in StoreUse /\ pc[t] \in Nat
  BY <1>1, ComingIsNext DEF StoreUse, ClientUse, ModelUse
<1>3. key \in Access /\ Coming(t).key \in Key
  BY <1>2 DEF StoreUse, Access
<1>4. /\ \A a : AccessesOf(t, a)' = IF a = key THEN AccessesOf(t, a) \cup {j} ELSE AccessesOf(t, a)
      /\ \A h : AnswersTo(t, h)' = AnswersTo(t, h)
  BY <1>1, <1>2, AccessGrows
<1>5. collector[t] \in Collector /\ context[t] = t
  BY <1>1, OwnContext
<1>. HIDE DEF j, key
<1>6. StepOf(t)
  <2>1. Reaches(t)
    BY <1>1, <1>2 DEF Reaches
  <2>2. \A k \in Key : store'[k] # store[k] => store'[k] = t /\ Coming(t).mode = "write"
    BY <1>0, <1>1, <1>3 DEF MeterTypeOK
  <2>3. Coming(t).mode = "write" => AccessesOf(t, <<"store", "write">>)' # {}
    BY <1>4 DEF key
  <2>. QED
    BY <1>0, <1>1, <2>1, <2>2, <2>3 DEF StepOf, MeterTypeOK
<1>7. MeterTypeOK'
  <2>1. WithAccess(collector[t], key) \in Collector
    BY <1>3, <1>5, AccessKeepsType
  <2>2. j \in Nat /\ j <= Len(Uses[t])
    BY <1>1, <1>2, UsesAreTyped DEF j
  <2>3. store' \in [Key -> OrNone(Call)]
    BY <1>0, <1>1, <1>3 DEF MeterTypeOK, OrNone
  <2>. QED
    BY <1>0, <1>1, <2>1, <2>2, <2>3 DEF MeterTypeOK
<1>8. ReachedInOrder'
  <2>1. j \in Nat /\ 1 <= j /\ pc[t] < j
    BY <1>2 DEF j
  <2>2. \A u \in Call : pc[u] \in Nat /\ pc'[u] = IF u = t THEN j ELSE pc[u]
    BY <1>0, <1>1 DEF MeterTypeOK
  <2>3. reached' \subseteq Call \X Nat \X {"access", "answer"}
    BY <1>0, <1>1, <2>1 DEF ReachedInOrder
  <2>4. ASSUME NEW r \in reached
        PROVE  /\ 1 <= r[2] /\ r[2] <= pc'[r[1]]
               /\ r[3] = "answer" /\ state'[r[1]] = "awaiting" => r[2] # pc'[r[1]]
    <3>1. r[1] \in Call /\ r[2] \in Nat /\ 1 <= r[2] /\ r[2] <= pc[r[1]]
          /\ (r[3] = "answer" /\ state[r[1]] = "awaiting" => r[2] # pc[r[1]])
      BY <1>0 DEF ReachedInOrder
    <3>. QED
      BY <1>1, <2>1, <2>2, <3>1
  <2>. QED
    BY <1>1, <2>1, <2>2, <2>3, <2>4 DEF ReachedInOrder
<1>9. Tallied(t)'
  <2>1. Pending(t) = {} /\ Pending(t)' = {}
    BY <1>1 DEF Pending
  <2>2. collector'[t] = WithAccess(collector[t], key)
    BY <1>0, <1>1 DEF MeterTypeOK
  <2>3. ASSUME NEW a \in Access
        PROVE  collector'[t].access[a] = Cardinality((AccessesOf(t, a) \ Pending(t))')
    <3>1. collector[t].access[a] = Cardinality(AccessesOf(t, a))
      BY <1>0, <2>1 DEF Tallied
    <3>2. (AccessesOf(t, a) \ Pending(t))' = IF a = key THEN AccessesOf(t, a) \cup {j} ELSE AccessesOf(t, a)
      BY <1>4, <2>1
    <3>3. Cardinality(AccessesOf(t, a) \cup {j}) = Cardinality(AccessesOf(t, a)) + 1
      BY NotReachedYet, UsesAreFinite, OneMoreAccess DEF j
    <3>4. collector'[t].access[a] = IF a = key THEN collector[t].access[a] + 1
                                    ELSE collector[t].access[a]
      BY <1>3, <1>5, <2>2, AccessKeepsType
    <3>. QED
      BY <3>1, <3>2, <3>3, <3>4
  <2>4. /\ collector'[t].tokens = collector[t].tokens /\ collector'[t].cost = collector[t].cost
        /\ collector'[t].estimated = collector[t].estimated
    BY <1>3, <1>5, <2>2, AccessKeepsType
  <2>. QED
    BY <1>0, <1>4, <2>3, <2>4, SameAnswersSameSums DEF Tallied
<1>. QED
  BY <1>1, <1>5, <1>6, <1>7, <1>8, <1>9, StepKeepsInv

LEMMA BeginKeepsInv ==
  ASSUME MeterInv, NEW t \in Call, Begin(t)
  PROVE  MeterInv'
<1>. DEFINE j == pc[t] + 1
<1>0. MeterTypeOK /\ ReachedInOrder /\ Tallied(t)
  BY DEF MeterInv
<1>1. /\ state[t] = "body" /\ pc[t] < Len(Uses[t]) /\ Coming(t).handle \in {"client", "model"}
      /\ pc' = [pc EXCEPT ![t] = j] /\ state' = [state EXCEPT ![t] = "awaiting"]
      /\ reached' = IF Coming(t).handle = "client"
                    THEN reached \cup {<<t, j, "access">>} ELSE reached
      /\ UNCHANGED <<context, collector, store, execution>>
  BY DEF Begin, CanUse
<1>2. /\ j \in DOMAIN Uses[t] /\ Coming(t) = Uses[t][j] /\ pc[t] \in Nat
      /\ Coming(t) \in ClientUse \cup ModelUse
  BY <1>1, ComingIsNext DEF StoreUse
<1>3. context[t] = t
  BY <1>1, OwnContext
<1>4. /\ pc'[t] = j /\ state'[t] = "awaiting" /\ Current(t)' = Coming(t)
  BY <1>0, <1>1, <1>2 DEF MeterTypeOK, Current
<1>. HIDE DEF j
<1>5. StepOf(t)
  BY <1>0, <1>1, <1>2 DEF StepOf, Reaches, MeterTypeOK
<1>6. MeterTypeOK'
  <2>1. j \in Nat /\ j <= Len(Uses[t])
    BY <1>1, <1>2, UsesAreTyped DEF j
  <2>. QED
    BY <1>0, <1>1, <1>3, <2>1 DEF MeterTypeOK
<1>7. ReachedInOrder'
  <2>1. j \in Nat /\ 1 <= j /\ pc[t] < j
    BY <1>2 DEF j
  <2>2. \A u \in Call : pc[u] \in Nat /\ pc'[u] = IF u = t THEN j ELSE pc[u]
    BY <1>0, <1>1 DEF MeterTypeOK
  <2>3. reached' \subseteq Call \X Nat \X {"access", "answer"}
    BY <1>0, <1>1, <2>1 DEF ReachedInOrder
  <2>4. ASSUME NEW r \in reached
        PROVE  /\ 1 <= r[2] /\ r[2] <= pc'[r[1]]
               /\ r[3] = "answer" /\ state'[r[1]] = "awaiting" => r[2] # pc'[r[1]]
    <3>1. r[1] \in Call /\ r[2] \in Nat /\ 1 <= r[2] /\ r[2] <= pc[r[1]]
          /\ (r[3] = "answer" /\ state[r[1]] = "awaiting" => r[2] # pc[r[1]])
      BY <1>0 DEF ReachedInOrder
    <3>2. r[1] # t => state'[r[1]] = state[r[1]]
      BY <1>0, <1>1, <3>1 DEF MeterTypeOK
    <3>. QED
      BY <2>1, <2>2, <3>1, <3>2
  <2>5. \A r \in reached' \ reached : r = <<t, j, "access">>
    BY <1>1
  <2>. QED
    BY <2>1, <2>2, <2>3, <2>4, <2>5 DEF ReachedInOrder
<1>8. Awaits(t)'
  BY <1>1, <1>2, <1>4 DEF Awaits, j
<1>9. Tallied(t)'
  <2>1. Pending(t) = {}
    BY <1>1 DEF Pending
  <2>2. \A h : AnswersTo(t, h)' = AnswersTo(t, h)
    BY <1>1, <1>2, AccessGrows, NothingGrows
  <2>3. ASSUME NEW a \in Access
        PROVE  (AccessesOf(t, a) \ Pending(t))' = AccessesOf(t, a) \ Pending(t)
    <3>1. j \notin AccessesOf(t, a)
      BY NotReachedYet DEF j
    <3>2. CASE Coming(t).handle = "client"
      <4>1. Pending(t)' = {j}
        BY <1>4, <3>2 DEF Pending
      <4>2. AccessesOf(t, a)' \in {AccessesOf(t, a), AccessesOf(t, a) \cup {j}}
        BY <1>1, <1>2, <3>2, AccessGrows
      <4>. QED
        BY <2>1, <3>1, <4>1, <4>2
    <3>3. CASE Coming(t).handle # "client"
      <4>1. Pending(t)' = {}
        BY <1>4, <3>3 DEF Pending
      <4>2. AccessesOf(t, a)' = AccessesOf(t, a)
        BY <1>1, <3>3, NothingGrows
      <4>. QED
        BY <2>1, <4>1, <4>2
    <3>. QED
      BY <3>2, <3>3
  <2>. QED
    BY <1>0, <1>1, <2>2, <2>3, TallyStays
<1>. QED
  BY <1>1, <1>3, <1>4, <1>5, <1>6, <1>7, <1>8, <1>9, StepKeepsInv

\* A call that awaits awaits one of its own uses.
LEMMA UseUnderWay ==
  ASSUME MeterInv, NEW t \in Call, state[t] = "awaiting"
  PROVE  /\ context[t] = t /\ collector[t] \in Collector /\ Tallied(t) /\ Awaits(t)
         /\ pc[t] \in DOMAIN Uses[t] /\ Current(t) = Uses[t][pc[t]]
         /\ \A h : pc[t] \notin AnswersTo(t, h)
         /\ pc[t] \notin Reported(t) /\ pc[t] \notin Estimated(t) /\ pc[t] \notin Charged(t)
<1>1. Awaits(t) /\ MeterTypeOK
  BY DEF MeterInv, AwaitedWasBegun
<1>2. pc[t] \in DOMAIN Uses[t]
  BY <1>1, UsesAreTyped DEF Awaits, MeterTypeOK
<1>3. \A h : pc[t] \notin AnswersTo(t, h)
  BY NotReachedYet
<1>4. pc[t] \notin Reported(t) /\ pc[t] \notin Estimated(t) /\ pc[t] \notin Charged(t)
  BY <1>3 DEF Reported, Estimated, Charged
<1>. QED
  BY <1>1, <1>2, <1>3, <1>4, OwnContext DEF Current

\* What an answer under way leaves to show is that it is tallied.
LEMMA ReturnKeepsInv ==
  ASSUME MeterInv, NEW t \in Call, state[t] = "awaiting",
         state' = [state EXCEPT ![t] = "body"], UNCHANGED <<pc, context, store, execution>>,
         NEW c \in Collector, collector' = [collector EXCEPT ![t] = c],
         reached' = reached \/ reached' = reached \cup {<<t, pc[t], "answer">>},
         Tallied(t)'
  PROVE  MeterInv'
<1>0. MeterTypeOK /\ ReachedInOrder
  BY DEF MeterInv
<1>1. context[t] = t /\ pc[t] \in DOMAIN Uses[t]
  BY UseUnderWay
<1>2. StepOf(t)
  <2>1. Reaches(t)
    BY <1>1 DEF Reaches
  <2>. QED
    BY <1>0, <2>1 DEF StepOf, MeterTypeOK
<1>3. MeterTypeOK'
  <2>1. collector' \in [Call -> Collector] /\ state' \in [Call -> {"waiting", "body", "awaiting", "ended"}]
    BY <1>0 DEF MeterTypeOK
  <2>2. \A u \in Call : /\ state'[u] \in {"body", "awaiting"} <=> state[u] \in {"body", "awaiting"}
                        /\ state'[u] = "ended" <=> state[u] = "ended"
    BY <1>0 DEF MeterTypeOK
  <2>. QED
    BY <1>0, <2>1, <2>2 DEF MeterTypeOK
<1>4. ReachedInOrder'
  <2>1. pc[t] \in Nat /\ 1 <= pc[t]
    BY <1>1, UsesAreTyped
  <2>2. state'[t] = "body" /\ \A u \in Call : u # t => state'[u] = state[u]
    BY <1>0 DEF MeterTypeOK
  <2>3. reached' \subseteq Call \X Nat \X {"access", "answer"}
    BY <1>0, <2>1 DEF ReachedInOrder
  <2>4. ASSUME NEW r \in reached
        PROVE  /\ 1 <= r[2] /\ r[2] <= pc'[r[1]]
               /\ r[3] = "answer" /\ state'[r[1]] = "awaiting" => r[2] # pc'[r[1]]
    BY <1>0, <2>2 DEF ReachedInOrder
  <2>5. \A r \in reached' \ reached : r = <<t, pc[t], "answer">>
    OBVIOUS
  <2>. QED
    BY <2>1, <2>2, <2>3, <2>4, <2>5 DEF ReachedInOrder
<1>5. state'[t] = "body" /\ context'[t] = t
  BY <1>0, <1>1 DEF MeterTypeOK
<1>. QED
  BY <1>2, <1>3, <1>4, <1>5, StepKeepsInv

LEMMA EndClientKeepsInv ==
  ASSUME MeterInv, NEW t \in Call, NEW ok \in BOOLEAN, EndClient(t, ok)
  PROVE  MeterInv'
<1>. DEFINE j == pc[t]
            with == Accessed(t, collector[t])
            known == ok /\ Current(t).estimate # Nothing
            new == IF known THEN WithEstimate(with, Current(t).estimate) ELSE with
<1>0. /\ state[t] = "awaiting" /\ Current(t).handle = "client" /\ MeterTypeOK
  BY DEF EndClient, MeterInv
<1>1. /\ context[t] = t /\ collector[t] \in Collector /\ Tallied(t)
      /\ j \in DOMAIN Uses[t] /\ Current(t) = Uses[t][j] /\ j \notin Estimated(t)
  BY <1>0, UseUnderWay
<1>2. /\ state' = [state EXCEPT ![t] = "body"] /\ UNCHANGED <<pc, context, store, execution>>
      /\ collector' = [collector EXCEPT ![t] = new]
      /\ reached' = IF ok THEN reached \cup {<<t, j, "answer">>} ELSE reached
  BY <1>1 DEF EndClient, Arrived
<1>3. state'[t] = "body" /\ collector'[t] = new
  BY <1>0, <1>2 DEF MeterTypeOK
<1>4. /\ \A a : AccessesOf(t, a)' = AccessesOf(t, a)
      /\ \A h : AnswersTo(t, h)' = IF ok /\ h = "client" THEN AnswersTo(t, h) \cup {j}
                                   ELSE AnswersTo(t, h)
  BY <1>0, <1>1, <1>2, AnswerGrows, NothingGrows
<1>5. /\ Current(t) \in ClientUse /\ <<"client", Current(t).mode>> \in Access
      /\ \A a \in Access : with.access[a] = Cardinality((AccessesOf(t, a) \ Pending(t))')
  BY <1>0, <1>3, <1>4, AccessedTallies
<1>6. /\ with \in Collector /\ with.tokens = collector[t].tokens
      /\ with.cost = collector[t].cost /\ with.estimated = collector[t].estimated
  BY <1>1, <1>5, AccessKeepsType DEF Accessed
<1>7. known => Current(t).estimate \in Nat
  BY <1>5 DEF ClientUse
<1>. HIDE DEF with
<1>8. /\ new \in Collector /\ new.access = with.access /\ new.cost = with.cost
      /\ known => new.tokens = Merged(with.tokens, Current(t).estimate) /\ new.estimated = TRUE
      /\ ~known => new = with
  BY <1>6, <1>7, RecordsKeepType
<1>. HIDE DEF new
<1>9. Reported(t)' = Reported(t) /\ Charged(t)' = Charged(t)
      /\ Estimated(t)' = IF known THEN Estimated(t) \cup {j} ELSE Estimated(t)
  <2>1. Reported(t)' = Reported(t)
    BY <1>4 DEF Reported
  <2>2. Charged(t)' = Charged(t)
    BY <2>1 DEF Charged
  <2>3. Estimated(t)' = IF known THEN Estimated(t) \cup {j} ELSE Estimated(t)
    BY <1>1, <1>4 DEF Estimated
  <2>. QED
    BY <2>1, <2>2, <2>3
<1>. HIDE DEF j
<1>10. CostOf(t)' = CostOf(t)
  BY <1>9 DEF CostOf
<1>11. Tallied(t)'
  <2>1. CASE known
    <3>1. collector[t].tokens \in Nat \cup {Nothing}
      BY <1>1 DEF Collector, OrNone
    <3>2. collector[t].tokens = IF Reported(t) \cup Estimated(t) = {} THEN Nothing ELSE TokensOf(t)
      BY <1>1 DEF Tallied
    <3>3. Merged(collector[t].tokens, Uses[t][j].estimate) = TokensOf(t)'
      BY <1>1, <1>7, <1>9, <2>1, <3>1, <3>2, EstimateTallies
    <3>4. new.tokens = TokensOf(t)' /\ new.estimated = TRUE /\ new.cost = collector[t].cost
          /\ new.access = with.access
      BY <1>1, <1>6, <1>8, <2>1, <3>3
    <3>5. Estimated(t)' # {}
      BY <1>9, <2>1
    <3>. QED
      BY <1>1, <1>3, <1>5, <1>10, <3>4, <3>5 DEF Tallied
  <2>2. CASE ~known
    <3>1. TokensOf(t)' = TokensOf(t)
      BY <1>9, <2>2 DEF TokensOf
    <3>. QED
      BY <1>1, <1>3, <1>5, <1>6, <1>8, <1>9, <1>10, <2>2, <3>1 DEF Tallied
  <2>. QED
    BY <2>1, <2>2
<1>. QED
  BY <1>0, <1>2, <1>8, <1>11, ReturnKeepsInv DEF j

LEMMA EndModelKeepsInv ==
  ASSUME MeterInv, NEW t \in Call, NEW ok \in BOOLEAN, EndModel(t, ok)
  PROVE  MeterInv'
<1>. DEFINE j == pc[t]
            use == Current(t)
            known == ok /\ use.tokens # Nothing
            counted == WithTokens(collector[t], use.tokens)
            new == IF ok THEN Completed(t, collector[t]) ELSE collector[t]
<1>0. /\ state[t] = "awaiting" /\ use.handle = "model" /\ MeterTypeOK
  BY DEF EndModel, MeterInv
<1>1. /\ context[t] = t /\ collector[t] \in Collector /\ Tallied(t) /\ Awaits(t)
      /\ j \in DOMAIN Uses[t] /\ use = Uses[t][j] /\ j \notin Reported(t) /\ j \notin Charged(t)
  BY <1>0, UseUnderWay
<1>2. /\ state' = [state EXCEPT ![t] = "body"] /\ UNCHANGED <<pc, context, store, execution>>
      /\ collector' = [collector EXCEPT ![t] = new]
      /\ reached' = IF ok THEN reached \cup {<<t, j, "answer">>} ELSE reached
  BY <1>0, <1>1 DEF EndModel, Arrived, MeterTypeOK
<1>3. state'[t] = "body" /\ collector'[t] = new
  BY <1>0, <1>2 DEF MeterTypeOK
<1>4. /\ \A a : AccessesOf(t, a)' = AccessesOf(t, a)
      /\ \A h : AnswersTo(t, h)' = IF ok /\ h = "model" THEN AnswersTo(t, h) \cup {j}
                                   ELSE AnswersTo(t, h)
  BY <1>0, <1>1, <1>2, AnswerGrows, NothingGrows
<1>5. use \in ModelUse
  BY <1>0, <1>1 DEF Awaits, ClientUse
<1>6. /\ known => use.tokens \in Nat /\ use.tokens * Price \in Nat
      /\ use.priced \in BOOLEAN
  BY <1>5, MeteringAssumption DEF ModelUse
<1>. HIDE DEF use
<1>7. known => /\ counted \in Collector
               /\ counted.tokens = Merged(collector[t].tokens, use.tokens)
               /\ counted.access = collector[t].access /\ counted.cost = collector[t].cost
               /\ counted.estimated = collector[t].estimated
  <2>. SUFFICES ASSUME known
                PROVE  /\ counted \in Collector
                       /\ counted.tokens = Merged(collector[t].tokens, use.tokens)
                       /\ counted.access = collector[t].access /\ counted.cost = collector[t].cost
                       /\ counted.estimated = collector[t].estimated
    OBVIOUS
  <2>1. use.tokens \in Nat /\ collector[t] \in Collector
    BY <1>1, <1>6
  <2>. QED
    BY <2>1, RecordsKeepType
<1>8. /\ ~known => new = collector[t]
      /\ known /\ ~use.priced => new = counted
      /\ known /\ use.priced => new = WithCost(counted, use.tokens * Price)
  BY DEF Completed, use
<1>. HIDE DEF counted, new
<1>9. /\ new \in Collector /\ new.access = collector[t].access
      /\ new.estimated = collector[t].estimated
      /\ known => new.tokens = Merged(collector[t].tokens, use.tokens)
      /\ known /\ use.priced => new.cost = Merged(collector[t].cost, use.tokens * Price)
      /\ ~(known /\ use.priced) => new.cost = collector[t].cost
  <2>1. CASE ~known
    BY <1>1, <1>8, <2>1
  <2>2. CASE known /\ ~use.priced
    BY <1>7, <1>8, <2>2
  <2>3. CASE known /\ use.priced
    <3>. DEFINE cost == use.tokens * Price
    <3>1. cost \in Nat /\ counted \in Collector
      BY <1>6, <1>7, <2>3
    <3>. HIDE DEF cost
    <3>2. /\ WithCost(counted, cost) \in Collector
          /\ WithCost(counted, cost).cost = Merged(counted.cost, cost)
          /\ WithCost(counted, cost).access = counted.access
          /\ WithCost(counted, cost).tokens = counted.tokens
          /\ WithCost(counted, cost).estimated = counted.estimated
      BY <3>1, RecordsKeepType
    <3>3. new = WithCost(counted, cost)
      BY <1>8, <2>3 DEF cost
    <3>. QED
      BY <1>7, <2>3, <3>2, <3>3 DEF cost
  <2>. QED
    BY <1>6, <2>1, <2>2, <2>3
<1>10. /\ Estimated(t)' = Estimated(t)
       /\ Reported(t)' = IF known THEN Reported(t) \cup {j} ELSE Reported(t)
       /\ Charged(t)' = IF known /\ use.priced THEN Charged(t) \cup {j} ELSE Charged(t)
  <2>1. Estimated(t)' = Estimated(t)
    BY <1>4 DEF Estimated
  <2>2. Reported(t)' = IF known THEN Reported(t) \cup {j} ELSE Reported(t)
    BY <1>1, <1>4 DEF Reported
  <2>3. Charged(t)' = IF known /\ use.priced THEN Charged(t) \cup {j} ELSE Charged(t)
    BY <1>1, <2>2 DEF Charged
  <2>. QED
    BY <2>1, <2>2, <2>3
<1>. HIDE DEF j
<1>11. \A a \in Access : new.access[a] = Cardinality((AccessesOf(t, a) \ Pending(t))')
  <2>1. Pending(t) = {} /\ Pending(t)' = {}
    BY <1>0, <1>3 DEF Pending, use
  <2>2. \A a \in Access : collector[t].access[a] = Cardinality(AccessesOf(t, a))
    BY <1>1, <2>1 DEF Tallied
  <2>3. \A a : (AccessesOf(t, a) \ Pending(t))' = AccessesOf(t, a)
    BY <1>4, <2>1
  <2>. QED
    BY <1>9, <2>2, <2>3
<1>12. CostOf(t)' = new.cost
  <2>1. collector[t].cost = CostOf(t)
    BY <1>1 DEF Tallied
  <2>2. CASE known /\ use.priced
    <3>1. Merged(CostOf(t), Uses[t][j].tokens * Price) = CostOf(t)'
      BY <1>1, <1>6, <1>10, <2>2, ChargeTallies
    <3>. QED
      BY <1>1, <1>9, <2>1, <2>2, <3>1
  <2>3. CASE ~(known /\ use.priced)
    BY <1>9, <1>10, <2>1, <2>3 DEF CostOf
  <2>. QED
    BY <2>2, <2>3
<1>13. new.tokens = IF Reported(t)' \cup Estimated(t)' = {} THEN Nothing ELSE TokensOf(t)'
  <2>1. collector[t].tokens = IF Reported(t) \cup Estimated(t) = {} THEN Nothing ELSE TokensOf(t)
    BY <1>1 DEF Tallied
  <2>2. CASE known
    <3>1. collector[t].tokens \in Nat \cup {Nothing}
      BY <1>1 DEF Collector, OrNone
    <3>2. Merged(collector[t].tokens, Uses[t][j].tokens) = TokensOf(t)'
      BY <1>1, <1>6, <1>10, <2>1, <2>2, <3>1, AnswerTallies
    <3>. QED
      BY <1>1, <1>9, <1>10, <2>2, <3>2
  <2>3. CASE ~known
    BY <1>8, <1>10, <2>1, <2>3 DEF TokensOf
  <2>. QED
    BY <2>2, <2>3
<1>14. new.estimated <=> Estimated(t)' # {}
  BY <1>1, <1>9, <1>10 DEF Tallied
<1>15. Tallied(t)'
  BY <1>3, <1>11, <1>12, <1>13, <1>14 DEF Tallied
<1>. QED
  BY <1>0, <1>2, <1>9, <1>15, ReturnKeepsInv DEF j

LEMMA BillIsTyped ==
  ASSUME NEW t \in Call, NEW c \in Collector
  PROVE  Bill(t, c) \in Bills /\ Bill(t, c) # Nothing
<1>1. Declared[t] \in Nat \cup {Nothing} /\ Source(c) \in {"estimated", "measured", "declared"}
  BY MeteringAssumption DEF Source
<1>2. Bill(t, c) \in Bills
  BY <1>1 DEF Bill, Bills, Collector, OrNone
<1>. QED
  BY <1>2, BillsAssumption

\* A call that ends with all of its accesses recorded
LEMMA SettleKeepsInv ==
  ASSUME MeterInv, NEW t \in Call, state[t] \in {"body", "awaiting"},
         NEW c \in Collector, Settle(t, c),
         \A a \in Access : c.access[a] = Cardinality(AccessesOf(t, a)),
         c.tokens = collector[t].tokens, c.cost = collector[t].cost,
         c.estimated = collector[t].estimated
  PROVE  MeterInv'
<1>0. MeterTypeOK /\ ReachedInOrder /\ Tallied(t)
  BY DEF MeterInv
<1>1. context[t] = t
  BY OwnContext
<1>2. /\ state' = [state EXCEPT ![t] = "ended"] /\ collector' = [collector EXCEPT ![t] = c]
      /\ execution' = [execution EXCEPT ![t] = Bill(t, c)]
      /\ context' = [context EXCEPT ![t] = Nothing] /\ UNCHANGED <<pc, store, reached>>
  BY <1>1 DEF Settle
<1>3. /\ state'[t] = "ended" /\ collector'[t] = c /\ execution'[t] = Bill(t, c)
      /\ context'[t] = Nothing
  BY <1>0, <1>2 DEF MeterTypeOK
<1>4. StepOf(t)
  <2>1. Reaches(t)
    BY <1>2 DEF Reaches
  <2>. QED
    BY <1>0, <1>2, <2>1 DEF StepOf, MeterTypeOK
<1>5. MeterTypeOK'
  <2>1. Bill(t, c) \in Bills /\ Bill(t, c) # Nothing
    BY BillIsTyped
  <2>. QED
    BY <1>0, <1>2, <2>1 DEF MeterTypeOK, OrNone
<1>6. ReachedInOrder'
  <2>1. \A u \in Call : state'[u] = "awaiting" => state[u] = "awaiting"
    BY <1>0, <1>2 DEF MeterTypeOK
  <2>2. \A r \in reached : r[1] \in Call
    BY <1>0 DEF ReachedInOrder
  <2>. QED
    BY <1>0, <1>2, <2>1, <2>2 DEF ReachedInOrder
<1>7. Tallied(t)'
  <2>1. Pending(t)' = {}
    BY <1>3 DEF Pending
  <2>2. /\ \A a : AccessesOf(t, a)' = AccessesOf(t, a)
        /\ \A h : AnswersTo(t, h)' = AnswersTo(t, h)
    BY <1>2, NothingGrows
  <2>3. \A a \in Access : c.access[a] = Cardinality((AccessesOf(t, a) \ Pending(t))')
    BY <2>1, <2>2
  <2>. QED
    BY <1>0, <1>3, <2>2, <2>3, SameAnswersSameSums DEF Tallied
<1>. QED
  BY <1>3, <1>4, <1>5, <1>6, <1>7, StepKeepsInv

LEMMA EndKeepsInv ==
  ASSUME MeterInv, NEW t \in Call, End(t)
  PROVE  MeterInv'
<1>1. state[t] = "body" /\ Settle(t, collector[context[t]])
  BY DEF End
<1>2. context[t] = t /\ collector[t] \in Collector /\ Tallied(t)
  BY <1>1, OwnContext
<1>3. Pending(t) = {}
  BY <1>1 DEF Pending
<1>4. \A a \in Access : collector[t].access[a] = Cardinality(AccessesOf(t, a))
  BY <1>2, <1>3 DEF Tallied
<1>. QED
  BY <1>1, <1>2, <1>4, SettleKeepsInv

LEMMA TimeOutKeepsInv ==
  ASSUME MeterInv, NEW t \in Call, TimeOut(t)
  PROVE  MeterInv'
<1>. DEFINE c == collector[t]
            new == IF Current(t).handle = "client" THEN Accessed(t, c) ELSE c
<1>1. state[t] = "awaiting"
  BY DEF TimeOut
<1>2. context[t] = t /\ c \in Collector /\ Tallied(t) /\ Awaits(t)
  BY <1>1, UseUnderWay
<1>3. Settle(t, new)
  BY <1>2 DEF TimeOut
<1>4. state'[t] # "awaiting" /\ reached' = reached
  BY <1>3 DEF Settle, MeterInv, MeterTypeOK
<1>5. \A a : AccessesOf(t, a)' = AccessesOf(t, a)
  BY <1>4, NothingGrows
<1>6. CASE Current(t).handle = "client"
  <2>1. <<"client", Current(t).mode>> \in Access
        /\ \A a \in Access : Accessed(t, c).access[a] = Cardinality((AccessesOf(t, a) \ Pending(t))')
    BY <1>1, <1>4, <1>5, <1>6, AccessedTallies
  <2>2. \A a : (AccessesOf(t, a) \ Pending(t))' = AccessesOf(t, a)
    BY <1>4, <1>5 DEF Pending
  <2>3. /\ Accessed(t, c) \in Collector /\ Accessed(t, c).tokens = c.tokens
        /\ Accessed(t, c).cost = c.cost /\ Accessed(t, c).estimated = c.estimated
    BY <1>2, <2>1, AccessKeepsType DEF Accessed
  <2>. QED
    BY <1>1, <1>3, <1>6, <2>1, <2>2, <2>3, SettleKeepsInv
<1>7. CASE Current(t).handle # "client"
  <2>1. \A a \in Access : c.access[a] = Cardinality(AccessesOf(t, a))
    BY <1>2, <1>7 DEF Tallied, Pending
  <2>. QED
    BY <1>1, <1>2, <1>3, <1>7, <2>1, SettleKeepsInv
<1>. QED
  BY <1>6, <1>7

LEMMA InitMeterInv ==
  ASSUME MeterInit
  PROVE  MeterInv
<1>1. MeterTypeOK
  <2>1. \A t \in Call : 0 <= Len(Uses[t])
    BY UsesAreTyped
  <2>. QED
    BY <2>1, MeteringAssumption
    DEF MeterInit, MeterTypeOK, Empty, Collector, OrNone
<1>2. ReachedInOrder /\ ContextsAreOwn /\ AwaitedWasBegun /\ WriterHasWritten
  BY DEF MeterInit, ReachedInOrder, ContextsAreOwn, AwaitedWasBegun, WriterHasWritten
<1>3. ASSUME NEW t \in Call PROVE Tallied(t)
  <2>1. /\ \A a : AccessesOf(t, a) = {}
        /\ Reported(t) = {} /\ Estimated(t) = {} /\ Charged(t) = {}
    BY DEF MeterInit, AccessesOf, Reported, Estimated, Charged, AnswersTo
  <2>2. Pending(t) = {}
    BY DEF MeterInit, Pending
  <2>3. collector[t] = Empty
    BY DEF MeterInit
  <2>4. Cardinality({}) = 0
    BY FS_EmptySet
  <2>5. \A a \in Access : Empty.access[a] = 0
    BY DEF Empty
  <2>. QED
    BY <2>1, <2>2, <2>3, <2>4, <2>5 DEF Tallied, Empty, CostOf
<1>. QED
  BY <1>1, <1>2, <1>3 DEF MeterInv, MeterInit

\* What the collectors hold is, at every moment, what their own calls have reached,
\* whichever calls run next to them.
THEOREM MeteringIsGood == MeterSpec => []MeterInv
<1>1. MeterInit => MeterInv
  BY InitMeterInv
<1>2. MeterInv /\ [MeterNext]_meterVars => MeterInv'
  <2>. SUFFICES ASSUME MeterInv, [MeterNext]_meterVars
                PROVE  MeterInv'
    OBVIOUS
  <2>1. CASE UNCHANGED meterVars
    <3>1. MeterTypeOK' /\ ReachedInOrder' /\ ContextsAreOwn'
      BY <2>1 DEF meterVars, MeterInv, MeterTypeOK, ReachedInOrder, ContextsAreOwn
    <3>2. AwaitedWasBegun' /\ WriterHasWritten'
      BY <2>1 DEF meterVars, MeterInv, AwaitedWasBegun, Awaits, Current, WriterHasWritten, AccessesOf
    <3>3. ASSUME NEW t \in Call PROVE Tallied(t)'
      <4>1. Tallied(t) /\ reached' = reached /\ collector' = collector
        BY <2>1 DEF MeterInv, meterVars
      <4>2. Pending(t)' = Pending(t)
        BY <2>1 DEF meterVars, Pending, Current
      <4>3. /\ \A a : AccessesOf(t, a)' = AccessesOf(t, a)
            /\ \A h : AnswersTo(t, h)' = AnswersTo(t, h)
        BY <4>1, NothingGrows
      <4>. QED
        BY <4>1, <4>2, <4>3, TallyStays
    <3>4. \A t \in Call : state'[t] = "ended" => execution'[t] = Bill(t, collector'[t])
      BY <2>1 DEF meterVars, MeterInv
    <3>. QED
      BY <3>1, <3>2, <3>3, <3>4 DEF MeterInv
  <2>2. ASSUME NEW t \in Call, Mount(t) PROVE MeterInv'
    BY <2>2, MountKeepsInv
  <2>3. ASSUME NEW t \in Call, UseStore(t) PROVE MeterInv'
    BY <2>3, UseStoreKeepsInv
  <2>4. ASSUME NEW t \in Call, Begin(t) PROVE MeterInv'
    BY <2>4, BeginKeepsInv
  <2>5. ASSUME NEW t \in Call, NEW ok \in BOOLEAN, EndClient(t, ok) PROVE MeterInv'
    BY <2>5, EndClientKeepsInv
  <2>6. ASSUME NEW t \in Call, NEW ok \in BOOLEAN, EndModel(t, ok) PROVE MeterInv'
    BY <2>6, EndModelKeepsInv
  <2>7. ASSUME NEW t \in Call, End(t) PROVE MeterInv'
    BY <2>7, EndKeepsInv
  <2>8. ASSUME NEW t \in Call, TimeOut(t) PROVE MeterInv'
    BY <2>8, TimeOutKeepsInv
  <2>. QED
    BY <2>1, <2>2, <2>3, <2>4, <2>5, <2>6, <2>7, <2>8 DEF MeterNext
<1>. QED
  BY <1>1, <1>2, PTL DEF MeterSpec

\* Every variable has its type, a context holds a collector exactly while its call is
\* under way, and there is an execution exactly when the call has ended.
THEOREM MeteringIsTyped == MeterSpec => []MeterTypeOK
<1>1. MeterInv => MeterTypeOK
  BY DEF MeterInv
<1>. QED
  BY <1>1, MeteringIsGood, PTL

----------------------------------------------------------------------------
(* Metering: the bills and their sum *)

LEMMA EndedIsTallied ==
  ASSUME MeterInv, NEW t \in Done
  PROVE  /\ t \in Call /\ state[t] = "ended" /\ Tallied(t) /\ collector[t] \in Collector
         /\ execution[t] = Bill(t, collector[t]) /\ execution[t] \in Bills
         /\ \A a \in Access : collector[t].access[a] = Cardinality(AccessesOf(t, a))
<1>1. t \in Call /\ state[t] = "ended"
  BY DEF Done
<1>2. Tallied(t) /\ collector[t] \in Collector /\ execution[t] = Bill(t, collector[t])
  BY <1>1 DEF MeterInv, MeterTypeOK
<1>3. Pending(t) = {}
  BY <1>1 DEF Pending
<1>. QED
  BY <1>1, <1>2, <1>3, BillIsTyped DEF Tallied

LEMMA BilledIsOwn ==
  ASSUME MeterInv
  PROVE  BillsAreOwn
<1>. SUFFICES ASSUME NEW t \in Done
              PROVE  /\ \A a \in Access : execution[t].access[a] = Cardinality(AccessesOf(t, a))
                     /\ execution[t].tokens = IF Reported(t) \cup Estimated(t) = {} THEN Nothing
                                              ELSE TokensOf(t)
                     /\ execution[t].measured = CostOf(t)
                     /\ execution[t].source = "estimated" <=> Estimated(t) # {}
                     /\ execution[t].source = "declared" =>
                          execution[t].tokens = Nothing /\ \A a \in Access : AccessesOf(t, a) = {}
  BY DEF BillsAreOwn
<1>. DEFINE c == collector[t]
<1>1. /\ t \in Call /\ Tallied(t) /\ c \in Collector /\ execution[t] = Bill(t, c)
      /\ \A a \in Access : c.access[a] = Cardinality(AccessesOf(t, a))
  BY EndedIsTallied
<1>2. /\ execution[t].access = c.access /\ execution[t].tokens = c.tokens
      /\ execution[t].measured = c.cost /\ execution[t].source = Source(c)
  BY <1>1 DEF Bill
<1>3. /\ c.tokens = IF Reported(t) \cup Estimated(t) = {} THEN Nothing ELSE TokensOf(t)
      /\ c.cost = CostOf(t) /\ (c.estimated <=> Estimated(t) # {})
  BY <1>1 DEF Tallied
<1>4. TokensOf(t) # Nothing
  <2>1. PICK m \in Nat, n \in Nat : TokensOf(t) = m + n
    BY <1>1, TotalsAreNumbers
  <2>. QED
    BY <2>1, MeteringAssumption
<1>5. c.estimated /\ c.tokens # Nothing <=> Estimated(t) # {}
  BY <1>3, <1>4
<1>6. Source(c) = "estimated" <=> Estimated(t) # {}
  BY <1>5 DEF Source
<1>7. ASSUME Source(c) = "declared"
      PROVE  c.tokens = Nothing /\ \A a \in Access : ~(c.access[a] > 0)
  BY <1>7 DEF Source
<1>8. ASSUME NEW a \in Access, Source(c) = "declared"
      PROVE  AccessesOf(t, a) = {}
  <2>1. IsFiniteSet(AccessesOf(t, a)) /\ c.access[a] \in Nat
    BY <1>1, UsesAreFinite DEF Collector
  <2>2. Cardinality(AccessesOf(t, a)) = 0
    BY <1>1, <1>7, <1>8, <2>1
  <2>. QED
    BY <2>1, <2>2, FS_EmptySet
<1>. QED
  BY <1>1, <1>2, <1>3, <1>6, <1>7, <1>8

LEMMA TrialIsSum ==
  ASSUME MeterInv
  PROVE  TrialAddsUp
<1>1. \A t \in Done : /\ t \in Call /\ execution[t].cost = Declared[t]
                      /\ execution[t].tokens = IF Reported(t) \cup Estimated(t) = {} THEN Nothing
                                               ELSE TokensOf(t)
                      /\ \A a \in Access : execution[t].access[a] = Cardinality(AccessesOf(t, a))
  <2>. TAKE t \in Done
  <2>1. t \in Call /\ execution[t] = Bill(t, collector[t])
    BY EndedIsTallied
  <2>2. execution[t].cost = Declared[t]
    BY <2>1 DEF Bill
  <2>3. BillsAreOwn
    BY BilledIsOwn
  <2>. QED
    BY <2>1, <2>2, <2>3 DEF BillsAreOwn
<1>. DEFINE known == {t \in Done : Declared[t] # Nothing}
            costs == [t \in Call |-> IF t \in Done THEN execution[t].cost ELSE Nothing]
<1>2. IF known = {} THEN Trial.cost = Nothing
      ELSE Trial.cost = SumFunction([t \in known |-> Declared[t]])
  <2>1. {t \in Done : costs[t] # Nothing} = known
    BY <1>1
  <2>2. [t \in known |-> costs[t]] = [t \in known |-> Declared[t]]
    BY <1>1
  <2>3. Trial.cost = SumKnown(costs)
    BY DEF Trial
  <2>. HIDE DEF known, costs
  <2>4. SumKnown(costs) = IF known = {} THEN Nothing ELSE SumFunction([t \in known |-> costs[t]])
    BY <2>1 DEF SumKnown
  <2>. QED
    BY <2>2, <2>3, <2>4
<1>3. ASSUME NEW a \in Access
      PROVE  Trial.access[a] = SumFunction([t \in Done |-> Cardinality(AccessesOf(t, a))])
  <2>1. [t \in Done |-> execution[t].access[a]] = [t \in Done |-> Cardinality(AccessesOf(t, a))]
    BY <1>1
  <2>2. Trial.access[a] = SumFunction([t \in Done |-> execution[t].access[a]])
    BY DEF Trial
  <2>. QED
    BY <2>1, <2>2
<1>4. Trial.tokens = SumFunction([t \in Done |-> TokensOf(t)])
  <2>. DEFINE billed == {t \in Done : execution[t].tokens # Nothing}
              used == [t \in Done |-> TokensOf(t)]
  <2>1. \A t \in Done : TokensOf(t) \in Nat /\ TokensOf(t) # Nothing
    <3>. TAKE t \in Done
    <3>1. PICK m \in Nat, n \in Nat : TokensOf(t) = m + n
      BY <1>1, TotalsAreNumbers
    <3>. QED
      BY <3>1, MeteringAssumption
  <2>2. used \in [Done -> Nat]
    BY <2>1
  <2>3. \A t \in billed : execution[t].tokens = TokensOf(t)
    BY <1>1
  <2>4. ASSUME NEW t \in Done \ billed PROVE used[t] = 0
    <3>1. Reported(t) = {} /\ Estimated(t) = {} /\ t \in Call
      BY <1>1, <2>1
    <3>2. TokensOf(t) = Total(TokensIn(t), {}) + Total(EstimatesIn(t), {})
      BY <3>1, TotalsAreNumbers
    <3>. QED
      BY <3>2, TotalOfNone
  <2>5. IsFiniteSet(Done)
    BY MeteringAssumption, FS_Subset DEF Done
  <2>6. billed \in SUBSET Done
    OBVIOUS
  <2>7. Part(used, billed) = [t \in billed |-> execution[t].tokens]
    BY <2>3 DEF Part
  <2>8. Trial.tokens = SumFunction([t \in billed |-> execution[t].tokens])
    BY DEF Trial
  <2>. HIDE DEF used, billed
  <2>9. SumFunction(used) = SumFunction(Part(used, billed))
    BY <2>2, <2>4, <2>5, <2>6, SumOfSupport
  <2>. QED
    BY <2>7, <2>8, <2>9 DEF used
<1>5. ASSUME NEW k \in Key, store[k] \in Done
      PROVE  execution[store[k]].access[<<"store", "write">>] > 0
  <2>1. PICK t \in Done : t = store[k]
    BY <1>5
  <2>2. t \in Call /\ t # Nothing
    BY <1>1, MeteringAssumption
  <2>3. IsFiniteSet(AccessesOf(t, <<"store", "write">>)) /\ AccessesOf(t, <<"store", "write">>) # {}
    BY <2>1, <2>2, UsesAreFinite DEF MeterInv, WriterHasWritten
  <2>4. /\ Cardinality(AccessesOf(t, <<"store", "write">>)) \in Nat
        /\ Cardinality(AccessesOf(t, <<"store", "write">>)) # 0
    BY <2>3, FS_EmptySet, FS_CardinalityType
  <2>. QED
    BY <1>1, <2>1, <2>4 DEF Access
<1>. QED
  BY <1>2, <1>3, <1>4, <1>5 DEF TrialAddsUp

\* Whatever ran next to a call, and wherever it was cancelled, its execution bills what
\* its own tool had, and the trial is the sum of these bills: nothing counted twice or
\* dropped, no estimate sold as measured, a cost unknown where nobody declared one.
THEOREM MeteringIsTrueAlways == MeterSpec => []MeteringIsTrue
<1>1. MeterInv => MeteringIsTrue
  BY BilledIsOwn, TrialIsSum DEF MeteringIsTrue
<1>. QED
  BY <1>1, MeteringIsGood, PTL

=============================================================================
