-------------------------- MODULE ResourceUsageProofs --------------------------
(***************************************************************************)
(* Theorems about usage: whose it is, and how much, for any reports, any   *)
(* projects and any number of collectors, aggregations and backfills at    *)
(* once.                                                                   *)
(***************************************************************************)
EXTENDS ResourceUsage, FiniteSetTheorems, SequenceTheorems, WellFoundedInduction, TLAPS

-----------------------------------------------------------------------------
(* Finite sets and sums.                                                   *)

\* A set of finite sets has one that cannot lose an element and stay in it: the
\* form in which the proofs below argue by induction.
LEMMA SmallestSet ==
  ASSUME NEW S, IsFiniteSet(S), NEW Bad \in SUBSET (SUBSET S), Bad # {}
  PROVE  \E T \in Bad : IsFiniteSet(T) /\ \A x \in T : T \ {x} \notin Bad
<1> DEFINE N == {n \in Nat : \E T \in Bad : Cardinality(T) = n}
<1>1. \A T \in SUBSET S : IsFiniteSet(T) /\ Cardinality(T) \in Nat
  BY FS_Subset, FS_CardinalityType
<1>2. PICK n \in N : \A m \in N : <<m, n>> \notin OpToRel(<, Nat)
  <2>1. N \subseteq Nat /\ N # {}
    BY <1>1
  <2> HIDE DEF N
  <2> QED BY <2>1, NatLessThanWellFounded, WFMin
<1>3. PICK T \in Bad : Cardinality(T) = n
  OBVIOUS
<1>4. ASSUME NEW x \in T, T \ {x} \in Bad PROVE FALSE
  <2>1. Cardinality(T \ {x}) = n - 1 /\ n - 1 \in Nat
    BY <1>1, <1>3, <1>4, FS_RemoveElement
  <2>2. n - 1 \in N
    BY <1>4, <2>1
  <2>3. <<n - 1, n>> \in Nat \X Nat /\ <<n - 1, n>>[1] < <<n - 1, n>>[2]
    BY <2>1
  <2> QED BY <1>2, <2>2, <2>3, Zenon DEF OpToRel
<1> QED BY <1>1, <1>3, <1>4

\* The function by which MapThenFoldSet adds up the parts of a set.
First(s) == CHOOSE x \in s : TRUE
IsSum(g, f, S) == g = [s \in SUBSET S |-> IF s = {} THEN 0 ELSE f[First(s)] + g[s \ {First(s)}]]

LEMMA TotalIsSum ==
  ASSUME NEW f, NEW S
  PROVE  Total(f, S) = (CHOOSE g : IsSum(g, f, S))[S]
<1>1. Total(f, S) = (CHOOSE g : g = [s \in SUBSET S |-> IF s = {} THEN 0 ELSE f[First(s)] + g[s \ {First(s)}]])[S]
  BY Zenon DEF Total, MapThenSumSet, MapThenFoldSet, First
<1> QED BY <1>1, Zenon DEF IsSum

LEMMA SumAt ==
  ASSUME NEW g, NEW f, NEW S, IsSum(g, f, S), NEW s \in SUBSET S
  PROVE  g[s] = IF s = {} THEN 0 ELSE f[First(s)] + g[s \ {First(s)}]
BY Zenon DEF IsSum

LEMMA FirstIsOne ==
  ASSUME NEW s, s # {}
  PROVE  First(s) \in s
BY DEF First

LEMMA SumsAgree ==
  ASSUME NEW f, NEW g, NEW S, IsSum(g, f, S), NEW h, NEW T, IsSum(h, f, T),
         NEW s, s \subseteq S, s \subseteq T, IsFiniteSet(s)
  PROVE  g[s] = h[s]
<1> DEFINE Bad == {t \in SUBSET s : g[t] # h[t]}
<1>1. SUFFICES ASSUME Bad # {} PROVE FALSE
  OBVIOUS
<1>2. PICK t \in Bad : \A x \in t : t \ {x} \notin Bad
  <2>1. Bad \in SUBSET (SUBSET s)
    OBVIOUS
  <2> HIDE DEF Bad
  <2> QED BY <1>1, <2>1, SmallestSet
<1>3. t \in SUBSET S /\ t \in SUBSET T /\ t \in SUBSET s /\ g[t] # h[t]
  OBVIOUS
<1>4. t # {}
  BY <1>3, SumAt
<1>5. PICK c \in t : c = First(t)
  BY <1>4, FirstIsOne
<1>6. g[t \ {c}] = h[t \ {c}]
  BY <1>2, <1>3
<1>7. g[t] = f[c] + g[t \ {c}] /\ h[t] = f[c] + h[t \ {c}]
  BY <1>3, <1>4, <1>5, SumAt
<1> QED BY <1>3, <1>6, <1>7

LEMMA SumExists ==
  ASSUME NEW f, NEW S, IsFiniteSet(S)
  PROVE  \E g : IsSum(g, f, S)
<1> DEFINE Bad == {T \in SUBSET S : \A g : ~IsSum(g, f, T)}
<1>1. SUFFICES ASSUME Bad # {} PROVE FALSE
  OBVIOUS
<1>2. PICK T \in Bad : IsFiniteSet(T) /\ \A x \in T : T \ {x} \notin Bad
  <2>1. Bad \in SUBSET (SUBSET S)
    OBVIOUS
  <2> HIDE DEF Bad
  <2> QED BY <1>1, <2>1, SmallestSet
<1>3. T \in SUBSET S /\ \A g : ~IsSum(g, f, T)
  OBVIOUS
<1>4. \A x \in T : \E g : IsSum(g, f, T \ {x})
  BY <1>2, <1>3
<1> HIDE DEF Bad
<1> DEFINE h == [x \in T |-> CHOOSE g : IsSum(g, f, T \ {x})]
           Val(s) == h[CHOOSE x \in T \ s : TRUE][s]
           k == [s \in SUBSET T |-> IF s = {} THEN 0
                                    ELSE IF s = T THEN f[First(T)] + Val(T \ {First(T)}) ELSE Val(s)]
<1>5. \A x \in T : IsSum(h[x], f, T \ {x})
  BY <1>4, Zenon
<1>6. ASSUME NEW s \in SUBSET T, NEW x \in T \ s PROVE Val(s) = h[x][s]
  <2>1. PICK y \in T \ s : y = CHOOSE z \in T \ s : TRUE
    OBVIOUS
  <2>2. IsSum(h[x], f, T \ {x}) /\ IsSum(h[y], f, T \ {y}) /\ IsFiniteSet(s)
    BY <1>2, <1>5, FS_Subset
  <2> HIDE DEF h
  <2>3. h[y][s] = h[x][s]
    BY <2>1, <2>2, SumsAgree
  <2> QED BY <2>1, <2>3
<1>7. ASSUME NEW s \in SUBSET T, s # {} PROVE k[s] = f[First(s)] + k[s \ {First(s)}]
  <2>1. PICK c \in s : c = First(s)
    BY <1>7, FirstIsOne
  <2>a. PICK t : t = s \ {c}
    OBVIOUS
  <2>2. t = s \ {c} /\ t \in SUBSET T /\ t # T
    BY <2>a
  <2>3. k[t] = Val(t)
    <3>1. CASE t = {}
      <4>1. IsSum(h[c], f, T \ {c}) /\ c \in T \ t
        BY <1>5, <2>2
      <4> HIDE DEF h, Val
      <4>2. Val(t) = h[c][t] /\ h[c][t] = 0
        BY <1>6, <2>2, <3>1, <4>1, SumAt
      <4> QED BY <2>2, <3>1, <4>2
    <3>2. CASE t # {}
      <4> HIDE DEF h, Val
      <4> QED BY <2>2, <3>2
    <3> QED BY <3>1, <3>2
  <2>4. CASE s = T
    <3> HIDE DEF h, Val
    <3>1. k[s] = f[c] + Val(t)
      BY <1>7, <2>1, <2>2, <2>4
    <3> HIDE DEF k
    <3> QED BY <2>1, <2>2, <2>3, <3>1
  <2>5. CASE s # T
    <3>1. PICK x : x \in T \ s
      BY <2>5
    <3>2. k[s] = Val(s)
      <4> HIDE DEF h, Val
      <4> QED BY <1>7, <2>5
    <3>3. IsSum(h[x], f, T \ {x}) /\ Val(s) = h[x][s] /\ Val(t) = h[x][t] /\ s \in SUBSET (T \ {x})
      BY <1>5, <1>6, <2>2, <3>1
    <3> HIDE DEF h, Val, k
    <3>4. h[x][s] = f[c] + h[x][t]
      <4>1. PICK hx : hx = h[x]
        OBVIOUS
      <4>2. hx[s] = f[First(s)] + hx[s \ {First(s)}]
        BY <1>7, <3>3, <4>1, SumAt
      <4> QED BY <2>1, <2>2, <4>1, <4>2
    <3> QED BY <2>1, <2>2, <2>3, <3>2, <3>3, <3>4
  <2> QED BY <2>4, <2>5
<1>8. k = [s \in SUBSET T |-> IF s = {} THEN 0 ELSE f[First(s)] + k[s \ {First(s)}]]
  <2>1. DOMAIN k = SUBSET T /\ k[{}] = 0 /\ k = [s \in SUBSET T |-> k[s]]
    OBVIOUS
  <2> HIDE DEF k
  <2> QED BY <1>7, <2>1
<1>9. IsSum(k, f, T)
  <2> HIDE DEF k
  <2> QED BY <1>8, Zenon DEF IsSum
<1> QED BY <1>3, <1>9

LEMMA TotalStep ==
  ASSUME NEW f, NEW S, IsFiniteSet(S)
  PROVE  Total(f, S) = IF S = {} THEN 0 ELSE f[First(S)] + Total(f, S \ {First(S)})
<1>1. PICK g : g = (CHOOSE k : IsSum(k, f, S)) /\ IsSum(g, f, S)
  BY SumExists
<1>2. Total(f, S) = g[S]
  BY <1>1, TotalIsSum
<1>3. CASE S = {}
  BY <1>1, <1>2, <1>3, SumAt
<1>4. CASE S # {}
  <2>1. PICK T : T = S \ {First(S)} /\ IsFiniteSet(T) /\ T \subseteq S
    BY FS_Subset
  <2>2. PICK h : h = (CHOOSE k : IsSum(k, f, T)) /\ IsSum(h, f, T)
    BY <2>1, SumExists
  <2>3. Total(f, T) = h[T] /\ h[T] = g[T]
    BY <1>1, <2>1, <2>2, TotalIsSum, SumsAgree
  <2> QED BY <1>1, <1>2, <1>4, <2>1, <2>3, SumAt
<1> QED BY <1>3, <1>4

LEMMA TotalOfNone ==
  ASSUME NEW f
  PROVE  Total(f, {}) = 0
BY FS_EmptySet, TotalStep

\* Sums of numbers that are not negative.
LEMMA TotalIsNat ==
  ASSUME NEW f, NEW S, IsFiniteSet(S), \A i \in S : f[i] \in Nat
  PROVE  Total(f, S) \in Nat
<1> DEFINE Bad == {T \in SUBSET S : Total(f, T) \notin Nat}
<1>1. SUFFICES ASSUME Bad # {} PROVE FALSE
  <2>1. S \in SUBSET S
    OBVIOUS
  <2> QED BY <2>1
<1>2. PICK T \in Bad : IsFiniteSet(T) /\ \A x \in T : T \ {x} \notin Bad
  <2>1. Bad \in SUBSET (SUBSET S)
    OBVIOUS
  <2> HIDE DEF Bad
  <2> QED BY <1>1, <2>1, SmallestSet
<1>3. T \in SUBSET S /\ Total(f, T) \notin Nat
  OBVIOUS
<1>4. T # {}
  BY <1>3, TotalOfNone
<1>5. PICK x \in T : x = First(T)
  BY <1>4, FirstIsOne
<1>6. Total(f, T) = f[x] + Total(f, T \ {x})
  BY <1>2, <1>4, <1>5, TotalStep
<1>7. Total(f, T \ {x}) \in Nat
  BY <1>2, <1>3
<1> QED BY <1>3, <1>6, <1>7

\* In whatever order they are taken.
LEMMA TotalTake ==
  ASSUME NEW f, NEW S, IsFiniteSet(S), \A i \in S : f[i] \in Nat, NEW x \in S
  PROVE  Total(f, S) = f[x] + Total(f, S \ {x})
<1> DEFINE Bad == {T \in SUBSET S : \E y \in T : Total(f, T) # f[y] + Total(f, T \ {y})}
<1>1. SUFFICES ASSUME Bad # {} PROVE FALSE
  <2>1. S \in SUBSET S
    OBVIOUS
  <2> QED BY <2>1
<1>2. PICK T \in Bad : IsFiniteSet(T) /\ \A z \in T : T \ {z} \notin Bad
  <2>1. Bad \in SUBSET (SUBSET S)
    OBVIOUS
  <2> HIDE DEF Bad
  <2> QED BY <1>1, <2>1, SmallestSet
<1>3. PICK y \in T : Total(f, T) # f[y] + Total(f, T \ {y})
  OBVIOUS
<1>4. T \in SUBSET S
  OBVIOUS
<1>5. PICK c \in T : c = First(T)
  BY FirstIsOne
<1>6. Total(f, T) = f[c] + Total(f, T \ {c})
  BY <1>2, <1>5, TotalStep
<1>7. c # y
  BY <1>3, <1>6
<1>a. PICK U : U = (T \ {c}) \ {y}
  OBVIOUS
<1>8. U = (T \ {c}) \ {y} /\ U = (T \ {y}) \ {c} /\ U \in SUBSET T
  BY <1>a
<1>9. Total(f, T \ {c}) = f[y] + Total(f, U)
  <2>1. y \in T \ {c} /\ T \ {c} \in SUBSET S
    BY <1>4, <1>7
  <2>2. Total(f, T \ {c}) = f[y] + Total(f, (T \ {c}) \ {y})
    BY <1>2, <2>1
  <2> QED BY <1>8, <2>2
<1>10. Total(f, T \ {y}) = f[c] + Total(f, U)
  <2>1. c \in T \ {y} /\ T \ {y} \in SUBSET S
    BY <1>4, <1>7
  <2> QED BY <1>2, <1>8, <2>1
<1>11. Total(f, U) \in Nat
  <2>1. IsFiniteSet(U) /\ \A i \in U : f[i] \in Nat
    BY <1>2, <1>4, <1>8, FS_Subset
  <2> QED BY <2>1, TotalIsNat
<1>12. f[c] \in Nat /\ f[y] \in Nat
  BY <1>4
<1> HIDE DEF Bad
<1> QED BY <1>3, <1>6, <1>9, <1>10, <1>11, <1>12

\* A larger set of larger numbers has a larger sum.
LEMMA TotalGrows ==
  ASSUME NEW f, NEW g, NEW S, IsFiniteSet(S), \A i \in S : f[i] \in Nat /\ g[i] \in Nat /\ f[i] <= g[i]
  PROVE  Total(f, S) <= Total(g, S)
<1> DEFINE Bad == {T \in SUBSET S : ~(Total(f, T) <= Total(g, T))}
<1>1. SUFFICES ASSUME Bad # {} PROVE FALSE
  <2>1. S \in SUBSET S
    OBVIOUS
  <2> QED BY <2>1
<1>2. PICK T \in Bad : IsFiniteSet(T) /\ \A x \in T : T \ {x} \notin Bad
  <2>1. Bad \in SUBSET (SUBSET S)
    OBVIOUS
  <2> HIDE DEF Bad
  <2> QED BY <1>1, <2>1, SmallestSet
<1>3. T \in SUBSET S /\ ~(Total(f, T) <= Total(g, T))
  OBVIOUS
<1>4. T # {}
  BY <1>3, TotalOfNone
<1>5. PICK x \in T : x = First(T)
  BY <1>4, FirstIsOne
<1>6. PICK U : U = T \ {x}
  OBVIOUS
<1>7. Total(f, T) = f[x] + Total(f, U) /\ Total(g, T) = g[x] + Total(g, U)
  BY <1>2, <1>4, <1>5, <1>6, TotalStep
<1>8. Total(f, U) <= Total(g, U)
  BY <1>2, <1>3, <1>6
<1>9. Total(f, U) \in Nat /\ Total(g, U) \in Nat
  <2>1. IsFiniteSet(U) /\ \A i \in U : f[i] \in Nat /\ g[i] \in Nat
    BY <1>2, <1>3, <1>6, FS_Subset
  <2> QED BY <2>1, TotalIsNat
<1>10. f[x] \in Nat /\ g[x] \in Nat /\ f[x] <= g[x]
  BY <1>3
<1> HIDE DEF Bad
<1> QED BY <1>3, <1>7, <1>8, <1>9, <1>10

LEMMA TotalOfUnion ==
  ASSUME NEW f, NEW S, NEW U, IsFiniteSet(S), IsFiniteSet(U), S \cap U = {}, \A i \in S \cup U : f[i] \in Nat
  PROVE  Total(f, S \cup U) = Total(f, S) + Total(f, U)
<1> DEFINE Bad == {T \in SUBSET S : Total(f, T \cup U) # Total(f, T) + Total(f, U)}
<1>1. SUFFICES ASSUME Bad # {} PROVE FALSE
  <2>1. S \in SUBSET S
    OBVIOUS
  <2> QED BY <2>1
<1>2. PICK T \in Bad : IsFiniteSet(T) /\ \A x \in T : T \ {x} \notin Bad
  <2>1. Bad \in SUBSET (SUBSET S)
    OBVIOUS
  <2> HIDE DEF Bad
  <2> QED BY <1>1, <2>1, SmallestSet
<1>3. T \in SUBSET S /\ Total(f, T \cup U) # Total(f, T) + Total(f, U)
  OBVIOUS
<1>4. PICK u \in Nat : u = Total(f, U)
  BY TotalIsNat
<1>5. T # {}
  <2> SUFFICES ASSUME T = {} PROVE FALSE
    OBVIOUS
  <2>1. T \cup U = U /\ Total(f, T) = 0
    BY TotalOfNone
  <2> HIDE DEF Bad
  <2> QED BY <1>3, <1>4, <2>1
<1>6. PICK x : x \in T
  BY <1>5
<1>7. IsFiniteSet(T \cup U) /\ (\A i \in T \cup U : f[i] \in Nat) /\ (T \cup U) \ {x} = (T \ {x}) \cup U
  BY <1>2, <1>3, <1>6, FS_Union
<1>8. Total(f, T \cup U) = f[x] + Total(f, (T \ {x}) \cup U) /\ Total(f, T) = f[x] + Total(f, T \ {x})
  BY <1>2, <1>6, <1>7, TotalTake
<1>9. Total(f, (T \ {x}) \cup U) = Total(f, T \ {x}) + Total(f, U)
  BY <1>2, <1>3, <1>6
<1>10. PICK t \in Nat : t = Total(f, T \ {x})
  <2>1. IsFiniteSet(T \ {x}) /\ \A i \in T \ {x} : f[i] \in Nat
    BY <1>2, <1>7, FS_Subset
  <2> QED BY <2>1, TotalIsNat
<1>11. f[x] \in Nat
  BY <1>6, <1>7
<1> HIDE DEF Bad
<1> QED BY <1>3, <1>4, <1>8, <1>9, <1>10, <1>11

LEMMA TotalIsMonotone ==
  ASSUME NEW f, NEW g, NEW S, NEW T, S \subseteq T, IsFiniteSet(T), \A i \in T : g[i] \in Nat,
         \A i \in S : f[i] \in Nat /\ f[i] <= g[i]
  PROVE  Total(f, S) <= Total(g, T) /\ Total(f, S) \in Nat /\ Total(g, T) \in Nat
<1>1. PICK U : U = T \ S
  OBVIOUS
<1>2. IsFiniteSet(S) /\ IsFiniteSet(U) /\ S \cap U = {} /\ S \cup U = T
  BY <1>1, FS_Subset
<1>3. Total(g, T) = Total(g, S) + Total(g, U)
  BY <1>2, TotalOfUnion
<1>4. Total(g, S) \in Nat /\ Total(g, U) \in Nat /\ Total(f, S) \in Nat
  BY <1>2, TotalIsNat
<1>5. Total(f, S) <= Total(g, S)
  BY <1>2, TotalGrows
<1> QED BY <1>3, <1>4, <1>5

-----------------------------------------------------------------------------
(* Least and greatest numbers.                                             *)

LEMMA MinIsLeast ==
  ASSUME NEW S, S \subseteq Nat, S # {}
  PROVE  Min(S) \in S /\ \A n \in S : Min(S) <= n
<1>1. PICK n \in S : \A m \in S : <<m, n>> \notin OpToRel(<, Nat)
  BY NatLessThanWellFounded, WFMin
<1>2. \A m \in S : n <= m
  <2> SUFFICES ASSUME NEW m \in S, ~(n <= m) PROVE FALSE
    OBVIOUS
  <2>1. <<m, n>> \in Nat \X Nat /\ <<m, n>>[1] < <<m, n>>[2]
    OBVIOUS
  <2> QED BY <1>1, <2>1, Zenon DEF OpToRel
<1> QED BY <1>2, Zenon DEF Min

LEMMA MaxIsGreatest ==
  ASSUME NEW S, IsFiniteSet(S), S \subseteq Nat, S # {}
  PROVE  Max(S) \in S /\ \A n \in S : n <= Max(S)
<1> DEFINE Bad == {T \in SUBSET S : T # {} /\ \A n \in T : \E m \in T : n < m}
<1>1. Bad = {}
  <2> SUFFICES ASSUME Bad # {} PROVE FALSE
    OBVIOUS
  <2>1. PICK T \in Bad : \A x \in T : T \ {x} \notin Bad
    <3>1. Bad \in SUBSET (SUBSET S)
      OBVIOUS
    <3> HIDE DEF Bad
    <3> QED BY <3>1, SmallestSet
  <2>2. PICK x : x \in T
    OBVIOUS
  <2>3. PICK y \in T : x < y
    BY <2>2
  <2>4. PICK n \in T \ {x} : \A m \in T \ {x} : ~(n < m)
    BY <2>1, <2>2, <2>3
  <2>5. PICK m \in T : n < m
    BY <2>4
  <2>6. T \subseteq Nat
    OBVIOUS
  <2> HIDE DEF Bad
  <2> QED BY <2>2, <2>3, <2>4, <2>5, <2>6
<1>2. PICK n \in S : \A m \in S : ~(n < m)
  BY <1>1
<1>3. \A m \in S : n >= m
  BY <1>2
<1>4. Max(S) \in S /\ \A m \in S : Max(S) >= m
  BY <1>3, Zenon DEF Max
<1> QED BY <1>4

-----------------------------------------------------------------------------
(* What the tables hold.                                                   *)

ProjectId == GroupProject \cup Range(PersonalId)
Source == {"pbs", "pbsAcct", "openstack"}
Identities == Seq(STRING \X STRING)

\* An event is one that was reported, mapped or not.
EventRow == {[r EXCEPT !.project = q] : r \in Reported, q \in ProjectId \cup {NoProject}}

ServerName == {e.instance : e \in Reported}
Servers == UNION {[V -> Nat] : V \in {W \in SUBSET ServerName : IsFiniteSet(W)}}

SummaryRow ==
  [day : Day, source : Source, slug : Seq(STRING), personal : BOOLEAN, ids : Identities,
   count : Nat \ {0}, project : ProjectId \cup {NoProject}, total : Nat, instances : Servers]

\* The identities of a personal summary are those of some report of its source.
SummaryHolds(s) ==
  /\ s \in SummaryRow
  /\ s.source # "openstack" => DOMAIN s.instances = {}
  /\ s.personal => \E r \in Reported : /\ r.personal /\ r.source = s.source /\ r.ids = s.ids
                                       /\ s.source = "openstack" => r.slug = s.slug

DayRow ==
  [day : Day, source : Source, slug : Seq(STRING), personal : BOOLEAN, ids : Identities,
   count : Nat \ {0}, used : Nat, instances : Servers]

IsReport(e, r) ==
  /\ e.source = r.source /\ e.slug = r.slug /\ e.day = r.day /\ e.personal = r.personal /\ e.ids = r.ids

RowHolds(row) ==
  /\ row \in DayRow
  /\ row.source # "openstack" => DOMAIN row.instances = {}
  /\ \E r \in Reported : IsReport(row, r)

LEMMA PhaseNames ==
  /\ Phases[1] = "acct" /\ Phases[2] = "personal" /\ Phases[3] = "openstack" /\ Phases[4] = "general"
  /\ Phases[5] = "map" /\ Len(Phases) = 5
BY DEF Phases

LEMMA EventsAreReports ==
  ASSUME NEW e \in EventRow
  PROVE  /\ \E r \in Reported : /\ IsReport(e, r) /\ e.used = r.used /\ e.instance = r.instance /\ e.job = r.job
                                /\ e = [r EXCEPT !.project = e.project]
         /\ e.project \in ProjectId \cup {NoProject}
<1>1. PICK r \in Reported, q \in ProjectId \cup {NoProject} : e = [r EXCEPT !.project = q]
  BY DEF EventRow
<1>2. r = [source |-> r.source, slug |-> r.slug, day |-> r.day, instance |-> r.instance, used |-> r.used,
           personal |-> r.personal, ids |-> r.ids, job |-> r.job, project |-> NoProject]
  BY ReportAssumption
<1>3. e.project = q /\ IsReport(e, r) /\ e.used = r.used /\ e.instance = r.instance /\ e.job = r.job
  BY <1>1, <1>2 DEF IsReport
<1> QED BY <1>1, <1>3

LEMMA EventsHold ==
  ASSUME NEW e \in EventRow
  PROVE  /\ e.day \in Day /\ e.source \in Source /\ e.personal \in BOOLEAN /\ e.used \in Nat
         /\ e.slug \in Seq(STRING) /\ e.ids \in Identities /\ e.instance \in ServerName
         /\ e.project \in ProjectId \cup {NoProject}
<1>1. PICK r \in Reported : IsReport(e, r) /\ e.used = r.used /\ e.instance = r.instance
  BY EventsAreReports
<1>2. /\ r.day \in Day /\ r.source \in Source /\ r.personal \in BOOLEAN /\ r.used \in Nat
      /\ r.slug \in Seq(STRING) /\ r.ids \in Identities
  BY ReportAssumption DEF Source, Identities
<1>3. e.instance \in ServerName
  BY <1>1 DEF ServerName
<1> QED BY <1>1, <1>2, <1>3, EventsAreReports DEF IsReport

LEMMA EventsMap ==
  ASSUME NEW e \in EventRow, NEW q \in ProjectId \cup {NoProject}
  PROVE  LET f == [e EXCEPT !.project = q]
         IN  /\ f \in EventRow /\ IsReport(f, e) /\ f.project = q /\ f.used = e.used /\ f.instance = e.instance
             /\ f.job = e.job
<1>1. PICK r \in Reported : e = [r EXCEPT !.project = e.project]
  BY EventsAreReports
<1>2. r = [source |-> r.source, slug |-> r.slug, day |-> r.day, instance |-> r.instance, used |-> r.used,
           personal |-> r.personal, ids |-> r.ids, job |-> r.job, project |-> NoProject]
  BY ReportAssumption
<1>3. PICK f : f = [r EXCEPT !.project = q]
  OBVIOUS
<1>4. [e EXCEPT !.project = q] = f
  BY <1>1, <1>2, <1>3
<1>5. f \in EventRow
  BY <1>3 DEF EventRow
<1>6. IsReport(f, e) /\ f.project = q /\ f.used = e.used /\ f.instance = e.instance /\ f.job = e.job
  BY <1>1, <1>2, <1>3 DEF IsReport
<1> QED BY <1>4, <1>5, <1>6

LEMMA ReportsAreEvents ==
  ASSUME NEW r \in Reported
  PROVE  r \in EventRow
<1>1. r = [source |-> r.source, slug |-> r.slug, day |-> r.day, instance |-> r.instance, used |-> r.used,
           personal |-> r.personal, ids |-> r.ids, job |-> r.job, project |-> NoProject]
  BY ReportAssumption
<1>2. r = [r EXCEPT !.project = NoProject]
  BY <1>1
<1>3. NoProject \in ProjectId \cup {NoProject}
  OBVIOUS
<1> QED BY <1>2, <1>3 DEF EventRow

LEMMA ServersAre ==
  ASSUME NEW s
  PROVE  s \in Servers <=> s \in [DOMAIN s -> Nat] /\ DOMAIN s \subseteq ServerName /\ IsFiniteSet(DOMAIN s)
<1>1. s \in Servers <=> \E V \in SUBSET ServerName : IsFiniteSet(V) /\ s \in [V -> Nat]
  BY DEF Servers
<1>2. \A V : s \in [V -> Nat] => DOMAIN s = V
  OBVIOUS
<1> QED BY <1>1, <1>2

LEMMA NoServers == <<>> \in Servers /\ DOMAIN <<>> = {}
<1>1. <<>> \in Seq(Nat) /\ Len(<<>>) = 0 /\ 1..0 = {}
  BY EmptySeq
<1>2. DOMAIN <<>> = {} /\ <<>> \in [{} -> Nat]
  BY <1>1, LenProperties
<1> QED BY <1>2, FS_EmptySet, ServersAre

-----------------------------------------------------------------------------
(* The rows of a day.                                                      *)

LEMMA TablesAreFinite ==
  ASSUME NEW S, NEW table \in Seq(S), NEW I \in SUBSET (DOMAIN table)
  PROVE  IsFiniteSet(I) /\ I \subseteq Nat \ {0} /\ Cardinality(I) \in Nat /\ (I # {} => Cardinality(I) # 0)
<1>1. DOMAIN table = 1..Len(table) /\ Len(table) \in Nat
  BY LenProperties
<1>2. IsFiniteSet(I) /\ I \subseteq Nat \ {0}
  <2>1. PICK n \in Nat : n = Len(table) /\ I \in SUBSET (1..n)
    BY <1>1
  <2>2. IsFiniteSet(1..n)
    BY FS_Interval
  <2> QED BY <2>1, <2>2, FS_Subset
<1>3. PICK n \in Nat : n = Cardinality(I)
  BY <1>2, FS_CardinalityType
<1>4. Cardinality(I) = 0 <=> I = {}
  BY <1>2, FS_EmptySet, Zenon
<1> QED BY <1>2, <1>3, <1>4

\* Every server of a row is seen in one of its events.
SeenBy(es, I, s) == \A v \in DOMAIN s : \E i \in I : es[i].instance = v /\ es[i].used = s[v]

LEMMA InstancesAreServers ==
  ASSUME NEW es \in Seq(EventRow), NEW I \in SUBSET (DOMAIN es)
  PROVE  Instances(es, I) \in Servers /\ SeenBy(es, I, Instances(es, I))
<1>1. PICK named : named = {i \in I : es[i].instance # None}
  OBVIOUS
<1>2. PICK V : V = {es[i].instance : i \in named}
  OBVIOUS
<1>3. PICK s : s = [v \in V |-> es[Max({i \in named : es[i].instance = v})].used]
  OBVIOUS
<1>4. Instances(es, I) = s
  BY <1>1, <1>2, <1>3 DEF Instances
<1>5. \A i \in named : es[i] \in EventRow /\ es[i].used \in Nat /\ es[i].instance \in ServerName
  BY <1>1, ElementOfSeq, LenProperties, EventsHold
<1>6. ASSUME NEW v \in V PROVE \E i \in I : es[i].instance = v /\ es[i].used = s[v] /\ s[v] \in Nat
  <2>1. PICK M : M = {i \in named : es[i].instance = v}
    OBVIOUS
  <2>2. M # {} /\ M \in SUBSET (DOMAIN es) /\ M \subseteq named
    BY <1>1, <1>2, <1>6, <2>1
  <2>3. IsFiniteSet(M) /\ M \subseteq Nat
    BY <2>2, TablesAreFinite
  <2>4. PICK i \in M : i = Max(M)
    BY <2>2, <2>3, MaxIsGreatest
  <2>5. s[v] = es[i].used
    BY <1>3, <1>6, <2>1, <2>4
  <2> QED BY <1>1, <1>5, <2>1, <2>2, <2>4, <2>5
<1>7. IsFiniteSet(V) /\ V \subseteq ServerName
  <2>1. IsFiniteSet(named)
    BY <1>1, TablesAreFinite
  <2>2. PICK f : f = [i \in named |-> es[i].instance]
    OBVIOUS
  <2>3. f \in Surjection(named, V)
    BY <1>2, <2>2 DEF Surjection
  <2> QED BY <1>2, <1>5, <2>1, <2>3, FS_Surjection
<1>8. s \in Servers
  BY <1>3, <1>6, <1>7, ServersAre
<1>9. SeenBy(es, I, s)
  BY <1>3, <1>6 DEF SeenBy
<1> QED BY <1>4, <1>8, <1>9

LEMMA CountedIsNat ==
  ASSUME NEW es \in Seq(EventRow), NEW I \in SUBSET (DOMAIN es)
  PROVE  Counted(es, I) \in Nat
<1>1. PICK f : f = [i \in I |-> es[i].used]
  OBVIOUS
<1>2. \A i \in I : f[i] \in Nat
  BY <1>1, ElementOfSeq, LenProperties, EventsHold
<1>3. Total(f, I) \in Nat
  BY <1>2, TablesAreFinite, TotalIsNat
<1> QED BY <1>1, <1>3 DEF Counted

\* The events a row is made of.
IsRowOf(row, phase, es, days, I) ==
  /\ I # {} /\ row = RowOf(es, I)
  /\ \A i \in I : es[i].day \in days /\ InPhase(phase, es[i])
  /\ \A i, k \in I : GroupKey(phase, es[i]) = GroupKey(phase, es[k])
  /\ \A i \in DOMAIN es, k \in I :
       es[i].day \in days /\ InPhase(phase, es[i]) /\ GroupKey(phase, es[i]) = GroupKey(phase, es[k]) => i \in I

LEMMA RowsAreOfEvents ==
  ASSUME NEW es, NEW phase, NEW days, NEW row \in Rows(es, phase, days)
  PROVE  \E I \in SUBSET (DOMAIN es) : IsRowOf(row, phase, es, days, I)
<1>1. PICK J : J = {i \in DOMAIN es : es[i].day \in days /\ InPhase(phase, es[i])}
  OBVIOUS
<1>2. PICK key : key = [i \in J |-> GroupKey(phase, es[i])]
  OBVIOUS
<1>3. PICK n \in J : row = RowOf(es, {i \in J : GroupKey(phase, es[i]) = GroupKey(phase, es[n])})
  BY <1>1 DEF Rows
<1>4. PICK I : I = {i \in J : GroupKey(phase, es[i]) = GroupKey(phase, es[n])}
  OBVIOUS
<1>5. I \in SUBSET (DOMAIN es) /\ n \in I /\ row = RowOf(es, I)
  BY <1>1, <1>3, <1>4
<1>6. \A i \in I : es[i].day \in days /\ InPhase(phase, es[i])
  BY <1>1, <1>4
<1>7. \A i, k \in I : GroupKey(phase, es[i]) = GroupKey(phase, es[k])
  BY <1>4
<1>8. \A i \in DOMAIN es, k \in I :
        es[i].day \in days /\ InPhase(phase, es[i]) /\ GroupKey(phase, es[i]) = GroupKey(phase, es[k]) => i \in I
  BY <1>1, <1>4
<1> QED BY <1>5, <1>6, <1>7, <1>8 DEF IsRowOf

\* An event of a phase and of its days has a row.
LEMMA EventsHaveRows ==
  ASSUME NEW es, NEW phase, NEW days, NEW n \in DOMAIN es, es[n].day \in days, InPhase(phase, es[n])
  PROVE  \E row \in Rows(es, phase, days), I \in SUBSET (DOMAIN es) : IsRowOf(row, phase, es, days, I) /\ n \in I
<1>1. PICK J : J = {i \in DOMAIN es : es[i].day \in days /\ InPhase(phase, es[i])}
  OBVIOUS
<1>2. PICK I : I = {i \in J : GroupKey(phase, es[i]) = GroupKey(phase, es[n])}
  OBVIOUS
<1>3. PICK row : row = RowOf(es, I)
  OBVIOUS
<1>4. n \in I /\ I \in SUBSET (DOMAIN es)
  BY <1>1, <1>2
<1>5. row \in Rows(es, phase, days)
  BY <1>1, <1>2, <1>3, <1>4 DEF Rows
<1>6. IsRowOf(row, phase, es, days, I)
  BY <1>1, <1>2, <1>3, <1>4 DEF IsRowOf
<1> QED BY <1>4, <1>5, <1>6

LEMMA RowsHold ==
  ASSUME NEW es \in Seq(EventRow), NEW I \in SUBSET (DOMAIN es), I # {}
  PROVE  \E i \in I : /\ IsReport(RowOf(es, I), es[i]) /\ RowHolds(RowOf(es, I))
                      /\ RowOf(es, I).used = Counted(es, I)
                      /\ SeenBy(es, I, RowOf(es, I).instances)
                      /\ RowOf(es, I).source = "openstack" => RowOf(es, I).instances = Instances(es, I)
<1>1. PICK i \in I : i = Min(I)
  BY TablesAreFinite, MinIsLeast
<1>2. PICK first : first = es[i]
  OBVIOUS
<1>3. first \in EventRow
  BY <1>2, ElementOfSeq, LenProperties
<1>4. /\ first.day \in Day /\ first.source \in Source /\ first.personal \in BOOLEAN
      /\ first.slug \in Seq(STRING) /\ first.ids \in Identities
  BY <1>3, EventsHold
<1>5. PICK s \in Servers : /\ s = IF first.source = "openstack" THEN Instances(es, I) ELSE <<>>
                           /\ SeenBy(es, I, s) /\ (first.source # "openstack" => DOMAIN s = {})
  BY InstancesAreServers, NoServers DEF SeenBy
<1>6. PICK n \in Nat \ {0} : n = Cardinality(I)
  BY TablesAreFinite
<1>7. PICK u \in Nat : u = Counted(es, I)
  BY CountedIsNat
<1>8. PICK row : row = [day |-> first.day, source |-> first.source, slug |-> first.slug,
                        personal |-> first.personal, ids |-> first.ids, count |-> n, used |-> u, instances |-> s]
  OBVIOUS
<1>9. RowOf(es, I) = row
  BY <1>1, <1>2, <1>5, <1>6, <1>7, <1>8 DEF RowOf
<1>10. row \in DayRow /\ IsReport(row, es[i])
  BY <1>2, <1>4, <1>8 DEF DayRow, IsReport
<1>11. RowHolds(row)
  <2>1. \E r \in Reported : IsReport(first, r)
    BY <1>3, EventsAreReports
  <2>2. \E r \in Reported : IsReport(row, r)
    BY <1>2, <1>10, <2>1 DEF IsReport
  <2>3. row.source # "openstack" => DOMAIN row.instances = {}
    BY <1>5, <1>8
  <2> QED BY <1>10, <2>2, <2>3 DEF RowHolds
<1>12. /\ row.used = Counted(es, I) /\ SeenBy(es, I, row.instances)
       /\ row.source = "openstack" => row.instances = Instances(es, I)
  BY <1>5, <1>7, <1>8
<1> QED BY <1>9, <1>10, <1>11, <1>12

-----------------------------------------------------------------------------
(* What the mapper finds.                                                  *)

LEMMA MappedIsFound ==
  ASSUME NEW projects, DOMAIN projects \subseteq Nat, NEW us, NEW row
  PROVE  LET p == MappedProject(projects, us, row)
         IN  \/ p = NoProject
             \/ /\ p \in DOMAIN projects
                /\ IF row.personal THEN p \in PersonalProject(projects, us, row.ids)
                   ELSE row.slug # NoSlug /\ p \in RegularProject(projects, row.slug, row.source)
<1>1. PICK found : found = IF row.personal THEN PersonalProject(projects, us, row.ids)
                           ELSE IF row.slug = NoSlug THEN {}
                           ELSE RegularProject(projects, row.slug, row.source)
  OBVIOUS
<1>2. MappedProject(projects, us, row) = IF found = {} THEN NoProject ELSE Min(found)
  BY <1>1 DEF MappedProject
<1>3. found \subseteq DOMAIN projects
  BY <1>1 DEF PersonalProject, RegularProject
<1>4. found # {} => Min(found) \in found
  BY <1>3, MinIsLeast
<1> QED BY <1>1, <1>2, <1>3, <1>4

-----------------------------------------------------------------------------
(* The shapes of the state.                                                *)

ProjectHolds(p) ==
  LET row == project[p]
  IN  /\ p \in ProjectId
      /\ row = [slug |-> row.slug, personal |-> row.personal, pi |-> row.pi, status |-> row.status]
      /\ row.slug \in Seq(STRING) \ {NoSlug} /\ row.personal \in BOOLEAN
      /\ row.status \in {"new", "active", "rejected"}
      /\ IF row.personal THEN row.status = "active" /\ row.pi \in users /\ p = PersonalId[row.pi]
         ELSE p \in GroupProject

ProjectsHold ==
  /\ users \subseteq User
  /\ \A p \in DOMAIN project : ProjectHolds(p)
  /\ \A p, q \in DOMAIN project : project[p].slug = project[q].slug => p = q

TablesHold ==
  /\ events \in Seq(EventRow)
  /\ summaries \in Seq(SummaryRow) /\ \A i \in DOMAIN summaries : SummaryHolds(summaries[i])

BatchesHold ==
  /\ incoming \in [Collector -> [events : Seq(EventRow), last : BOOLEAN]]
  /\ \A c \in Collector : incoming[c] # NoBatch => incoming[c].events # <<>>

OfPhase(phase, row) ==
  /\ phase = 1 => row.source = "pbsAcct" /\ row.personal
  /\ phase = 2 => row.source = "pbs" /\ row.personal
  /\ phase = 3 => row.source = "openstack"
  /\ phase = 4 => row.source \in {"pbs", "pbsAcct"} /\ ~row.personal

SameNames(ids, other) == \A u \in User : Names(ids, u) <=> Names(other, u)

\* The summary a job is about to update is one of its row.
IsFound(s, row) ==
  /\ s.source = row.source /\ s.day = row.day /\ s.personal = row.personal
  /\ row.personal => SameNames(s.ids, row.ids)
  /\ ~row.personal \/ row.source = "openstack" => s.slug = row.slug

\* The identities read of a summary name those who its present ones name.
Recognises(b) ==
  \A i \in b.todo : /\ b.before[i] \in Identities
                    /\ summaries[i].personal => SameNames(b.before[i], summaries[i].ids)

JobHolds(b) ==
  /\ b = [phase |-> b.phase, days |-> b.days, todo |-> b.todo, looked |-> b.looked,
          row |-> b.row, before |-> b.before, existing |-> b.existing]
  /\ b.phase \in 0..5 /\ b.days \subseteq Day /\ b.looked \in BOOLEAN /\ b.existing \in Nat \cup {Unsought}
  /\ b.days = {} => b = NoJob
  /\ b.phase = 0 => b.todo = {}
  /\ b.phase \in 1..4 => \A row \in b.todo : RowHolds(row) /\ row.day \in b.days /\ OfPhase(b.phase, row)
  /\ b.phase = 5 => b.todo \subseteq DOMAIN summaries /\ Recognises(b)
  /\ b.looked => b.row \in b.todo
  /\ b.looked /\ b.phase \in 1..4 =>
       /\ b.existing \notin {0, Unsought} => b.existing \in DOMAIN summaries /\ IsFound(summaries[b.existing], b.row)
       /\ b.before \in [total : Nat, instances : Servers]
  /\ b.looked /\ b.phase = 5 => b.existing \in ProjectId \cup {NoProject}

JobsHold == DOMAIN job = Job /\ \A j \in Job : JobHolds(job[j])

BackfillHolds(p) ==
  \/ backfill[p] = NoBackfill
  \/ /\ backfill[p] = [step |-> backfill[p].step, of |-> backfill[p].of]
     /\ backfill[p].step \in {"events", "summaries"}
     /\ p \in DOMAIN project /\ project[p].status = "active"
     /\ ~project[p].personal /\ ~backfill[p].of.personal /\ backfill[p].of.slug = project[p].slug

BackfillsHold == DOMAIN backfill = ProjectId /\ \A p \in ProjectId : BackfillHolds(p)

GhostsHold == stale \subseteq Day /\ orderly \in BOOLEAN /\ overtaken \in BOOLEAN

UsageShapes ==
  ProjectsHold /\ TablesHold /\ BatchesHold /\ JobsHold /\ BackfillsHold /\ GhostsHold

-----------------------------------------------------------------------------
(* Which steps touch what.                                                 *)

Written(j) == WriteAccounts(j) \/ WritePersonal(j) \/ WriteGeneral(j) \/ WriteServers(j)

LEMMA WhoTouchesProjects ==
  ASSUME Next
  PROVE  \/ UNCHANGED <<project, users>>
         \/ \E u \in User : SignIn(u)
         \/ \E p \in GroupProject, slug \in Slug : RequestProject(p, slug)
         \/ \E p \in DOMAIN backfill : Approve(p) \/ Reject(p) \/ \E slug \in Slug : Resubmit(p, slug)
BY DEF Next, Aggregation, Receive, Save, Trigger, NextPhase, LookUp, FindExisting, Write, WriteAccounts, WritePersonal,
       WriteGeneral, WriteServers, FindProject, MappingFails, WriteProject, BackfillEvents, BackfillSummaries,
       JobFails, BackfillFails, Restart, tables

LEMMA WhoTouchesEvents ==
  ASSUME Next
  PROVE  \/ UNCHANGED events
         \/ \E c \in Collector : Save(c)
         \/ \E p \in DOMAIN backfill : BackfillEvents(p) \/ \E slug \in Slug : Resubmit(p, slug)
BY DEF Next, Aggregation, Receive, Trigger, NextPhase, LookUp, FindExisting, Write, WriteAccounts, WritePersonal,
       WriteGeneral, WriteServers, FindProject, MappingFails, WriteProject, SignIn, RequestProject, Approve, Reject,
       BackfillSummaries, JobFails, BackfillFails, Restart, tables

LEMMA WhoTouchesSummaries ==
  ASSUME Next
  PROVE  \/ UNCHANGED summaries
         \/ \E j \in Job : Written(j) \/ WriteProject(j)
         \/ \E p \in DOMAIN backfill : BackfillSummaries(p) \/ \E slug \in Slug : Resubmit(p, slug)
BY DEF Next, Aggregation, Written, Receive, Save, Trigger, NextPhase, LookUp, FindExisting, FindProject, MappingFails, SignIn,
       RequestProject, Approve, Reject, BackfillEvents, JobFails, BackfillFails, Restart, tables

LEMMA WhoTouchesBatches ==
  ASSUME Next
  PROVE  \/ UNCHANGED incoming
         \/ \E c \in Collector, b \in Batch : Receive(c, b)
         \/ \E c \in Collector : Save(c)
         \/ Restart
BY DEF Next, Aggregation, Trigger, NextPhase, LookUp, FindExisting, Write, WriteAccounts, WritePersonal,
       WriteGeneral, WriteServers, FindProject, MappingFails, WriteProject, SignIn, RequestProject, Approve, Reject,
       Resubmit, BackfillEvents, BackfillSummaries, JobFails, BackfillFails

LEMMA WhoTouchesJobs ==
  ASSUME Next
  PROVE  \/ UNCHANGED job
         \/ \E c \in Collector : Save(c)
         \/ \E j \in Job : Aggregation(j) \/ JobFails(j) \/ \E first, last \in Day : Trigger(j, first, last)
         \/ Restart
BY DEF Next, Receive, SignIn, RequestProject, Approve, Reject, Resubmit, BackfillEvents,
       BackfillSummaries, BackfillFails

LEMMA WhoTouchesBackfills ==
  ASSUME Next
  PROVE  \/ UNCHANGED backfill
         \/ \E p \in DOMAIN backfill : Approve(p) \/ BackfillEvents(p) \/ BackfillSummaries(p) \/ BackfillFails(p)
         \/ Restart
BY DEF Next, Aggregation, Receive, Save, Trigger, NextPhase, LookUp, FindExisting, Write, WriteAccounts, WritePersonal,
       WriteGeneral, WriteServers, FindProject, MappingFails, WriteProject, SignIn, RequestProject, Reject, Resubmit,
       JobFails

-----------------------------------------------------------------------------
(* The shapes stay: projects.                                              *)

LEMMA IdsAreNumbers ==
  /\ ProjectId \subseteq Nat \ {0} /\ GroupProject \subseteq ProjectId
  /\ \A u \in User : PersonalId[u] \in ProjectId /\ PersonalId[u] \notin GroupProject
BY UsageAssumption DEF ProjectId, Range, NoProject

LEMMA ProjectsAre ==
  ASSUME ProjectsHold
  PROVE  DOMAIN project \subseteq ProjectId /\ DOMAIN project \subseteq Nat \ {0}
BY IdsAreNumbers DEF ProjectsHold, ProjectHolds

\* A row that keeps its type and whose slug no other project has.
LEMMA ProjectChanges ==
  ASSUME ProjectsHold, NEW p \in ProjectId, NEW slug \in Seq(STRING) \ {NoSlug}, NEW personal \in BOOLEAN, NEW pi,
         NEW status \in {"new", "active", "rejected"}, SlugFree(p, slug),
         DOMAIN project' = DOMAIN project \cup {p},
         project'[p] = [slug |-> slug, personal |-> personal, pi |-> pi, status |-> status],
         \A q \in DOMAIN project \ {p} : project'[q] = project[q],
         users \subseteq users', users' \subseteq User,
         IF personal THEN status = "active" /\ pi \in users' /\ p = PersonalId[pi] ELSE p \in GroupProject
  PROVE  ProjectsHold'
<1>1. ASSUME NEW q \in DOMAIN project' PROVE ProjectHolds(q)'
  <2>1. CASE q = p
    BY <2>1 DEF ProjectHolds
  <2>2. CASE q # p
    <3>1. q \in DOMAIN project \ {p}
      BY <1>1, <2>2
    <3>2. project'[q] = project[q] /\ ProjectHolds(q)
      BY <3>1 DEF ProjectsHold
    <3> QED BY <3>2 DEF ProjectHolds
  <2> QED BY <2>1, <2>2
<1>2. ASSUME NEW q \in DOMAIN project', NEW r \in DOMAIN project', project'[q].slug = project'[r].slug
      PROVE  q = r
  <2>1. \A k \in DOMAIN project' : k # p => /\ k \in DOMAIN project \ {p} /\ project'[k] = project[k]
                                            /\ project'[k].slug # slug
    BY DEF SlugFree
  <2>2. project'[p].slug = slug
    OBVIOUS
  <2> QED BY <1>2, <2>1, <2>2 DEF ProjectsHold
<1> QED BY <1>1, <1>2 DEF ProjectsHold

LEMMA SignInHolds ==
  ASSUME ProjectsHold, NEW u \in User, SignIn(u)
  PROVE  ProjectsHold' /\ PersonalId[u] \notin DOMAIN project
<1>1. PICK p \in ProjectId : p = PersonalId[u] /\ p \notin GroupProject
  BY IdsAreNumbers
<1>2. PICK slug \in Seq(STRING) \ {NoSlug} : slug = PersonalSlug[u]
  BY UsageAssumption
<1>3. /\ SlugFree(p, slug) /\ users' = users \cup {u} /\ u \notin users
      /\ project' = Inserted(p, [slug |-> slug, personal |-> TRUE, pi |-> u, status |-> "active"])
  BY <1>1, <1>2 DEF SignIn
<1>4. /\ DOMAIN project' = DOMAIN project \cup {p}
      /\ project'[p] = [slug |-> slug, personal |-> TRUE, pi |-> u, status |-> "active"]
      /\ \A q \in DOMAIN project \ {p} : project'[q] = project[q]
  BY <1>3 DEF Inserted
<1>5. p \notin DOMAIN project
  <2> SUFFICES ASSUME p \in DOMAIN project PROVE FALSE
    OBVIOUS
  <2>1. project[p].pi \in users /\ PersonalId[u] = PersonalId[project[p].pi] /\ users \subseteq User
    BY <1>1 DEF ProjectsHold, ProjectHolds
  <2> QED BY <1>3, <2>1, UsageAssumption
<1>6. users \subseteq users' /\ users' \subseteq User /\ u \in users'
  BY <1>3 DEF ProjectsHold
<1>7. ProjectsHold'
  BY <1>1, <1>3, <1>4, <1>6, ProjectChanges
<1> QED BY <1>1, <1>5, <1>7

LEMMA RequestHolds ==
  ASSUME ProjectsHold, NEW p \in GroupProject, NEW slug \in Slug, RequestProject(p, slug)
  PROVE  ProjectsHold'
<1>1. p \in ProjectId /\ slug \in Seq(STRING) \ {NoSlug}
  BY IdsAreNumbers, UsageAssumption
<1>2. /\ SlugFree(p, slug) /\ users' = users
      /\ project' = Inserted(p, [slug |-> slug, personal |-> FALSE, pi |-> None, status |-> "new"])
  BY DEF RequestProject
<1>3. /\ DOMAIN project' = DOMAIN project \cup {p}
      /\ project'[p] = [slug |-> slug, personal |-> FALSE, pi |-> None, status |-> "new"]
      /\ \A q \in DOMAIN project \ {p} : project'[q] = project[q]
  BY <1>2 DEF Inserted
<1>4. users \subseteq users' /\ users' \subseteq User
  BY <1>2 DEF ProjectsHold
<1> QED BY <1>1, <1>2, <1>3, <1>4, ProjectChanges

\* A review changes the status of a project that is not personal, a
\* resubmission its slug too.
IsReview(p, slug, status) ==
  /\ p \in DOMAIN project /\ ~project[p].personal /\ project[p].status # "active"
  /\ users' = users /\ DOMAIN project' = DOMAIN project
  /\ project'[p] = [slug |-> slug, personal |-> FALSE, pi |-> project[p].pi, status |-> status]
  /\ \A q \in DOMAIN project \ {p} : project'[q] = project[q]

LEMMA ReviewsAre ==
  ASSUME ProjectsHold, NEW p
  PROVE  /\ Approve(p) => IsReview(p, project[p].slug, "active") /\ project[p].status = "new"
         /\ Reject(p) => IsReview(p, project[p].slug, "rejected")
         /\ \A slug \in Slug : Resubmit(p, slug) => IsReview(p, slug, "new")
<1>1. \A q \in DOMAIN project : ProjectHolds(q)
  BY DEF ProjectsHold
<1>2. ASSUME Approve(p) PROVE IsReview(p, project[p].slug, "active") /\ project[p].status = "new"
  <2>1. PICK r : r = project[p] /\ p \in DOMAIN project /\ r.status = "new" /\ ProjectHolds(p)
    BY <1>1, <1>2 DEF Approve
  <2>2. project' = [project EXCEPT ![p] = [r EXCEPT !.status = "active"]] /\ users' = users
    BY <1>2, <2>1 DEF Approve
  <2> QED BY <2>1, <2>2 DEF ProjectHolds, IsReview
<1>3. ASSUME Reject(p) PROVE IsReview(p, project[p].slug, "rejected")
  <2>1. PICK r : r = project[p] /\ p \in DOMAIN project /\ r.status = "new" /\ ProjectHolds(p)
    BY <1>1, <1>3 DEF Reject
  <2>2. project' = [project EXCEPT ![p] = [r EXCEPT !.status = "rejected"]] /\ users' = users
    BY <1>3, <2>1 DEF Reject
  <2> QED BY <2>1, <2>2 DEF ProjectHolds, IsReview
<1>4. ASSUME NEW slug \in Slug, Resubmit(p, slug) PROVE IsReview(p, slug, "new")
  <2>1. PICK r : r = project[p] /\ p \in DOMAIN project /\ r.status = "rejected" /\ ProjectHolds(p)
    BY <1>1, <1>4 DEF Resubmit
  <2>2. project' = [project EXCEPT ![p].slug = slug, ![p].status = "new"] /\ users' = users
    BY <1>4 DEF Resubmit
  <2>3. project' = [project EXCEPT ![p] = [r EXCEPT !.slug = slug, !.status = "new"]]
    BY <2>1, <2>2
  <2> QED BY <2>1, <2>2, <2>3 DEF ProjectHolds, IsReview
<1> QED BY <1>2, <1>3, <1>4

LEMMA ReviewHolds ==
  ASSUME ProjectsHold, NEW p, NEW slug \in Seq(STRING) \ {NoSlug}, NEW status \in {"new", "active", "rejected"},
         IsReview(p, slug, status), SlugFree(p, slug)
  PROVE  ProjectsHold'
<1>1. p \in ProjectId /\ p \in GroupProject
  BY DEF ProjectsHold, ProjectHolds, IsReview
<1>2. users \subseteq users' /\ users' \subseteq User /\ DOMAIN project' = DOMAIN project \cup {p}
  BY DEF ProjectsHold, IsReview
<1> QED BY <1>1, <1>2, ProjectChanges DEF IsReview

LEMMA ProjectsStay ==
  ASSUME ProjectsHold, Next
  PROVE  ProjectsHold'
<1>1. CASE UNCHANGED <<project, users>>
  BY <1>1 DEF ProjectsHold, ProjectHolds
<1>2. ASSUME NEW u \in User, SignIn(u) PROVE ProjectsHold'
  BY <1>2, SignInHolds
<1>3. ASSUME NEW p \in GroupProject, NEW slug \in Slug, RequestProject(p, slug) PROVE ProjectsHold'
  BY <1>3, RequestHolds
<1>4. ASSUME NEW p, Approve(p) \/ Reject(p) PROVE ProjectsHold'
  <2>1. PICK status \in {"new", "active", "rejected"} : IsReview(p, project[p].slug, status)
    BY <1>4, ReviewsAre
  <2>2. p \in DOMAIN project
    BY <2>1 DEF IsReview
  <2>3. PICK slug \in Seq(STRING) \ {NoSlug} : slug = project[p].slug
    BY <2>2 DEF ProjectsHold, ProjectHolds
  <2>4. SlugFree(p, slug)
    BY <2>2, <2>3 DEF SlugFree, ProjectsHold
  <2> QED BY <2>1, <2>3, <2>4, ReviewHolds
<1>5. ASSUME NEW p, NEW slug \in Slug, Resubmit(p, slug) PROVE ProjectsHold'
  <2>1. IsReview(p, slug, "new") /\ SlugFree(p, slug) /\ slug \in Seq(STRING) \ {NoSlug}
    BY <1>5, ReviewsAre, UsageAssumption DEF Resubmit
  <2> QED BY <2>1, ReviewHolds
<1> QED BY <1>1, <1>2, <1>3, <1>4, <1>5, WhoTouchesProjects

-----------------------------------------------------------------------------
(* The shapes stay: events and summaries.                                  *)

LEMMA PersonsAgree ==
  ASSUME NEW s, SummaryHolds(s), NEW row, RowHolds(row), s.source = row.source, s.personal, row.personal,
         IF row.source = "openstack" THEN s.slug = row.slug ELSE SameUser(s, row.ids)
  PROVE  SameNames(s.ids, row.ids)
<1>1. PICK r \in Reported : /\ r.personal /\ r.source = s.source /\ r.ids = s.ids
                            /\ s.source = "openstack" => r.slug = s.slug
  BY DEF SummaryHolds
<1>2. PICK q \in Reported : IsReport(row, q)
  BY DEF RowHolds
<1>3. SamePerson(r, q)
  BY <1>1, <1>2 DEF SamePerson, IsReport, SameUser
<1> QED BY <1>1, <1>2, <1>3, IdentityAssumption DEF SameNames, IsReport

LEMMA ExistingIsFound ==
  ASSUME TablesHold, NEW row, RowHolds(row), NEW k \in Existing(summaries, row)
  PROVE  k \in DOMAIN summaries /\ IsFound(summaries[k], row)
<1>1. PICK s : s = summaries[k] /\ k \in DOMAIN summaries /\ SummaryHolds(s)
  BY DEF TablesHold, Existing
<1>2. /\ s.source = row.source /\ s.day = row.day
      /\ IF row.personal /\ row.source \in {"pbs", "pbsAcct"} THEN SameUser(s, row.ids)
         ELSE s.slug = row.slug /\ s.personal = row.personal
  BY <1>1 DEF Existing
<1>3. row.source \in Source /\ row.personal \in BOOLEAN /\ s.personal \in BOOLEAN
  BY <1>1 DEF RowHolds, DayRow, SummaryHolds, SummaryRow
<1>4. s.personal = row.personal /\ (~row.personal \/ row.source = "openstack" => s.slug = row.slug)
  BY <1>2, <1>3 DEF SameUser, Source
<1>5. row.personal => SameNames(s.ids, row.ids)
  BY <1>1, <1>2, <1>3, <1>4, PersonsAgree DEF Source
<1> QED BY <1>1, <1>2, <1>4, <1>5 DEF IsFound

\* What a write puts in the table.
IsWritten(b, s) ==
  /\ b.looked /\ b.phase \in 1..4 /\ b.row \in b.todo /\ RowHolds(b.row) /\ OfPhase(b.phase, b.row)
  /\ s.total \in Nat /\ s.instances \in Servers
  /\ s = Summary(b.row, s.total, s.instances)
  /\ b.row.source # "openstack" => DOMAIN s.instances = {}
  /\ b.row.source = "pbs" => s.total = b.row.used
  /\ b.row.source = "pbsAcct" => s.total = b.before.total + b.row.used
  /\ b.row.source = "openstack" => /\ s.instances = WithServers(b.row, b.before)
                                   /\ s.total = Total(s.instances, DOMAIN s.instances)

LEMMA ServersTogether ==
  ASSUME NEW row, row.instances \in Servers, NEW before, before.instances \in Servers
  PROVE  /\ WithServers(row, before) \in Servers
         /\ Total(WithServers(row, before), DOMAIN WithServers(row, before)) \in Nat
<1>1. PICK r : r = row.instances /\ r \in [DOMAIN r -> Nat] /\ DOMAIN r \subseteq ServerName /\ IsFiniteSet(DOMAIN r)
  BY ServersAre
<1>2. PICK b : b = before.instances /\ b \in [DOMAIN b -> Nat] /\ DOMAIN b \subseteq ServerName /\ IsFiniteSet(DOMAIN b)
  BY ServersAre
<1>3. PICK s : s = [v \in DOMAIN r \cup DOMAIN b |-> IF v \in DOMAIN r THEN r[v] ELSE b[v]]
  OBVIOUS
<1>4. WithServers(row, before) = s
  BY <1>1, <1>2, <1>3 DEF WithServers
<1>5. IsFiniteSet(DOMAIN r \cup DOMAIN b)
  BY <1>1, <1>2, FS_Union
<1>6. s \in [DOMAIN s -> Nat] /\ DOMAIN s \subseteq ServerName /\ IsFiniteSet(DOMAIN s)
  BY <1>1, <1>2, <1>3, <1>5
<1> QED BY <1>4, <1>6, ServersAre, TotalIsNat

LEMMA WritesAre ==
  ASSUME JobsHold, NEW j \in Job, Written(j)
  PROVE  \E s : Write(j, s) /\ IsWritten(job[j], s)
<1>1. PICK b : b = job[j] /\ JobHolds(b) /\ b.looked
  BY DEF JobsHold, Written, WriteAccounts, WritePersonal, WriteGeneral, WriteServers
<1>2. b.phase \in 1..4 /\ b.row \in b.todo
  <2>1. b.row \in b.todo /\ b.phase \in 1..5
    BY <1>1 DEF JobHolds
  <2>2. b.phase # 5
    BY <1>1, PhaseNames DEF Written, WriteAccounts, WritePersonal, WriteGeneral, WriteServers, PhaseOf
  <2> QED BY <2>1, <2>2
<1>3. PICK row : row = b.row /\ RowHolds(row) /\ OfPhase(b.phase, row)
  BY <1>1, <1>2 DEF JobHolds
<1>4. /\ row.used \in Nat /\ row.source \in Source /\ row.instances \in Servers
      /\ b.before.total \in Nat /\ b.before.instances \in Servers
  BY <1>1, <1>2, <1>3 DEF JobHolds, RowHolds, DayRow
<1>5. ASSUME NEW total \in Nat, NEW instances \in Servers, Write(j, Summary(row, total, instances)),
             row.source # "openstack" => DOMAIN instances = {},
             row.source = "pbs" => total = row.used,
             row.source = "pbsAcct" => total = b.before.total + row.used,
             row.source = "openstack" => /\ instances = WithServers(row, b.before)
                                         /\ total = Total(instances, DOMAIN instances)
      PROVE  \E s : Write(j, s) /\ IsWritten(job[j], s)
  <2>1. PICK s : s = Summary(row, total, instances)
    OBVIOUS
  <2>2. s.total = total /\ s.instances = instances
    BY <2>1 DEF Summary
  <2>3. IsWritten(b, s)
    BY <1>1, <1>2, <1>3, <1>5, <2>1, <2>2 DEF IsWritten
  <2> QED BY <1>1, <1>5, <2>1, <2>3
<1>6. CASE WriteAccounts(j)
  <2>1. row.source = "pbsAcct" /\ Write(j, Summary(row, b.before.total + row.used, <<>>))
    BY <1>1, <1>3, <1>6 DEF WriteAccounts, AccountsSummary
  <2> QED BY <1>4, <1>5, <2>1, NoServers
<1>7. CASE WritePersonal(j)
  <2>1. row.source = "pbs" /\ Write(j, Summary(row, row.used, <<>>))
    BY <1>1, <1>2, <1>3, <1>7, PhaseNames DEF WritePersonal, JobsSummary, OfPhase, PhaseOf
  <2> QED BY <1>4, <1>5, <2>1, NoServers
<1>8. CASE WriteGeneral(j)
  <2>1. row.source = "pbs" /\ Write(j, Summary(row, row.used, <<>>))
    BY <1>1, <1>2, <1>3, <1>8, PhaseNames DEF WriteGeneral, JobsSummary, OfPhase, PhaseOf
  <2> QED BY <1>4, <1>5, <2>1, NoServers
<1>9. CASE WriteServers(j)
  <2>1. PICK s : s = WithServers(row, b.before)
    OBVIOUS
  <2>2. row.source = "openstack" /\ Write(j, Summary(row, Total(s, DOMAIN s), s))
    BY <1>1, <1>2, <1>3, <1>9, <2>1, PhaseNames DEF WriteServers, ServersSummary, OfPhase, PhaseOf
  <2>3. s \in Servers /\ Total(s, DOMAIN s) \in Nat
    BY <1>4, <2>1, ServersTogether
  <2> QED BY <1>5, <2>1, <2>2, <2>3
<1> QED BY <1>6, <1>7, <1>8, <1>9 DEF Written

\* An event stays what was reported, a summary what it is about.
IsSameEvent(e, f) == IsReport(f, e) /\ f.used = e.used /\ f.instance = e.instance

EventsKept ==
  /\ DOMAIN events \subseteq DOMAIN events'
  /\ \A i \in DOMAIN events : IsSameEvent(events[i], events'[i])

IsSameSummary(s, t) ==
  /\ t.source = s.source /\ t.slug = s.slug /\ t.day = s.day /\ t.personal = s.personal
  /\ s.personal => SameNames(t.ids, s.ids)

SummariesKept ==
  /\ DOMAIN summaries \subseteq DOMAIN summaries'
  /\ \A i \in DOMAIN summaries : IsSameSummary(summaries[i], summaries'[i])

\* A summary that is mapped is as it was otherwise.
IsRemapped(s, t) ==
  /\ t.day = s.day /\ t.source = s.source /\ t.slug = s.slug /\ t.personal = s.personal
  /\ t.ids = s.ids /\ t.total = s.total /\ t.instances = s.instances

\* The rows I of a table, mapped to q.
Moved(table, I, q) == [i \in DOMAIN table |-> IF i \in I THEN [table[i] EXCEPT !.project = q] ELSE table[i]]

LEMMA MovesAre ==
  ASSUME NEW table, NEW p
  PROVE  /\ Unmapped(table, p) = Moved(table, {i \in DOMAIN table : table[i].project = p}, NoProject)
         /\ Filled(table, p) = Moved(table, {i \in DOMAIN table : BackfillTakes(backfill[p].of, table[i])}, p)
BY DEF Unmapped, Filled, Moved

LEMMA MovedEventsHold ==
  ASSUME NEW es \in Seq(EventRow), NEW I, NEW q \in ProjectId \cup {NoProject}
  PROVE  /\ Moved(es, I, q) \in Seq(EventRow) /\ DOMAIN Moved(es, I, q) = DOMAIN es
         /\ \A i \in DOMAIN es : /\ IsSameEvent(es[i], Moved(es, I, q)[i])
                                 /\ Moved(es, I, q)[i].project = IF i \in I THEN q ELSE es[i].project
<1>1. PICK m : m = Moved(es, I, q)
  OBVIOUS
<1>2. DOMAIN es = 1..Len(es) /\ Len(es) \in Nat
  BY LenProperties
<1>3. DOMAIN m = DOMAIN es /\ m = [i \in 1..Len(es) |-> m[i]]
  BY <1>1, <1>2 DEF Moved
<1>4. ASSUME NEW i \in DOMAIN es
      PROVE  /\ m[i] \in EventRow /\ IsSameEvent(es[i], m[i]) /\ m[i].project = IF i \in I THEN q ELSE es[i].project
  <2>1. PICK e \in EventRow : e = es[i]
    BY <1>4, <1>2, ElementOfSeq
  <2>2. m[i] = IF i \in I THEN [e EXCEPT !.project = q] ELSE e
    BY <1>1, <1>4, <2>1 DEF Moved
  <2>3. PICK f : f = [e EXCEPT !.project = q]
    OBVIOUS
  <2>4. f \in EventRow /\ IsReport(f, e) /\ f.project = q /\ f.used = e.used /\ f.instance = e.instance
    BY <2>3, EventsMap
  <2>5. IsSameEvent(e, f) /\ IsSameEvent(e, e)
    BY <2>4 DEF IsSameEvent, IsReport
  <2> QED BY <2>1, <2>2, <2>3, <2>4, <2>5
<1>5. m \in Seq(EventRow)
  BY <1>2, <1>3, <1>4, IsASeq
<1> QED BY <1>1, <1>3, <1>4, <1>5

LEMMA MovedSummariesHold ==
  ASSUME NEW ss \in Seq(SummaryRow), \A i \in DOMAIN ss : SummaryHolds(ss[i]), NEW I,
         NEW q \in ProjectId \cup {NoProject}
  PROVE  /\ Moved(ss, I, q) \in Seq(SummaryRow) /\ DOMAIN Moved(ss, I, q) = DOMAIN ss
         /\ \A i \in DOMAIN ss : /\ IsSameSummary(ss[i], Moved(ss, I, q)[i]) /\ SummaryHolds(Moved(ss, I, q)[i])
                                 /\ IsRemapped(ss[i], Moved(ss, I, q)[i])
                                 /\ Moved(ss, I, q)[i].project = IF i \in I THEN q ELSE ss[i].project
<1>1. PICK m : m = Moved(ss, I, q)
  OBVIOUS
<1>2. DOMAIN ss = 1..Len(ss) /\ Len(ss) \in Nat
  BY LenProperties
<1>3. DOMAIN m = DOMAIN ss /\ m = [i \in 1..Len(ss) |-> m[i]]
  BY <1>1, <1>2 DEF Moved
<1>4. ASSUME NEW i \in DOMAIN ss
      PROVE  /\ IsSameSummary(ss[i], m[i]) /\ SummaryHolds(m[i]) /\ IsRemapped(ss[i], m[i])
             /\ m[i].project = IF i \in I THEN q ELSE ss[i].project
  <2>1. PICK s \in SummaryRow : s = ss[i] /\ SummaryHolds(s)
    BY <1>4, <1>2, ElementOfSeq
  <2>2. PICK t : t = [s EXCEPT !.project = q]
    OBVIOUS
  <2>3. m[i] = IF i \in I THEN t ELSE s
    BY <1>1, <1>4, <2>1, <2>2 DEF Moved
  <2>4. /\ t \in SummaryRow /\ t.project = q /\ t.source = s.source /\ t.slug = s.slug /\ t.day = s.day
        /\ t.personal = s.personal /\ t.ids = s.ids /\ t.instances = s.instances /\ t.total = s.total
    BY <2>2 DEF SummaryRow
  <2>5. SummaryHolds(t)
    BY <2>1, <2>4 DEF SummaryHolds
  <2>6. IsSameSummary(s, t) /\ IsSameSummary(s, s) /\ IsRemapped(s, t) /\ IsRemapped(s, s)
    BY <2>4 DEF IsSameSummary, IsRemapped, SameNames
  <2> QED BY <2>1, <2>2, <2>3, <2>4, <2>5, <2>6
<1>5. m \in Seq(SummaryRow)
  BY <1>2, <1>3, <1>4, IsASeq DEF SummaryHolds
<1> QED BY <1>1, <1>3, <1>4, <1>5

LEMMA JoinedEventsHold ==
  ASSUME NEW c \in Collector, TablesHold, BatchesHold, Save(c)
  PROVE  /\ events' \in Seq(EventRow) /\ EventsKept /\ incoming[c].events \in Seq(EventRow)
         /\ DOMAIN events' = 1..(Len(events) + Len(incoming[c].events))
         /\ \A i \in DOMAIN events : events'[i] = events[i]
         /\ \A i \in DOMAIN events' \ DOMAIN events :
              i - Len(events) \in DOMAIN incoming[c].events /\ events'[i] = incoming[c].events[i - Len(events)]
<1>1. PICK new \in Seq(EventRow) : new = incoming[c].events
  BY DEF BatchesHold
<1>2. PICK old \in Seq(EventRow) : old = events
  BY DEF TablesHold
<1>3. events' = old \o new
  BY <1>1, <1>2 DEF Save
<1>4. /\ old \o new \in Seq(EventRow) /\ Len(old \o new) = Len(old) + Len(new)
      /\ \A i \in 1..(Len(old) + Len(new)) : (old \o new)[i] = IF i <= Len(old) THEN old[i] ELSE new[i - Len(old)]
  BY ConcatProperties
<1>5. /\ DOMAIN old = 1..Len(old) /\ DOMAIN new = 1..Len(new) /\ Len(old) \in Nat /\ Len(new) \in Nat
      /\ DOMAIN (old \o new) = 1..Len(old \o new)
  BY <1>4, LenProperties
<1>6. \A i \in DOMAIN events : i \in DOMAIN events' /\ events'[i] = events[i]
  BY <1>2, <1>3, <1>4, <1>5
<1>7. \A i \in DOMAIN events' \ DOMAIN events : i - Len(old) \in DOMAIN new /\ events'[i] = new[i - Len(old)]
  BY <1>2, <1>3, <1>4, <1>5
<1>8. EventsKept
  BY <1>6 DEF EventsKept, IsSameEvent, IsReport
<1> QED BY <1>1, <1>2, <1>3, <1>4, <1>5, <1>6, <1>7, <1>8

LEMMA EventsStay ==
  ASSUME TablesHold, BatchesHold, BackfillsHold, Next
  PROVE  events' \in Seq(EventRow) /\ EventsKept
<1>1. ASSUME NEW I, NEW q \in ProjectId \cup {NoProject}, events' = Moved(events, I, q)
      PROVE  events' \in Seq(EventRow) /\ EventsKept
  BY <1>1, MovedEventsHold DEF TablesHold, EventsKept
<1>2. CASE UNCHANGED events
  BY <1>2 DEF TablesHold, EventsKept, IsSameEvent, IsReport
<1>3. ASSUME NEW c \in Collector, Save(c) PROVE events' \in Seq(EventRow) /\ EventsKept
  BY <1>3, JoinedEventsHold
<1>4. ASSUME NEW p \in DOMAIN backfill, BackfillEvents(p) PROVE events' \in Seq(EventRow) /\ EventsKept
  <2>1. PICK I : I = {i \in DOMAIN events : BackfillTakes(backfill[p].of, events[i])}
    OBVIOUS
  <2>2. events' = Moved(events, I, p) /\ p \in ProjectId
    BY <1>4, <2>1, MovesAre DEF BackfillEvents, BackfillsHold
  <2> QED BY <1>1, <2>2
<1>5. ASSUME NEW p \in DOMAIN backfill, NEW slug \in Slug, Resubmit(p, slug)
      PROVE  events' \in Seq(EventRow) /\ EventsKept
  <2>1. CASE slug = project[p].slug
    BY <1>2, <1>5, <2>1 DEF Resubmit
  <2>2. CASE slug # project[p].slug
    <3>1. PICK I : I = {i \in DOMAIN events : events[i].project = p}
      OBVIOUS
    <3>2. events' = Moved(events, I, NoProject)
      BY <1>5, <2>2, <3>1, MovesAre DEF Resubmit
    <3> QED BY <1>1, <3>2
  <2> QED BY <2>1, <2>2
<1> QED BY <1>2, <1>3, <1>4, <1>5, WhoTouchesEvents

\* A summary that is updated keeps its day, its slug and its project.
Updated(old, s) == [old EXCEPT !.total = s.total, !.count = s.count, !.ids = s.ids, !.instances = s.instances]

LEMMA WrittenHolds ==
  ASSUME NEW b, NEW s, IsWritten(b, s)
  PROVE  /\ SummaryHolds(s) /\ IsReport(s, b.row) /\ s.project = NoProject
         /\ s.count \in Nat \ {0} /\ s.ids \in Identities
<1>1. PICK row : row = b.row /\ row \in DayRow /\ RowHolds(row)
  BY DEF IsWritten, RowHolds
<1>2. PICK total \in Nat, instances \in Servers : total = s.total /\ instances = s.instances
  BY DEF IsWritten
<1>3. s = [day |-> row.day, source |-> row.source, slug |-> row.slug, personal |-> row.personal,
           ids |-> row.ids, count |-> row.count, project |-> NoProject, total |-> total, instances |-> instances]
  BY <1>1, <1>2 DEF IsWritten, Summary
<1>4. s \in SummaryRow
  BY <1>1, <1>3 DEF SummaryRow, DayRow
<1>5. /\ s.day = row.day /\ s.source = row.source /\ s.slug = row.slug /\ s.personal = row.personal
      /\ s.ids = row.ids /\ s.project = NoProject
  BY <1>3
<1>6. s.personal => \E r \in Reported : /\ r.personal /\ r.source = s.source /\ r.ids = s.ids
                                        /\ s.source = "openstack" => r.slug = s.slug
  BY <1>1, <1>5 DEF RowHolds, IsReport
<1>7. SummaryHolds(s)
  BY <1>1, <1>4, <1>5, <1>6 DEF SummaryHolds, IsWritten
<1> QED BY <1>1, <1>4, <1>5, <1>7 DEF IsReport, SummaryRow

LEMMA UpdatedHolds ==
  ASSUME NEW b, NEW s, IsWritten(b, s), NEW old, SummaryHolds(old), IsFound(old, b.row)
  PROVE  LET t == Updated(old, s)
         IN  /\ SummaryHolds(t) /\ IsSameSummary(old, t) /\ IsFound(t, b.row)
             /\ t.total = s.total /\ t.instances = s.instances /\ t.ids = s.ids /\ t.project = old.project
<1>1. PICK o \in SummaryRow : o = old
  BY DEF SummaryHolds
<1>2. /\ SummaryHolds(s) /\ IsReport(s, b.row) /\ s.count \in Nat \ {0} /\ s.ids \in Identities
      /\ s.total \in Nat /\ s.instances \in Servers
  BY WrittenHolds DEF IsWritten
<1>3. PICK t : t = [o EXCEPT !.total = s.total, !.count = s.count, !.ids = s.ids, !.instances = s.instances]
  OBVIOUS
<1>4. Updated(old, s) = t
  BY <1>1, <1>3 DEF Updated
<1>5. /\ t.day = o.day /\ t.source = o.source /\ t.slug = o.slug /\ t.personal = o.personal /\ t.project = o.project
      /\ t.ids = s.ids /\ t.total = s.total /\ t.instances = s.instances
  BY <1>3 DEF SummaryRow
<1>6. t \in SummaryRow
  BY <1>2, <1>3 DEF SummaryRow
<1>7. o.source = s.source /\ o.personal = s.personal /\ (s.source = "openstack" => o.slug = s.slug)
  BY <1>1, <1>2 DEF IsFound, IsReport
<1>8. SummaryHolds(t)
  <2>1. t.source # "openstack" => DOMAIN t.instances = {}
    BY <1>2, <1>5, <1>7 DEF SummaryHolds
  <2>2. t.personal => \E r \in Reported : /\ r.personal /\ r.source = t.source /\ r.ids = t.ids
                                          /\ t.source = "openstack" => r.slug = t.slug
    BY <1>2, <1>5, <1>7 DEF SummaryHolds
  <2> QED BY <1>6, <2>1, <2>2 DEF SummaryHolds
<1>9. IsSameSummary(o, t)
  BY <1>1, <1>2, <1>5 DEF IsSameSummary, IsFound, IsReport, SameNames
<1>10. IsFound(t, b.row)
  BY <1>1, <1>2, <1>5 DEF IsFound, IsReport, SameNames
<1> QED BY <1>1, <1>4, <1>5, <1>8, <1>9, <1>10

\* The row n of the table is written and holds t.
IsPut(k, s, n, t) ==
  /\ DOMAIN summaries' = DOMAIN summaries \cup {n} /\ summaries'[n] = t
  /\ \A i \in DOMAIN summaries \ {n} : summaries'[i] = summaries[i]
  /\ IF k = 0 THEN n \notin DOMAIN summaries /\ t = s
     ELSE n = k /\ k \in DOMAIN summaries /\ t = Updated(summaries[k], s) /\ IsSameSummary(summaries[k], t)

LEMMA PutHolds ==
  ASSUME TablesHold, JobsHold, NEW j \in Job, NEW s, IsWritten(job[j], s), Write(j, s)
  PROVE  /\ summaries' \in Seq(SummaryRow) /\ (\A i \in DOMAIN summaries' : SummaryHolds(summaries'[i]))
         /\ \E n, t : IsPut(job[j].existing, s, n, t) /\ IsFound(t, job[j].row)
<1>1. PICK b : b = job[j] /\ JobHolds(b) /\ b.looked /\ b.phase \in 1..4 /\ b.existing # Unsought
  BY DEF JobsHold, IsWritten, JobHolds, Write
<1>2. PICK ss \in Seq(SummaryRow) : ss = summaries
  BY DEF TablesHold
<1>3. DOMAIN ss = 1..Len(ss) /\ Len(ss) \in Nat /\ ss \in [1..Len(ss) -> SummaryRow]
  BY LenProperties
<1>4. SummaryHolds(s) /\ IsReport(s, b.row) /\ s \in SummaryRow
  BY <1>1, WrittenHolds DEF SummaryHolds
<1>5. CASE b.existing = 0
  <2>1. summaries' = Append(ss, s)
    BY <1>1, <1>2, <1>5 DEF Write, Put
  <2>2. PICK n : n = Len(ss) + 1
    OBVIOUS
  <2>3. /\ Append(ss, s) \in Seq(SummaryRow) /\ Len(Append(ss, s)) = n
        /\ Append(ss, s)[n] = s /\ \A i \in 1..Len(ss) : Append(ss, s)[i] = ss[i]
    BY <1>4, <2>2, AppendProperties
  <2>4. DOMAIN Append(ss, s) = 1..n
    BY <2>3, LenProperties
  <2>5. IsPut(b.existing, s, n, s)
    BY <1>2, <1>3, <1>5, <2>1, <2>2, <2>3, <2>4 DEF IsPut
  <2>6. IsFound(s, b.row)
    BY <1>4 DEF IsFound, IsReport, SameNames
  <2>7. \A i \in DOMAIN summaries' : SummaryHolds(summaries'[i])
    BY <1>4, <2>5 DEF IsPut, TablesHold
  <2> QED BY <1>1, <2>1, <2>3, <2>5, <2>6, <2>7
<1>6. CASE b.existing # 0
  <2>1. PICK k \in DOMAIN ss : k = b.existing /\ IsFound(ss[k], b.row) /\ SummaryHolds(ss[k])
    BY <1>1, <1>2, <1>6 DEF JobHolds, TablesHold
  <2>2. PICK t : t = Updated(ss[k], s)
    OBVIOUS
  <2>3. SummaryHolds(t) /\ IsSameSummary(ss[k], t) /\ IsFound(t, b.row)
    BY <1>1, <2>1, <2>2, UpdatedHolds
  <2>4. summaries' = [ss EXCEPT ![k].total = s.total, ![k].count = s.count, ![k].ids = s.ids,
                                ![k].instances = s.instances]
    BY <1>1, <1>2, <1>6, <2>1 DEF Write, Put
  <2>5. PICK o \in SummaryRow : o = ss[k]
    BY <1>3, <2>1
  <2>6. summaries' = [ss EXCEPT ![k] = t]
    BY <1>3, <2>2, <2>4, <2>5 DEF Updated
  <2>7. IsPut(b.existing, s, k, t)
    BY <1>2, <1>3, <1>6, <2>1, <2>2, <2>3, <2>6 DEF IsPut
  <2>8. \A i \in DOMAIN summaries' : SummaryHolds(summaries'[i])
    BY <2>3, <2>7 DEF IsPut, TablesHold
  <2>9. summaries' \in Seq(SummaryRow)
    BY <1>3, <2>3, <2>6, ExceptSeq DEF SummaryHolds
  <2> QED BY <1>1, <2>3, <2>7, <2>8, <2>9
<1> QED BY <1>5, <1>6

LEMMA MappingsAre ==
  ASSUME TablesHold, JobsHold, NEW j \in Job, WriteProject(j)
  PROVE  LET b == job[j]
         IN  /\ b.looked /\ b.phase = 5 /\ b.row \in b.todo /\ b.row \in DOMAIN summaries
             /\ b.existing \in ProjectId \cup {NoProject}
             /\ IF b.existing = NoProject THEN UNCHANGED summaries
                ELSE summaries' = Moved(summaries, {b.row}, b.existing)
<1>1. PICK b : b = job[j] /\ JobHolds(b) /\ b.looked
  BY DEF JobsHold, WriteProject
<1>2. b.phase \in 0..5 /\ b.phase # 0 /\ b.row \in b.todo
  BY <1>1 DEF JobHolds
<1>3. b.phase = 5
  <2>1. b.phase \in 1..5 /\ Phases[b.phase] = "map"
    BY <1>1, <1>2 DEF WriteProject, PhaseOf
  <2> QED BY <2>1, PhaseNames
<1>4. b.row \in DOMAIN summaries /\ b.existing \in ProjectId \cup {NoProject}
  BY <1>1, <1>2, <1>3 DEF JobHolds
<1>5. CASE b.existing = NoProject
  BY <1>1, <1>2, <1>3, <1>4, <1>5 DEF WriteProject
<1>6. CASE b.existing # NoProject
  <2>1. summaries' = [summaries EXCEPT ![b.row].project = b.existing]
    BY <1>1, <1>6 DEF WriteProject
  <2>2. summaries \in Seq(SummaryRow)
    BY DEF TablesHold
  <2>3. [summaries EXCEPT ![b.row].project = b.existing] = Moved(summaries, {b.row}, b.existing)
    BY <1>4, <2>2, LenProperties DEF Moved
  <2> QED BY <1>1, <1>2, <1>3, <1>4, <1>6, <2>1, <2>3
<1> QED BY <1>5, <1>6

LEMMA SummariesStay ==
  ASSUME TablesHold, JobsHold, BackfillsHold, Next
  PROVE  /\ summaries' \in Seq(SummaryRow) /\ (\A i \in DOMAIN summaries' : SummaryHolds(summaries'[i]))
         /\ SummariesKept
<1> DEFINE Stay == /\ summaries' \in Seq(SummaryRow) /\ (\A i \in DOMAIN summaries' : SummaryHolds(summaries'[i]))
                   /\ SummariesKept
<1>1. ASSUME NEW I, NEW q \in ProjectId \cup {NoProject}, summaries' = Moved(summaries, I, q) PROVE Stay
  BY <1>1, MovedSummariesHold DEF TablesHold, SummariesKept
<1>2. ASSUME UNCHANGED summaries PROVE Stay
  BY <1>2 DEF TablesHold, SummariesKept, IsSameSummary, SameNames
<1>3. ASSUME NEW j \in Job, Written(j) PROVE Stay
  <2>1. PICK s : Write(j, s) /\ IsWritten(job[j], s)
    BY <1>3, WritesAre
  <2>2. PICK n, t : IsPut(job[j].existing, s, n, t)
    BY <2>1, PutHolds
  <2>3. SummariesKept
    BY <2>2 DEF IsPut, SummariesKept, IsSameSummary, SameNames
  <2> QED BY <2>1, <2>3, PutHolds
<1>4. ASSUME NEW j \in Job, WriteProject(j) PROVE Stay
  <2>1. PICK b : b = job[j]
    OBVIOUS
  <2>2. /\ b.existing \in ProjectId \cup {NoProject}
        /\ IF b.existing = NoProject THEN UNCHANGED summaries
           ELSE summaries' = Moved(summaries, {b.row}, b.existing)
    BY <1>4, <2>1, MappingsAre
  <2> HIDE DEF Stay
  <2> QED BY <1>1, <1>2, <2>2
<1>5. ASSUME NEW p \in DOMAIN backfill, BackfillSummaries(p) PROVE Stay
  <2>1. PICK I : I = {i \in DOMAIN summaries : BackfillTakes(backfill[p].of, summaries[i])}
    OBVIOUS
  <2>2. summaries' = Moved(summaries, I, p) /\ p \in ProjectId
    BY <1>5, <2>1, MovesAre DEF BackfillSummaries, BackfillsHold
  <2> HIDE DEF Stay
  <2> QED BY <1>1, <2>2
<1>6. ASSUME NEW p \in DOMAIN backfill, NEW slug \in Slug, Resubmit(p, slug) PROVE Stay
  <2>1. CASE slug = project[p].slug
    <3> HIDE DEF Stay
    <3> QED BY <1>2, <1>6, <2>1 DEF Resubmit
  <2>2. CASE slug # project[p].slug
    <3>1. PICK I : I = {i \in DOMAIN summaries : summaries[i].project = p}
      OBVIOUS
    <3>2. summaries' = Moved(summaries, I, NoProject)
      BY <1>6, <2>2, <3>1, MovesAre DEF Resubmit
    <3> HIDE DEF Stay
    <3> QED BY <1>1, <3>2
  <2> QED BY <2>1, <2>2
<1> HIDE DEF Stay
<1>7. Stay
  BY <1>2, <1>3, <1>4, <1>5, <1>6, WhoTouchesSummaries
<1> QED BY <1>7 DEF Stay

LEMMA TablesStay ==
  ASSUME UsageShapes, Next
  PROVE  TablesHold' /\ EventsKept /\ SummariesKept
BY EventsStay, SummariesStay DEF UsageShapes, TablesHold

-----------------------------------------------------------------------------
(* The shapes stay: what is under way.                                     *)

\* A batch as it is mapped.
Mapped(b) == [i \in DOMAIN b.events |->
                [b.events[i] EXCEPT !.project = MappedProject(project, users, b.events[i])]]

LEMMA ReceivedHolds ==
  ASSUME ProjectsHold, NEW b \in Batch
  PROVE  /\ Mapped(b) \in Seq(EventRow) \ {<<>>} /\ DOMAIN Mapped(b) = DOMAIN b.events
         /\ [b EXCEPT !.events = Mapped(b)] = [events |-> Mapped(b), last |-> b.last]
         /\ b.last \in BOOLEAN
         /\ \A i \in DOMAIN b.events :
              LET e == b.events[i]
                  p == MappedProject(project, users, e)
              IN  /\ e \in Reported /\ Mapped(b)[i] \in EventRow /\ Mapped(b)[i].project = p
                  /\ IsReport(Mapped(b)[i], e)
<1>1. PICK es \in Seq(Reported) : es = b.events /\ es # <<>> /\ b = [events |-> es, last |-> b.last] /\ b.last \in BOOLEAN
  BY ReportAssumption
<1>2. DOMAIN es = 1..Len(es) /\ Len(es) \in Nat
  BY LenProperties
<1>3. PICK m : m = Mapped(b)
  OBVIOUS
<1>4. ASSUME NEW i \in DOMAIN es
      PROVE  /\ es[i] \in Reported /\ m[i] \in EventRow /\ m[i].project = MappedProject(project, users, es[i])
             /\ IsReport(m[i], es[i])
  <2>1. PICK e \in Reported : e = es[i]
    BY <1>2, <1>4, ElementOfSeq
  <2>2. PICK p \in ProjectId \cup {NoProject} : p = MappedProject(project, users, e)
    BY MappedIsFound, ProjectsAre
  <2>3. m[i] = [e EXCEPT !.project = p]
    BY <1>1, <1>3, <1>4, <2>1, <2>2 DEF Mapped
  <2> QED BY <2>1, <2>2, <2>3, ReportsAreEvents, EventsMap
<1>5. DOMAIN m = 1..Len(es) /\ m = [i \in 1..Len(es) |-> m[i]]
  BY <1>1, <1>2, <1>3 DEF Mapped
<1>6. m \in Seq(EventRow)
  BY <1>2, <1>4, <1>5, IsASeq
<1>7. m # <<>>
  <2>1. Len(es) # 0
    BY <1>1, EmptySeq
  <2>2. 1 \in DOMAIN m
    BY <1>2, <1>5, <2>1
  <2> QED BY <2>2, NoServers
<1>8. [b EXCEPT !.events = m] = [events |-> m, last |-> b.last]
  BY <1>1
<1> QED BY <1>1, <1>2, <1>3, <1>4, <1>5, <1>6, <1>7, <1>8

LEMMA BatchesStay ==
  ASSUME UsageShapes, Next
  PROVE  BatchesHold'
<1>1. BatchesHold /\ ProjectsHold
  BY DEF UsageShapes
<1>2. NoBatch \in [events : Seq(EventRow), last : BOOLEAN]
  BY EmptySeq DEF NoBatch
<1>3. CASE UNCHANGED incoming
  BY <1>1, <1>3 DEF BatchesHold
<1>4. ASSUME NEW c \in Collector, NEW b \in Batch, Receive(c, b) PROVE BatchesHold'
  <2>1. PICK m \in Seq(EventRow) \ {<<>>} : m = Mapped(b) /\ b.last \in BOOLEAN
                                             /\ [b EXCEPT !.events = m] = [events |-> m, last |-> b.last]
    BY <1>1, ReceivedHolds
  <2>2. incoming' = [incoming EXCEPT ![c] = [events |-> m, last |-> b.last]]
    BY <1>4, <2>1 DEF Receive, Mapped
  <2> QED BY <1>1, <2>1, <2>2 DEF BatchesHold
<1>5. ASSUME NEW c \in Collector, Save(c) PROVE BatchesHold'
  BY <1>1, <1>2, <1>5 DEF BatchesHold, Save
<1>6. CASE Restart
  BY <1>1, <1>2, <1>6 DEF BatchesHold, Restart
<1> QED BY <1>3, <1>4, <1>5, <1>6, WhoTouchesBatches

LEMMA BackfillsStay ==
  ASSUME UsageShapes, Next
  PROVE  BackfillsHold'
<1>1. BackfillsHold /\ ProjectsHold
  BY DEF UsageShapes
<1>2. \* What is under way concerns projects that are and stay active.
      ASSUME NEW p \in ProjectId, backfill[p] # NoBackfill
      PROVE  p \in DOMAIN project' /\ project'[p] = project[p] /\ project[p].status = "active"
  <2>1. p \in DOMAIN project /\ project[p].status = "active"
    BY <1>1, <1>2 DEF BackfillsHold, BackfillHolds
  <2>2. CASE UNCHANGED <<project, users>>
    BY <2>1, <2>2
  <2>3. ASSUME NEW u \in User, SignIn(u) PROVE p \in DOMAIN project' /\ project'[p] = project[p]
    BY <1>1, <2>1, <2>3, SignInHolds DEF SignIn, Inserted
  <2>4. ASSUME NEW q \in GroupProject, NEW slug \in Slug, RequestProject(q, slug)
        PROVE  p \in DOMAIN project' /\ project'[p] = project[p]
    BY <2>1, <2>4 DEF RequestProject, Inserted
  <2>5. ASSUME NEW q, NEW slug, NEW status, IsReview(q, slug, status)
        PROVE  p \in DOMAIN project' /\ project'[p] = project[p]
    BY <2>1, <2>5 DEF IsReview
  <2>6. ASSUME NEW q, Approve(q) \/ Reject(q) \/ \E slug \in Slug : Resubmit(q, slug)
        PROVE  \E slug, status : IsReview(q, slug, status)
    BY <1>1, <2>6, ReviewsAre
  <2> QED BY <2>1, <2>2, <2>3, <2>4, <2>5, <2>6, WhoTouchesProjects
<1>3. CASE UNCHANGED backfill
  BY <1>1, <1>2, <1>3 DEF BackfillsHold, BackfillHolds
<1>4. ASSUME NEW p \in ProjectId, DOMAIN backfill' = DOMAIN backfill,
             \A q \in ProjectId \ {p} : backfill'[q] = backfill[q], BackfillHolds(p)'
      PROVE  BackfillsHold'
  <2>1. ASSUME NEW q \in ProjectId, q # p PROVE BackfillHolds(q)'
    BY <1>1, <1>2, <1>4, <2>1 DEF BackfillsHold, BackfillHolds
  <2> QED BY <1>1, <1>4, <2>1 DEF BackfillsHold
<1>5. ASSUME NEW p \in DOMAIN backfill, Approve(p) PROVE BackfillsHold'
  <2>1. PICK r : r = project[p] /\ p \in DOMAIN project /\ IsReview(p, r.slug, "active")
    BY <1>1, <1>5, ReviewsAre DEF Approve
  <2>2. backfill' = [backfill EXCEPT ![p] = [step |-> "events", of |-> r]] /\ p \in ProjectId
    BY <1>1, <1>5, <2>1 DEF Approve, BackfillsHold
  <2>3. project'[p] = [slug |-> r.slug, personal |-> FALSE, pi |-> r.pi, status |-> "active"] /\ ~r.personal
        /\ p \in DOMAIN project'
    <3>1. r.personal \in BOOLEAN
      BY <1>1, <2>1 DEF ProjectsHold, ProjectHolds
    <3> QED BY <2>1, <3>1 DEF IsReview
  <2>4. backfill'[p] = [step |-> "events", of |-> r]
    BY <2>2
  <2>5. BackfillHolds(p)'
    BY <2>3, <2>4 DEF BackfillHolds
  <2> QED BY <1>4, <2>2, <2>5
<1>6. ASSUME NEW p \in DOMAIN backfill, BackfillEvents(p) PROVE BackfillsHold'
  <2>1. PICK b : /\ b = backfill[p] /\ b.step = "events" /\ p \in ProjectId
    BY <1>1, <1>6 DEF BackfillEvents, BackfillsHold
  <2>2. b # NoBackfill /\ b = [step |-> b.step, of |-> b.of] /\ BackfillHolds(p)
    BY <1>1, <2>1 DEF BackfillsHold, BackfillHolds, NoBackfill
  <2>b. PICK o : o = b.of /\ b = [step |-> "events", of |-> o]
    BY <2>1, <2>2
  <2>c. backfill' = [backfill EXCEPT ![p].step = "summaries"]
    BY <1>6 DEF BackfillEvents
  <2>3. backfill' = [backfill EXCEPT ![p] = [step |-> "summaries", of |-> b.of]]
    <3>1. PICK n : n = [step |-> "summaries", of |-> o]
      OBVIOUS
    <3>2. [b EXCEPT !.step = "summaries"] = n
      BY <2>b, <3>1
    <3>3. [backfill EXCEPT ![p].step = "summaries"] = [backfill EXCEPT ![p] = n]
      BY <2>1, <3>2
    <3> QED BY <2>b, <2>c, <3>1, <3>3
  <2>a. PICK r : r = project[p]
    OBVIOUS
  <2>5. /\ p \in DOMAIN project' /\ project'[p] = r /\ r.status = "active"
        /\ b.of.slug = r.slug /\ ~b.of.personal /\ ~r.personal
    BY <1>2, <2>1, <2>2, <2>a DEF BackfillHolds
  <2>6. backfill'[p] = [step |-> "summaries", of |-> b.of]
    BY <1>1, <2>1, <2>3 DEF BackfillsHold
  <2>4. BackfillHolds(p)'
    BY <2>5, <2>6 DEF BackfillHolds
  <2> QED BY <1>4, <2>1, <2>3, <2>4
<1>7. ASSUME NEW p \in DOMAIN backfill, BackfillSummaries(p) \/ BackfillFails(p) PROVE BackfillsHold'
  <2>1. backfill' = [backfill EXCEPT ![p] = NoBackfill] /\ p \in ProjectId
    BY <1>1, <1>7 DEF BackfillSummaries, BackfillFails, BackfillsHold
  <2>2. backfill'[p] = NoBackfill /\ DOMAIN backfill' = DOMAIN backfill
    BY <1>1, <2>1 DEF BackfillsHold
  <2>3. BackfillHolds(p)'
    BY <2>2 DEF BackfillHolds
  <2>4. \A q \in ProjectId \ {p} : backfill'[q] = backfill[q]
    BY <2>1, <1>1 DEF BackfillsHold
  <2> QED BY <1>4, <2>1, <2>2, <2>3, <2>4
<1>8. CASE Restart
  BY <1>1, <1>8 DEF Restart, BackfillsHold, BackfillHolds
<1> QED BY <1>3, <1>5, <1>6, <1>7, <1>8, WhoTouchesBackfills

-----------------------------------------------------------------------------
(* The shapes stay: aggregations.                                          *)

JobOf(ph, ds, td, lk, rw, bf, ex) ==
  [phase |-> ph, days |-> ds, todo |-> td, looked |-> lk, row |-> rw, before |-> bf, existing |-> ex]

\* The fields that the steps of an aggregation change together.
InPhaseOf(b, n, rows) == [b EXCEPT !.phase = n, !.todo = rows]
LookedUp(b, l, row, k, before) == [b EXCEPT !.looked = l, !.row = row, !.existing = k, !.before = before]
LookedFor(b, l, row, k) == [b EXCEPT !.looked = l, !.row = row, !.existing = k]
SoughtFor(b, k) == [b EXCEPT !.existing = k]
ForMapping(b, n, rows, before) == [b EXCEPT !.phase = n, !.todo = rows, !.before = before]
LeftWith(b, l, rows, before) ==
  [b EXCEPT !.looked = l, !.row = None, !.existing = 0, !.todo = rows, !.before = before]

LEMMA JobChanges ==
  ASSUME NEW ph, NEW ds, NEW td, NEW lk, NEW rw, NEW bf, NEW ex, NEW b, b = JobOf(ph, ds, td, lk, rw, bf, ex),
         NEW n, NEW rows, NEW row, NEW before, NEW k, NEW l
  PROVE  /\ InPhaseOf(b, n, rows) = JobOf(n, ds, rows, lk, rw, bf, ex)
         /\ LookedFor(b, l, row, k) = JobOf(ph, ds, td, l, row, bf, k)
         /\ LookedUp(b, l, row, k, before) = JobOf(ph, ds, td, l, row, before, k)
         /\ ForMapping(b, n, rows, before) = JobOf(n, ds, rows, lk, rw, before, ex)
         /\ SoughtFor(b, k) = JobOf(ph, ds, td, lk, rw, bf, k)
         /\ LeftWith(b, l, rows, before) = JobOf(ph, ds, rows, l, None, before, 0)
<1>1. [b EXCEPT !.phase = n, !.todo = rows] = JobOf(n, ds, rows, lk, rw, bf, ex)
  <2>1. PICK b1 : b1 = JobOf(n, ds, td, lk, rw, bf, ex)
    OBVIOUS
  <2>2. [b EXCEPT !.phase = n] = b1
    BY <2>1 DEF JobOf
  <2>3. [b1 EXCEPT !.todo = rows] = JobOf(n, ds, rows, lk, rw, bf, ex)
    BY <2>1 DEF JobOf
  <2> QED BY <2>2, <2>3
<1>2. PICK b2 : b2 = JobOf(ph, ds, td, l, row, bf, ex)
  OBVIOUS
<1>3. [b EXCEPT !.looked = l, !.row = row] = b2
  <2>1. PICK b1 : b1 = JobOf(ph, ds, td, l, rw, bf, ex)
    OBVIOUS
  <2>2. [b EXCEPT !.looked = l] = b1
    BY <2>1 DEF JobOf
  <2>3. [b1 EXCEPT !.row = row] = b2
    BY <1>2, <2>1 DEF JobOf
  <2> QED BY <2>2, <2>3
<1>4. PICK b3 : b3 = JobOf(ph, ds, td, l, row, bf, k)
  OBVIOUS
<1>5. [b EXCEPT !.looked = l, !.row = row, !.existing = k] = b3
  <2>1. [b2 EXCEPT !.existing = k] = b3
    BY <1>2, <1>4 DEF JobOf
  <2> QED BY <1>3, <2>1
<1>6. [b EXCEPT !.looked = l, !.row = row, !.existing = k, !.before = before] = JobOf(ph, ds, td, l, row, before, k)
  <2>1. [b3 EXCEPT !.before = before] = JobOf(ph, ds, td, l, row, before, k)
    BY <1>4 DEF JobOf
  <2> QED BY <1>5, <2>1
<1>7. [b EXCEPT !.looked = l, !.row = None, !.existing = 0, !.todo = rows, !.before = before] =
        JobOf(ph, ds, rows, l, None, before, 0)
  <2>1. PICK b1 : b1 = JobOf(ph, ds, td, l, rw, bf, ex)
    OBVIOUS
  <2>2. PICK b4 : b4 = JobOf(ph, ds, td, l, None, bf, ex)
    OBVIOUS
  <2>3. PICK b5 : b5 = JobOf(ph, ds, td, l, None, bf, 0)
    OBVIOUS
  <2>4. PICK b6 : b6 = JobOf(ph, ds, rows, l, None, bf, 0)
    OBVIOUS
  <2>5. [b EXCEPT !.looked = l] = b1
    BY <2>1 DEF JobOf
  <2>6. [b1 EXCEPT !.row = None] = b4
    BY <2>1, <2>2 DEF JobOf
  <2>7. [b4 EXCEPT !.existing = 0] = b5
    BY <2>2, <2>3 DEF JobOf
  <2>8. [b5 EXCEPT !.todo = rows] = b6
    BY <2>3, <2>4 DEF JobOf
  <2>9. [b6 EXCEPT !.before = before] = JobOf(ph, ds, rows, l, None, before, 0)
    BY <2>4 DEF JobOf
  <2> QED BY <2>5, <2>6, <2>7, <2>8, <2>9
<1>8. [b EXCEPT !.phase = n, !.todo = rows, !.before = before] = JobOf(n, ds, rows, lk, rw, before, ex)
  <2>1. PICK b1 : b1 = JobOf(n, ds, rows, lk, rw, bf, ex)
    OBVIOUS
  <2>2. [b1 EXCEPT !.before = before] = JobOf(n, ds, rows, lk, rw, before, ex)
    BY <2>1 DEF JobOf
  <2> QED BY <1>1, <2>1, <2>2
<1>9. [b EXCEPT !.existing = k] = JobOf(ph, ds, td, lk, rw, bf, k)
  BY DEF JobOf
<1> QED BY <1>1, <1>4, <1>5, <1>6, <1>7, <1>8, <1>9 DEF InPhaseOf, LookedFor, LookedUp, SoughtFor, ForMapping, LeftWith

LEMMA NoJobHolds == JobHolds(NoJob) /\ JobHolds(NoJob)'
<1>2. PICK b : b = NoJob
  OBVIOUS
<1>3. /\ b.phase = 0 /\ b.days = {} /\ b.todo = {} /\ ~b.looked /\ b.looked \in BOOLEAN
      /\ b.existing = 0 /\ b = NoJob
      /\ b = [phase |-> b.phase, days |-> b.days, todo |-> b.todo, looked |-> b.looked,
              row |-> b.row, before |-> b.before, existing |-> b.existing]
  BY <1>2 DEF NoJob
<1>4. JobHolds(b)
  BY <1>3 DEF JobHolds
<1>5. JobHolds(b)'
  BY <1>3 DEF JobHolds
<1> QED BY <1>2, <1>4, <1>5

LEMMA JobsKeep ==
  ASSUME SummariesKept, NEW b, JobHolds(b)
  PROVE  JobHolds(b)'
<1>1. ASSUME b.looked, b.phase \in 1..4, b.existing \notin {0, Unsought}
      PROVE  b.existing \in DOMAIN summaries' /\ IsFound(summaries'[b.existing], b.row)
  <2>1. PICK k \in DOMAIN summaries : k = b.existing /\ IsFound(summaries[k], b.row)
    BY <1>1 DEF JobHolds
  <2>2. k \in DOMAIN summaries' /\ IsSameSummary(summaries[k], summaries'[k])
    BY DEF SummariesKept
  <2> QED BY <2>1, <2>2 DEF IsFound, IsSameSummary, SameNames
<1>2. b.phase = 5 => b.todo \subseteq DOMAIN summaries'
  BY DEF JobHolds, SummariesKept
<1>3. ASSUME b.phase = 5, NEW i \in b.todo, summaries'[i].personal PROVE SameNames(b.before[i], summaries'[i].ids)
  <2>1. i \in DOMAIN summaries /\ (summaries[i].personal => SameNames(b.before[i], summaries[i].ids))
    BY <1>3 DEF JobHolds, Recognises
  <2>2. IsSameSummary(summaries[i], summaries'[i])
    BY <2>1 DEF SummariesKept
  <2> QED BY <1>3, <2>1, <2>2 DEF IsSameSummary, SameNames
<1>4. b.phase = 5 => Recognises(b)'
  BY <1>3 DEF JobHolds, Recognises
<1> QED BY <1>1, <1>2, <1>4 DEF JobHolds

LEMMA OneJobChanges ==
  ASSUME JobsHold, SummariesKept, NEW j \in Job, NEW b, job' = [job EXCEPT ![j] = b], JobHolds(b)'
  PROVE  JobsHold'
<1>1. ASSUME NEW k \in Job, k # j PROVE JobHolds(job[k])'
  <2>1. job'[k] = job[k] /\ JobHolds(job[k])
    BY <1>1 DEF JobsHold
  <2>2. PICK o : o = job[k] /\ JobHolds(o)
    BY <2>1
  <2>3. JobHolds(o)'
    BY <2>2, JobsKeep
  <2>4. o = job'[k]
    BY <2>1, <2>2
  <2> QED BY <2>3, <2>4 DEF JobHolds
<1>2. job'[j] = b
  BY DEF JobsHold
<1>3. JobHolds(job[j])'
  BY <1>2 DEF JobHolds
<1> QED BY <1>1, <1>3 DEF JobsHold

LEMMA StartedHolds ==
  ASSUME NEW days \in SUBSET Day, days # {}
  PROVE  /\ days \subseteq Min(days)..Max(days) /\ Min(days)..Max(days) \subseteq Day
         /\ Started(days).days = Min(days)..Max(days) /\ JobHolds(Started(days))'
<1>1. days \subseteq Nat /\ IsFiniteSet(days)
  BY UsageAssumption, FS_Subset
<1>2. PICK d \in days : d = Min(days) /\ \A n \in days : d <= n
  BY <1>1, MinIsLeast
<1>3. PICK e \in days : e = Max(days) /\ \A n \in days : n <= e
  BY <1>1, MaxIsGreatest
<1>4. d..e \subseteq Day /\ days \subseteq d..e
  BY <1>1, <1>2, <1>3, UsageAssumption
<1>5. PICK ds : ds = d..e
  OBVIOUS
<1>6. PICK b : b = Started(days)
  OBVIOUS
<1>7. b = [NoJob EXCEPT !.days = ds]
  BY <1>2, <1>3, <1>5, <1>6 DEF Started
<1>8. b = [phase |-> 0, days |-> ds, todo |-> {}, looked |-> FALSE, row |-> None, before |-> None, existing |-> 0]
  BY <1>7 DEF NoJob
<1>9. /\ b.phase = 0 /\ b.days = ds /\ b.todo = {} /\ ~b.looked /\ b.looked \in BOOLEAN /\ b.existing = 0
      /\ b = [phase |-> b.phase, days |-> b.days, todo |-> b.todo, looked |-> b.looked,
              row |-> b.row, before |-> b.before, existing |-> b.existing]
  BY <1>8
<1>10. ds # {} /\ ds \subseteq Day
  BY <1>4, <1>5
<1>11. JobHolds(b)'
  BY <1>9, <1>10 DEF JobHolds
<1> QED BY <1>2, <1>3, <1>4, <1>5, <1>6, <1>9, <1>11

LEMMA BatchDays ==
  ASSUME BatchesHold, NEW c \in Collector, incoming[c] # NoBatch
  PROVE  LET b == incoming[c]
             new == {b.events[i].day : i \in DOMAIN b.events}
         IN  new \in SUBSET Day /\ new # {}
<1>1. PICK es \in Seq(EventRow) : es = incoming[c].events /\ es # <<>>
  BY DEF BatchesHold
<1>2. DOMAIN es = 1..Len(es) /\ Len(es) \in Nat /\ Len(es) # 0
  BY <1>1, LenProperties, EmptySeq
<1>3. \A i \in DOMAIN es : es[i].day \in Day
  BY <1>2, ElementOfSeq, EventsHold
<1>4. 1 \in DOMAIN es
  BY <1>2
<1> QED BY <1>1, <1>3, <1>4

LEMMA PhaseRows ==
  ASSUME NEW es \in Seq(EventRow), NEW n \in 1..4, NEW days, NEW row \in Rows(es, Phases[n], days)
  PROVE  RowHolds(row) /\ row.day \in days /\ OfPhase(n, row) /\ row.slug # NoSlug
<1>1. PICK I \in SUBSET (DOMAIN es) : IsRowOf(row, Phases[n], es, days, I)
  BY RowsAreOfEvents
<1>2. PICK i \in I : IsReport(row, es[i]) /\ RowHolds(row)
  BY <1>1, RowsHold DEF IsRowOf
<1>3. PICK e : e = es[i] /\ e.day \in days /\ InPhase(Phases[n], e) /\ IsReport(row, e)
  BY <1>1, <1>2 DEF IsRowOf
<1>4. row.source \in Source /\ row.personal \in BOOLEAN
  BY <1>2 DEF RowHolds, DayRow
<1>5. e.source = row.source /\ e.personal = row.personal /\ row.day \in days /\ row.slug # NoSlug
  BY <1>3 DEF IsReport, InPhase
<1>6. ASSUME n = 1 PROVE OfPhase(n, row)
  <2>1. InPhase("acct", e)
    BY <1>3, <1>6, PhaseNames
  <2> QED BY <1>5, <1>6, <2>1 DEF InPhase, OfPhase
<1>7. ASSUME n = 2 PROVE OfPhase(n, row)
  <2>1. InPhase("personal", e)
    BY <1>3, <1>7, PhaseNames
  <2> QED BY <1>5, <1>7, <2>1 DEF InPhase, OfPhase
<1>8. ASSUME n = 3 PROVE OfPhase(n, row)
  <2>1. InPhase("openstack", e)
    BY <1>3, <1>8, PhaseNames
  <2> QED BY <1>5, <1>8, <2>1 DEF InPhase, OfPhase
<1>9. ASSUME n = 4 PROVE OfPhase(n, row)
  <2>1. InPhase("general", e)
    BY <1>3, <1>9, PhaseNames
  <2> QED BY <1>4, <1>5, <1>9, <2>1 DEF InPhase, OfPhase, Source
<1> QED BY <1>2, <1>5, <1>6, <1>7, <1>8, <1>9

\* A job that is not between a look-up and its write.
IsFree(b) == ~b.looked /\ b.looked \in BOOLEAN

LEMMA FreeJobHolds ==
  ASSUME NEW b, b = [phase |-> b.phase, days |-> b.days, todo |-> b.todo, looked |-> b.looked,
                     row |-> b.row, before |-> b.before, existing |-> b.existing],
         b.phase \in 1..5, b.days \subseteq Day, b.days # {}, IsFree(b), b.existing \in Nat \cup {Unsought},
         b.phase \in 1..4 => \A row \in b.todo : RowHolds(row) /\ row.day \in b.days /\ OfPhase(b.phase, row),
         b.phase = 5 => b.todo \subseteq DOMAIN summaries' /\ Recognises(b)'
  PROVE  JobHolds(b)'
BY DEF JobHolds, IsFree

\* The next phase of a job, or its end.
IsNextPhase(b, new) ==
  IF b.phase = 5 THEN new = NoJob
  ELSE /\ new.phase = b.phase + 1 /\ new.phase \in 1..5 /\ new.days = b.days
       /\ new.todo = IF new.phase = 5
                     THEN {i \in DOMAIN summaries : summaries[i].project = NoProject /\ summaries[i].day \in b.days}
                     ELSE Rows(events, Phases[new.phase], b.days)

LEMMA NextPhaseHolds ==
  ASSUME JobsHold, TablesHold, SummariesKept, NEW j \in Job, NextPhase(j)
  PROVE  JobsHold' /\ IsFree(job'[j]) /\ job[j].todo = {} /\ (\A k \in Job \ {j} : job'[k] = job[k])
         /\ IsNextPhase(job[j], job'[j])
<1>1. PICK b : b = job[j] /\ JobHolds(b) /\ b.days # {} /\ b.todo = {} /\ b.phase \in 0..5
  BY DEF JobsHold, NextPhase, Busy, JobHolds
<1>2. PICK ph, ds, lk, rw, bf, ex :
        b = [phase |-> ph, days |-> ds, todo |-> {}, looked |-> lk, row |-> rw, before |-> bf, existing |-> ex]
  BY <1>1 DEF JobHolds
<1>3. b.phase = ph /\ b.days = ds /\ b.looked = lk /\ b.existing = ex
  BY <1>2
<1>4. ph \in 0..5 /\ ds \subseteq Day /\ ds # {} /\ ~lk /\ lk \in BOOLEAN /\ ex \in Nat \cup {Unsought}
  BY <1>1, <1>3 DEF JobHolds
<1>5. CASE ph = 5
  <2>1. job' = [job EXCEPT ![j] = NoJob]
    BY <1>1, <1>3, <1>5, PhaseNames DEF NextPhase
  <2>2. job'[j] = NoJob /\ \A k \in Job \ {j} : job'[k] = job[k]
    BY <2>1 DEF JobsHold
  <2>3. IsFree(NoJob)
    BY DEF IsFree, NoJob
  <2>4. IsNextPhase(b, NoJob)
    BY <1>3, <1>5 DEF IsNextPhase
  <2> QED BY <1>1, <2>1, <2>2, <2>3, <2>4, NoJobHolds, OneJobChanges
<1>6. CASE ph # 5
  <2>1. PICK n \in 1..5 : n = ph + 1
    BY <1>4, <1>6
  <2>2. PICK unmapped : unmapped = {i \in DOMAIN summaries : summaries[i].project = NoProject /\ summaries[i].day \in ds}
    OBVIOUS
  <2>3. PICK td : td = IF n = 5 THEN unmapped ELSE Rows(events, Phases[n], ds)
    OBVIOUS
  <2>4. PICK bf2 : bf2 = IF n = 5 THEN [i \in unmapped |-> summaries[i].ids] ELSE bf
    OBVIOUS
  <2>5. PICK new : new = [phase |-> n, days |-> ds, todo |-> td, looked |-> lk, row |-> rw, before |-> bf2, existing |-> ex]
    OBVIOUS
  <2>6. b = JobOf(ph, ds, {}, lk, rw, bf, ex) /\ new = JobOf(n, ds, td, lk, rw, bf2, ex)
    BY <1>2, <2>5 DEF JobOf
  <2>7. job' = [job EXCEPT ![j] = new]
    <3>1. CASE n = 5
      <4>1. job' = [job EXCEPT ![j].phase = n, ![j].todo = td, ![j].before = bf2]
        <5>1. td = unmapped /\ bf2 = [i \in unmapped |-> summaries[i].ids]
          BY <2>3, <2>4, <3>1
        <5>2. /\ unmapped = {i \in DOMAIN summaries : summaries[i].project = NoProject /\ summaries[i].day \in job[j].days}
              /\ job[j].phase + 1 = n /\ n = Len(Phases) /\ ~(n > Len(Phases))
          BY <1>1, <1>3, <2>1, <2>2, <3>1, PhaseNames
        <5> QED BY <5>1, <5>2 DEF NextPhase
      <4>2. [b EXCEPT !.phase = n, !.todo = td, !.before = bf2] = new
        <5>1. ForMapping(b, n, td, bf2) = new
          BY <2>6, JobChanges
        <5> QED BY <5>1 DEF ForMapping
      <4> QED BY <1>1, <4>1, <4>2 DEF JobsHold
    <3>2. CASE n # 5
      <4>1. job' = [job EXCEPT ![j].phase = n, ![j].todo = td]
        BY <1>1, <1>3, <2>1, <2>3, <3>2, PhaseNames DEF NextPhase
      <4>2. [b EXCEPT !.phase = n, !.todo = td] = new
        <5>1. InPhaseOf(b, n, td) = new /\ bf2 = bf
          BY <2>4, <2>6, <3>2, JobChanges
        <5> QED BY <5>1 DEF InPhaseOf
      <4> QED BY <1>1, <4>1, <4>2 DEF JobsHold
    <3> QED BY <3>1, <3>2
  <2>8. ASSUME n \in 1..4, NEW row \in td PROVE RowHolds(row) /\ row.day \in ds /\ OfPhase(n, row)
    <3>1. td = Rows(events, Phases[n], ds)
      BY <2>3, <2>8
    <3> QED BY <2>8, <3>1, PhaseRows DEF TablesHold
  <2>9. n = 5 => td \subseteq DOMAIN summaries'
    BY <2>2, <2>3 DEF SummariesKept
  <2>10. /\ new.phase = n /\ new.days = ds /\ new.todo = td /\ new.looked = lk /\ new.existing = ex
         /\ new.before = bf2
         /\ new = [phase |-> new.phase, days |-> new.days, todo |-> new.todo, looked |-> new.looked,
                   row |-> new.row, before |-> new.before, existing |-> new.existing]
    BY <2>5
  <2>11. IsFree(new)
    BY <1>4, <2>10 DEF IsFree
  <2>12. ASSUME n = 5, NEW i \in td, summaries'[i].personal PROVE SameNames(bf2[i], summaries'[i].ids)
    <3>1. i \in unmapped /\ i \in DOMAIN summaries /\ bf2[i] = summaries[i].ids
      BY <2>2, <2>3, <2>4, <2>12
    <3>2. IsSameSummary(summaries[i], summaries'[i])
      BY <3>1 DEF SummariesKept
    <3> QED BY <2>12, <3>1, <3>2 DEF IsSameSummary, SameNames
  <2>13. n = 5 => Recognises(new)'
    <3>1. ASSUME n = 5, NEW i \in td PROVE bf2[i] \in Identities
      BY <2>2, <2>3, <2>4, <3>1 DEF TablesHold, SummaryHolds, SummaryRow
    <3> QED BY <2>10, <2>12, <3>1 DEF Recognises
  <2>14. JobHolds(new)'
    BY <1>4, <2>8, <2>9, <2>10, <2>11, <2>13, FreeJobHolds
  <2>15. job'[j] = new /\ \A k \in Job \ {j} : job'[k] = job[k]
    BY <2>7 DEF JobsHold
  <2>16. IsNextPhase(b, new)
    BY <1>3, <1>6, <2>1, <2>2, <2>3, <2>10 DEF IsNextPhase
  <2> QED BY <1>1, <2>7, <2>11, <2>14, <2>15, <2>16, OneJobChanges
<1> QED BY <1>5, <1>6

\* A row of a job that is done with, or given up.
LEMMA WithoutRow ==
  ASSUME JobsHold, SummariesKept, NEW j \in Job, job[j].phase \in 1..5, NEW x, job' = Without(j, x)
  PROVE  JobsHold' /\ IsFree(job'[j]) /\ job'[j].phase = job[j].phase /\ job'[j].days = job[j].days
         /\ job'[j].todo = job[j].todo \ {x} /\ (\A k \in Job \ {j} : job'[k] = job[k])
<1>1. PICK b : b = job[j] /\ JobHolds(b)
  BY DEF JobsHold
<1>2. PICK ph, ds, td, lk, rw, bf, ex :
        b = [phase |-> ph, days |-> ds, todo |-> td, looked |-> lk, row |-> rw, before |-> bf, existing |-> ex]
  BY <1>1 DEF JobHolds
<1>3. b.phase = ph /\ b.days = ds /\ b.looked = lk /\ b.existing = ex /\ b.todo = td /\ b.row = rw /\ b.before = bf
  BY <1>2
<1>4. ph \in 1..5 /\ ds \subseteq Day /\ ds # {}
  <2>1. b.days # {}
    BY <1>1 DEF JobHolds, NoJob
  <2> QED BY <1>1, <1>3, <2>1 DEF JobHolds
<1>5. PICK rest : rest = td \ {x}
  OBVIOUS
<1>6. PICK bf2 : bf2 = IF PhaseOf(j) = "map" THEN bf ELSE None
  OBVIOUS
<1>7. PICK new : new = [phase |-> ph, days |-> ds, todo |-> rest, looked |-> FALSE, row |-> None,
                        before |-> bf2, existing |-> 0]
  OBVIOUS
<1>8. [b EXCEPT !.looked = FALSE, !.row = None, !.existing = 0, !.todo = rest, !.before = bf2] = new
  <2>1. PICK no : no = FALSE
    OBVIOUS
  <2>2. b = JobOf(ph, ds, td, lk, rw, bf, ex) /\ new = JobOf(ph, ds, rest, no, None, bf2, 0)
    BY <1>2, <1>7, <2>1 DEF JobOf
  <2>3. LeftWith(b, no, rest, bf2) = new
    BY <2>2, JobChanges
  <2> QED BY <2>1, <2>3 DEF LeftWith
<1>9. job' = [job EXCEPT ![j] = new]
  <2>1. DOMAIN job = Job
    BY DEF JobsHold
  <2>2. job' = [job EXCEPT ![j].looked = FALSE, ![j].row = None, ![j].existing = 0, ![j].todo = rest, ![j].before = bf2]
    BY <1>1, <1>3, <1>5, <1>6, <2>1 DEF Without
  <2> QED BY <1>1, <1>8, <2>1, <2>2
<1>10. /\ new.phase = ph /\ new.days = ds /\ new.todo = rest /\ IsFree(new) /\ new.existing = 0 /\ new.before = bf2
       /\ new = [phase |-> new.phase, days |-> new.days, todo |-> new.todo, looked |-> new.looked,
                 row |-> new.row, before |-> new.before, existing |-> new.existing]
  BY <1>7 DEF IsFree
<1>11. ph \in 1..4 => \A row \in rest : RowHolds(row) /\ row.day \in ds /\ OfPhase(ph, row)
  BY <1>1, <1>3, <1>5 DEF JobHolds
<1>12. ph = 5 => rest \subseteq DOMAIN summaries' /\ Recognises(new)'
  <2>1. JobHolds(b)'
    BY <1>1, JobsKeep
  <2>2. ph = 5 => td \subseteq DOMAIN summaries' /\ Recognises(b)'
    BY <1>3, <2>1 DEF JobHolds
  <2>3. ph = 5 => bf2 = bf
    BY <1>1, <1>3, <1>6, PhaseNames DEF PhaseOf
  <2> QED BY <1>3, <1>5, <1>10, <2>2, <2>3 DEF Recognises
<1>13. JobHolds(new)'
  BY <1>4, <1>10, <1>11, <1>12, FreeJobHolds
<1>14. JobsHold'
  BY <1>9, <1>13, OneJobChanges
<1>15. job'[j] = new /\ \A k \in Job \ {j} : job'[k] = job[k]
  BY <1>9 DEF JobsHold
<1> QED BY <1>1, <1>3, <1>5, <1>10, <1>14, <1>15

LEMMA WriteFreesJob ==
  ASSUME JobsHold, SummariesKept, NEW j \in Job, job[j].looked, job' = Done(j)
  PROVE  JobsHold' /\ IsFree(job'[j]) /\ job'[j].phase = job[j].phase /\ job'[j].days = job[j].days
         /\ job'[j].todo = job[j].todo \ {job[j].row} /\ (\A k \in Job \ {j} : job'[k] = job[k])
<1>1. PICK b : b = job[j] /\ JobHolds(b) /\ b.looked
  BY DEF JobsHold
<1>2. b.phase \in 1..5
  BY <1>1 DEF JobHolds
<1> QED BY <1>1, <1>2, WithoutRow DEF Done

\* A mapping that fails is of a summary that is left.
LEMMA FailuresAre ==
  ASSUME JobsHold, NEW j \in Job, NEW i \in job[j].todo, MappingFails(j, i)
  PROVE  job[j].phase = 5 /\ job' = Without(j, i) /\ ~orderly' /\ UNCHANGED <<summaries, events, project, users>>
<1>1. PICK b : b = job[j] /\ JobHolds(b) /\ i \in b.todo
  BY DEF JobsHold
<1>2. b.phase \in 1..5 /\ Phases[b.phase] = "map"
  BY <1>1 DEF JobHolds, MappingFails, PhaseOf
<1>3. b.phase = 5
  BY <1>2, PhaseNames
<1> QED BY <1>1, <1>3 DEF MappingFails, Mishap, tables

\* The latest summary that a row may add to, or nothing if there is none.
IsLatest(before, row) ==
  LET previous == Previous(summaries, row)
  IN  IF row.source = "pbs" \/ Latest(summaries, previous) = {}
      THEN before.total = 0 /\ DOMAIN before.instances = {}
      ELSE \E i \in Latest(summaries, previous) :
             before.total = summaries[i].total /\ before.instances = summaries[i].instances

\* An earlier summary that a row may add to.
IsBefore(before, row) ==
  \/ before.total = 0 /\ DOMAIN before.instances = {}
  \/ \E i \in Previous(summaries, row) :
       before.total = summaries[i].total /\ before.instances = summaries[i].instances

LEMMA LookUpsAre ==
  ASSUME TablesHold, JobsHold, NEW j \in Job, NEW row \in job[j].todo, LookUp(j, row)
  PROVE  /\ job[j].phase \in 1..4 /\ RowHolds(row) /\ OfPhase(job[j].phase, row)
         /\ job'[j].looked /\ job'[j].looked \in BOOLEAN
         /\ job'[j].phase = job[j].phase /\ job'[j].days = job[j].days /\ job'[j].todo = job[j].todo
         /\ job'[j].row = row
         /\ job'[j].existing \in Found(Existing(summaries, row)) \cup {Unsought}
         /\ (job'[j].existing = Unsought <=> row.source # "pbs")
         /\ job'[j].before \in [total : Nat, instances : Servers] /\ IsBefore(job'[j].before, row)
         /\ IsLatest(job'[j].before, row)
         /\ job' = [job EXCEPT ![j] = job'[j]]
         /\ job'[j] = [phase |-> job'[j].phase, days |-> job'[j].days, todo |-> job'[j].todo,
                       looked |-> job'[j].looked, row |-> job'[j].row, before |-> job'[j].before,
                       existing |-> job'[j].existing]
<1>1. PICK b : b = job[j] /\ JobHolds(b) /\ row \in b.todo
  BY DEF JobsHold
<1>2. b.phase \in 1..4
  <2>1. b.phase \in 1..5
    BY <1>1 DEF JobHolds
  <2>2. b.phase # 5
    BY <1>1, PhaseNames DEF LookUp, PhaseOf
  <2> QED BY <2>1, <2>2
<1>3. RowHolds(row) /\ OfPhase(b.phase, row)
  BY <1>1, <1>2 DEF JobHolds
<1>4. PICK ph, ds, td, lk, rw, bf, ex : b = JobOf(ph, ds, td, lk, rw, bf, ex)
  BY <1>1 DEF JobHolds, JobOf
<1>5. PICK before : before = IF row.source = "pbs" THEN {} ELSE Latest(summaries, Previous(summaries, row))
  OBVIOUS
<1>6. PICK nothing : nothing = [total |-> 0, instances |-> <<>>]
  OBVIOUS
<1>7. PICK i \in before \cup {0}, k \in Found(Existing(summaries, row)) \cup {Unsought} :
        /\ i = 0 => before = {}
        /\ k = Unsought <=> row.source # "pbs"
        /\ job' = [job EXCEPT ![j].looked = TRUE, ![j].row = row, ![j].existing = k,
                     ![j].before = IF i = 0 THEN nothing
                                   ELSE [total |-> summaries[i].total, instances |-> summaries[i].instances]]
  <2>1. Found(before) \subseteq before \cup {0} /\ (0 \in Found(before) => before = {})
    <3>1. 0 \notin before
      BY <1>5, LenProperties DEF TablesHold, Latest, Previous
    <3> QED BY <3>1 DEF Found
  <2>2. Unsought \notin Found(Existing(summaries, row))
    <3>1. Existing(summaries, row) \subseteq DOMAIN summaries /\ DOMAIN summaries \subseteq Nat
      BY <1>3, ExistingIsFound, LenProperties DEF TablesHold
    <3> QED BY <3>1 DEF Found, Unsought
  <2>3. CASE row.source = "pbs"
    BY <1>5, <1>6, <2>1, <2>2, <2>3 DEF LookUp
  <2>4. CASE row.source # "pbs"
    BY <1>5, <1>6, <2>1, <2>2, <2>4 DEF LookUp
  <2> QED BY <2>3, <2>4
<1>8. PICK bf2 : bf2 = IF i = 0 THEN nothing
                       ELSE [total |-> summaries[i].total, instances |-> summaries[i].instances]
  OBVIOUS
<1>9. bf2 \in [total : Nat, instances : Servers] /\ IsBefore(bf2, row) /\ IsLatest(bf2, row)
  <2>1. CASE i = 0
    BY <1>5, <1>6, <1>7, <1>8, <2>1, NoServers DEF IsBefore, IsLatest
  <2>2. CASE i # 0
    <3>1. i \in Previous(summaries, row) /\ i \in DOMAIN summaries
      BY <1>5, <1>7, <2>2 DEF Latest, Previous
    <3>2. summaries[i].total \in Nat /\ summaries[i].instances \in Servers
      BY <3>1 DEF TablesHold, SummaryHolds, SummaryRow
    <3>3. row.source # "pbs" /\ i \in Latest(summaries, Previous(summaries, row))
      BY <1>5, <1>7, <2>2
    <3> QED BY <1>8, <2>2, <3>1, <3>2, <3>3 DEF IsBefore, IsLatest
  <2> QED BY <2>1, <2>2
<1>10. PICK yes : yes = TRUE
  OBVIOUS
<1>11. PICK new : new = JobOf(ph, ds, td, yes, row, bf2, k)
  OBVIOUS
<1>12. [b EXCEPT !.looked = yes, !.row = row, !.existing = k, !.before = bf2] = new
  <2>1. LookedUp(b, yes, row, k, bf2) = new
    BY <1>4, <1>11, JobChanges
  <2> QED BY <2>1 DEF LookedUp
<1>13. job' = [job EXCEPT ![j] = new]
  BY <1>1, <1>7, <1>8, <1>10, <1>12 DEF JobsHold
<1>14. job'[j] = new
  BY <1>13 DEF JobsHold
<1>15. /\ new.phase = b.phase /\ new.days = b.days /\ new.todo = b.todo /\ new.looked /\ new.looked \in BOOLEAN
       /\ new.row = row /\ new.existing = k /\ new.before = bf2
       /\ new = [phase |-> new.phase, days |-> new.days, todo |-> new.todo, looked |-> new.looked,
                 row |-> new.row, before |-> new.before, existing |-> new.existing]
  BY <1>4, <1>10, <1>11 DEF JobOf
<1> QED BY <1>1, <1>2, <1>3, <1>7, <1>9, <1>13, <1>14, <1>15

LEMMA FoundIsFound ==
  ASSUME TablesHold, NEW row, RowHolds(row), NEW k \in Found(Existing(summaries, row)) \cup {Unsought}
  PROVE  /\ k \in Nat \cup {Unsought}
         /\ k \notin {0, Unsought} => k \in DOMAIN summaries /\ IsFound(summaries[k], row)
<1>1. DOMAIN summaries \subseteq Nat
  BY LenProperties DEF TablesHold
<1>2. k \in {0, Unsought} \/ k \in Existing(summaries, row)
  BY DEF Found
<1> QED BY <1>1, <1>2, ExistingIsFound

LEMMA LookUpHolds ==
  ASSUME TablesHold, JobsHold, SummariesKept, NEW j \in Job, NEW row \in job[j].todo, LookUp(j, row)
  PROVE  JobsHold'
<1>1. PICK b : b = job[j] /\ JobHolds(b) /\ row \in b.todo /\ b.phase \in 1..4
  BY LookUpsAre DEF JobsHold
<1>2. PICK new : new = job'[j]
  OBVIOUS
<1>3. /\ RowHolds(row) /\ OfPhase(b.phase, row) /\ new.looked /\ new.looked \in BOOLEAN
      /\ new.phase = b.phase /\ new.days = b.days /\ new.todo = b.todo /\ new.row = row
      /\ new.existing \in Found(Existing(summaries, row)) \cup {Unsought}
      /\ new.before \in [total : Nat, instances : Servers]
      /\ job' = [job EXCEPT ![j] = new]
      /\ new = [phase |-> new.phase, days |-> new.days, todo |-> new.todo, looked |-> new.looked,
                row |-> new.row, before |-> new.before, existing |-> new.existing]
  BY <1>1, <1>2, LookUpsAre
<1>4. /\ new.existing \in Nat \cup {Unsought}
      /\ new.existing \notin {0, Unsought} => /\ new.existing \in DOMAIN summaries
                                              /\ IsFound(summaries[new.existing], row)
  BY <1>3, FoundIsFound
<1>5. b.days # {} /\ b.days \subseteq Day
  BY <1>1 DEF JobHolds, NoJob
<1>6. JobHolds(new)
  BY <1>1, <1>3, <1>4, <1>5 DEF JobHolds
<1>7. JobHolds(new)'
  BY <1>6, JobsKeep
<1> QED BY <1>3, <1>7, OneJobChanges

LEMMA ExistingAre ==
  ASSUME ProjectsHold, TablesHold, JobsHold, NEW j \in Job, FindExisting(j)
  PROVE  /\ job[j].phase \in 1..4 /\ job[j].looked /\ RowHolds(job[j].row) /\ job[j].existing = Unsought
         /\ job'[j].looked /\ job'[j].looked \in BOOLEAN
         /\ job'[j].phase = job[j].phase /\ job'[j].days = job[j].days /\ job'[j].todo = job[j].todo
         /\ job'[j].row = job[j].row /\ job'[j].before = job[j].before
         /\ job'[j].existing \in Found(Existing(summaries, job[j].row))
         /\ job' = [job EXCEPT ![j] = job'[j]]
         /\ job'[j] = [phase |-> job'[j].phase, days |-> job'[j].days, todo |-> job'[j].todo,
                       looked |-> job'[j].looked, row |-> job'[j].row, before |-> job'[j].before,
                       existing |-> job'[j].existing]
         /\ UNCHANGED <<summaries, events, project, users>>
<1>1. PICK b : b = job[j] /\ JobHolds(b) /\ b.looked /\ b.looked \in BOOLEAN /\ b.existing = Unsought
  BY DEF JobsHold, FindExisting, JobHolds
<1>2. b.phase \in 1..4
  <2>1. b.phase \in 1..5
    BY <1>1 DEF JobHolds
  <2>2. Unsought \notin ProjectId \cup {NoProject}
    BY IdsAreNumbers DEF Unsought, NoProject
  <2> QED BY <1>1, <2>1, <2>2 DEF JobHolds
<1>3. RowHolds(b.row)
  BY <1>1, <1>2 DEF JobHolds
<1>4. PICK ph, ds, td, lk, rw, bf, ex : b = JobOf(ph, ds, td, lk, rw, bf, ex)
  BY <1>1 DEF JobHolds, JobOf
<1>5. PICK k \in Found(Existing(summaries, b.row)) : job' = [job EXCEPT ![j].existing = k]
  BY <1>1 DEF FindExisting
<1>6. PICK new : new = JobOf(ph, ds, td, lk, rw, bf, k)
  OBVIOUS
<1>7. [b EXCEPT !.existing = k] = new
  <2>1. SoughtFor(b, k) = new
    BY <1>4, <1>6, JobChanges
  <2> QED BY <2>1 DEF SoughtFor
<1>8. job' = [job EXCEPT ![j] = new] /\ job'[j] = new
  BY <1>1, <1>5, <1>7 DEF JobsHold
<1>9. /\ new.phase = b.phase /\ new.days = b.days /\ new.todo = b.todo /\ new.looked = b.looked
      /\ new.row = b.row /\ new.before = b.before /\ new.existing = k
      /\ new = [phase |-> new.phase, days |-> new.days, todo |-> new.todo, looked |-> new.looked,
                row |-> new.row, before |-> new.before, existing |-> new.existing]
  BY <1>4, <1>6 DEF JobOf
<1>10. UNCHANGED <<summaries, events, project, users>>
  BY DEF FindExisting, tables
<1> QED BY <1>1, <1>2, <1>3, <1>5, <1>8, <1>9, <1>10

LEMMA FindExistingHolds ==
  ASSUME ProjectsHold, TablesHold, JobsHold, SummariesKept, NEW j \in Job, FindExisting(j)
  PROVE  JobsHold'
<1>1. PICK b : b = job[j] /\ JobHolds(b) /\ b.phase \in 1..4 /\ b.looked /\ RowHolds(b.row)
  BY ExistingAre DEF JobsHold
<1>2. PICK new : new = job'[j]
  OBVIOUS
<1>3. /\ new.looked /\ new.looked \in BOOLEAN /\ new.phase = b.phase /\ new.days = b.days /\ new.todo = b.todo
      /\ new.row = b.row /\ new.before = b.before /\ new.existing \in Found(Existing(summaries, b.row))
      /\ job' = [job EXCEPT ![j] = new]
      /\ new = [phase |-> new.phase, days |-> new.days, todo |-> new.todo, looked |-> new.looked,
                row |-> new.row, before |-> new.before, existing |-> new.existing]
  BY <1>1, <1>2, ExistingAre
<1>4. /\ new.existing \in Nat \cup {Unsought}
      /\ new.existing \notin {0, Unsought} => /\ new.existing \in DOMAIN summaries
                                              /\ IsFound(summaries[new.existing], b.row)
  BY <1>1, <1>3, FoundIsFound
<1>5. b.days # {} /\ b.days \subseteq Day
  BY <1>1 DEF JobHolds, NoJob
<1>6. JobHolds(new)
  BY <1>1, <1>3, <1>4, <1>5 DEF JobHolds
<1>7. JobHolds(new)'
  BY <1>6, JobsKeep
<1> QED BY <1>3, <1>7, OneJobChanges

\* The project is found by the identities the summary had when the mapping began.
LEMMA FindingsAre ==
  ASSUME ProjectsHold, TablesHold, JobsHold, NEW j \in Job, NEW i \in job[j].todo, FindProject(j, i)
  PROVE  /\ job[j].phase = 5 /\ i \in DOMAIN summaries
         /\ job'[j].looked /\ job'[j].looked \in BOOLEAN /\ job'[j].phase = 5 /\ job'[j].days = job[j].days
         /\ job'[j].todo = job[j].todo /\ job'[j].row = i
         /\ \E seen : /\ IsSameSummary(summaries[i], seen) /\ seen.ids \in Identities
                       /\ job'[j].existing = MappedProject(project, users, seen)
         /\ ~summaries[i].personal => job'[j].existing = MappedProject(project, users, summaries[i])
         /\ job'[j].existing \in ProjectId \cup {NoProject} /\ job'[j].before = job[j].before
         /\ job' = [job EXCEPT ![j] = job'[j]]
         /\ job'[j] = [phase |-> job'[j].phase, days |-> job'[j].days, todo |-> job'[j].todo,
                       looked |-> job'[j].looked, row |-> job'[j].row, before |-> job'[j].before,
                       existing |-> job'[j].existing]
<1>1. PICK b : b = job[j] /\ JobHolds(b) /\ i \in b.todo
  BY DEF JobsHold
<1>2. b.phase = 5
  <2>1. b.phase \in 1..5 /\ Phases[b.phase] = "map"
    BY <1>1 DEF JobHolds, FindProject, PhaseOf
  <2> QED BY <2>1, PhaseNames
<1>3. i \in DOMAIN summaries
  BY <1>1, <1>2 DEF JobHolds
<1>4. PICK ph, ds, td, lk, rw, bf, ex : b = JobOf(ph, ds, td, lk, rw, bf, ex)
  BY <1>1 DEF JobHolds, JobOf
<1>5. PICK seen : seen = [summaries[i] EXCEPT !.ids = b.before[i]]
  OBVIOUS
<1>13. IsSameSummary(summaries[i], seen) /\ seen.ids \in Identities
  <2>1. summaries[i] \in SummaryRow
    BY <1>3 DEF TablesHold, SummaryHolds
  <2>2. /\ seen.source = summaries[i].source /\ seen.slug = summaries[i].slug /\ seen.day = summaries[i].day
        /\ seen.personal = summaries[i].personal /\ seen.ids = b.before[i]
    BY <1>5, <2>1 DEF SummaryRow
  <2>3. seen.ids \in Identities /\ (summaries[i].personal => SameNames(seen.ids, summaries[i].ids))
    BY <1>1, <1>2, <2>2 DEF JobHolds, Recognises
  <2> QED BY <2>2, <2>3 DEF IsSameSummary
<1>14. PICK k \in ProjectId \cup {NoProject} : k = MappedProject(project, users, seen)
  BY MappedIsFound, ProjectsAre
<1>15. ~summaries[i].personal => k = MappedProject(project, users, summaries[i])
  BY <1>13, <1>14 DEF IsSameSummary, MappedProject
<1>6. PICK yes : yes = TRUE
  OBVIOUS
<1>7. PICK new : new = JobOf(ph, ds, td, yes, i, bf, k)
  OBVIOUS
<1>8. [b EXCEPT !.looked = yes, !.row = i, !.existing = k] = new
  <2>1. LookedFor(b, yes, i, k) = new
    BY <1>4, <1>7, JobChanges
  <2> QED BY <2>1 DEF LookedFor
<1>9. job' = [job EXCEPT ![j].looked = yes, ![j].row = i, ![j].existing = k]
  BY <1>1, <1>5, <1>6, <1>14 DEF FindProject
<1>10. job' = [job EXCEPT ![j] = new]
  BY <1>1, <1>8, <1>9 DEF JobsHold
<1>11. job'[j] = new
  BY <1>10 DEF JobsHold
<1>12. /\ new.phase = b.phase /\ new.days = b.days /\ new.todo = b.todo /\ new.looked /\ new.looked \in BOOLEAN
       /\ new.row = i /\ new.existing = k /\ new.before = b.before
       /\ new = [phase |-> new.phase, days |-> new.days, todo |-> new.todo, looked |-> new.looked,
                 row |-> new.row, before |-> new.before, existing |-> new.existing]
  BY <1>4, <1>6, <1>7 DEF JobOf
<1> QED BY <1>1, <1>2, <1>3, <1>10, <1>11, <1>12, <1>13, <1>14, <1>15

LEMMA FindProjectHolds ==
  ASSUME ProjectsHold, TablesHold, JobsHold, SummariesKept, NEW j \in Job, NEW i \in job[j].todo, FindProject(j, i)
  PROVE  JobsHold'
<1>1. PICK b : b = job[j] /\ JobHolds(b) /\ i \in b.todo /\ b.phase = 5
  BY FindingsAre DEF JobsHold
<1>2. PICK new : new = job'[j]
  OBVIOUS
<1>3. /\ i \in DOMAIN summaries /\ new.looked /\ new.looked \in BOOLEAN /\ new.phase = 5 /\ new.days = b.days
      /\ new.todo = b.todo /\ new.row = i /\ new.existing \in ProjectId \cup {NoProject}
      /\ new.before = b.before
      /\ job' = [job EXCEPT ![j] = new]
      /\ new = [phase |-> new.phase, days |-> new.days, todo |-> new.todo, looked |-> new.looked,
                row |-> new.row, before |-> new.before, existing |-> new.existing]
  BY <1>1, <1>2, FindingsAre
<1>4. new.existing \in Nat
  BY <1>3, IdsAreNumbers DEF NoProject
<1>5. b.days # {} /\ b.days \subseteq Day
  BY <1>1 DEF JobHolds, NoJob
<1>6. JobHolds(new)
  <2>1. Recognises(new)
    BY <1>1, <1>3 DEF JobHolds, Recognises
  <2> QED BY <1>1, <1>3, <1>4, <1>5, <2>1 DEF JobHolds
<1>7. JobHolds(new)'
  BY <1>6, JobsKeep
<1> QED BY <1>3, <1>7, OneJobChanges

LEMMA JobsStay ==
  ASSUME UsageShapes, Next
  PROVE  JobsHold'
<1>1. ProjectsHold /\ TablesHold /\ BatchesHold /\ JobsHold /\ SummariesKept
  BY TablesStay DEF UsageShapes
<1>2. CASE UNCHANGED job
  <2>1. ASSUME NEW j \in Job PROVE JobHolds(job[j])'
    <3>1. PICK b : b = job[j] /\ JobHolds(b)
      BY <1>1 DEF JobsHold
    <3>2. JobHolds(b)'
      BY <1>1, <3>1, JobsKeep
    <3> QED BY <1>2, <3>1, <3>2 DEF JobHolds
  <2> QED BY <1>1, <1>2, <2>1 DEF JobsHold
<1>3. ASSUME NEW j \in Job, NEW days \in SUBSET Day, days # {}, job' = [job EXCEPT ![j] = Started(days)]
      PROVE  JobsHold'
  <2>1. PICK b : b = Started(days)
    OBVIOUS
  <2>2. JobHolds(b)'
    BY <1>3, <2>1, StartedHolds
  <2> QED BY <1>1, <1>3, <2>1, <2>2, OneJobChanges
<1>4. ASSUME NEW c \in Collector, Save(c) PROVE JobsHold'
  <2>1. PICK new : new = {incoming[c].events[i].day : i \in DOMAIN incoming[c].events}
    OBVIOUS
  <2>2. new \in SUBSET Day /\ new # {}
    BY <1>1, <1>4, <2>1, BatchDays DEF Save
  <2>3. UNCHANGED job \/ \E j \in Job : job' = [job EXCEPT ![j] = Started(new)]
    BY <1>4, <2>1 DEF Save
  <2> QED BY <1>2, <1>3, <2>2, <2>3
<1>5. ASSUME NEW j \in Job, NEW first \in Day, NEW last \in Day, Trigger(j, first, last) PROVE JobsHold'
  <2>1. job' = [job EXCEPT ![j] = Started({first, last})]
    BY <1>5 DEF Trigger
  <2> QED BY <1>3, <2>1
<1>6. ASSUME NEW j \in Job, JobFails(j) PROVE JobsHold'
  BY <1>1, <1>6, NoJobHolds, OneJobChanges DEF JobFails
<1>7. CASE Restart
  <2>1. job' = [j \in Job |-> NoJob]
    BY <1>7 DEF Restart
  <2>2. ASSUME NEW j \in Job PROVE JobHolds(job[j])'
    BY <2>1, NoJobHolds DEF JobHolds
  <2> QED BY <2>1, <2>2 DEF JobsHold
<1>8. ASSUME NEW j \in Job, Aggregation(j) PROVE JobsHold'
  <2>1. CASE NextPhase(j)
    BY <1>1, <2>1, NextPhaseHolds
  <2>2. CASE Written(j)
    <3>1. PICK s : Write(j, s) /\ IsWritten(job[j], s)
      BY <1>1, <2>2, WritesAre
    <3> QED BY <1>1, <3>1, WriteFreesJob DEF Write, IsWritten
  <2>3. CASE WriteProject(j)
    BY <1>1, <2>3, WriteFreesJob DEF WriteProject
  <2>4. ASSUME NEW row \in job[j].todo, LookUp(j, row) PROVE JobsHold'
    BY <1>1, <2>4, LookUpHolds
  <2>5. ASSUME NEW i \in job[j].todo, FindProject(j, i) PROVE JobsHold'
    BY <1>1, <2>5, FindProjectHolds
  <2>6. CASE FindExisting(j)
    BY <1>1, <2>6, FindExistingHolds
  <2>7. ASSUME NEW i \in job[j].todo, MappingFails(j, i) PROVE JobsHold'
    BY <1>1, <2>7, FailuresAre, WithoutRow
  <2> QED BY <1>8, <2>1, <2>2, <2>3, <2>4, <2>5, <2>6, <2>7 DEF Aggregation, Written
<1> QED BY <1>2, <1>4, <1>5, <1>6, <1>7, <1>8, WhoTouchesJobs

LEMMA GhostsStay ==
  ASSUME UsageShapes, Next
  PROVE  GhostsHold'
<1>1. GhostsHold /\ BatchesHold
  BY DEF UsageShapes
<1>2. stale' \subseteq Day
  <2>1. ASSUME NEW c \in Collector, Save(c) PROVE stale' \subseteq Day
    <3>1. PICK new : new = {incoming[c].events[i].day : i \in DOMAIN incoming[c].events}
      OBVIOUS
    <3>2. new \in SUBSET Day
      BY <1>1, <2>1, <3>1, BatchDays DEF Save
    <3>3. stale' = stale \ Started(new).days \/ stale' = stale \cup new
      BY <2>1, <3>1 DEF Save
    <3> QED BY <1>1, <3>2, <3>3 DEF GhostsHold
  <2>2. ASSUME Next, ~(\E c \in Collector : Save(c)) PROVE stale' \subseteq stale
    BY <2>2 DEF Next, Aggregation, Receive, Trigger, NextPhase, LookUp, FindExisting, Write, WriteAccounts, WritePersonal,
         WriteGeneral, WriteServers, FindProject, MappingFails, WriteProject, SignIn, RequestProject, Approve, Reject, Resubmit,
         BackfillEvents, BackfillSummaries, JobFails, BackfillFails, Restart, ghosts
  <2> QED BY <1>1, <2>1, <2>2 DEF GhostsHold
<1>3. orderly' \in BOOLEAN
  BY <1>1 DEF GhostsHold, Next, Aggregation, Receive, Save, Trigger, NextPhase, LookUp, FindExisting, Write, WriteAccounts,
       WritePersonal, WriteGeneral, WriteServers, FindProject, MappingFails, WriteProject, SignIn, RequestProject, Approve, Reject,
       Resubmit, BackfillEvents, BackfillSummaries, JobFails, BackfillFails, Restart, Mishap, ghosts
<1>4. overtaken' \in BOOLEAN
  BY <1>1 DEF GhostsHold, Next, Aggregation, Receive, Save, Trigger, NextPhase, LookUp, FindExisting, Write, WriteAccounts,
       WritePersonal, WriteGeneral, WriteServers, FindProject, MappingFails, WriteProject, SignIn, RequestProject, Approve, Reject,
       Resubmit, BackfillEvents, BackfillSummaries, JobFails, BackfillFails, Restart, ghosts
<1> QED BY <1>2, <1>3, <1>4 DEF GhostsHold

LEMMA ShapesStutter ==
  ASSUME UsageShapes, UNCHANGED vars
  PROVE  UsageShapes'
<1>1. /\ project' = project /\ users' = users /\ events' = events /\ summaries' = summaries
      /\ incoming' = incoming /\ job' = job /\ backfill' = backfill
      /\ stale' = stale /\ orderly' = orderly /\ overtaken' = overtaken
  BY DEF vars
<1>2. ProjectsHold' /\ TablesHold' /\ BatchesHold' /\ GhostsHold'
  BY <1>1 DEF UsageShapes, ProjectsHold, ProjectHolds, TablesHold, BatchesHold, GhostsHold
<1>3. BackfillsHold'
  BY <1>1 DEF UsageShapes, BackfillsHold, BackfillHolds
<1>4. SummariesKept
  BY <1>1 DEF SummariesKept, IsSameSummary, SameNames
<1>5. ASSUME NEW j \in Job PROVE JobHolds(job[j])'
  <2>1. PICK b : b = job[j] /\ JobHolds(b)
    BY DEF UsageShapes, JobsHold
  <2>2. JobHolds(b)'
    BY <1>4, <2>1, JobsKeep
  <2> QED BY <1>1, <2>1, <2>2 DEF JobHolds
<1>6. JobsHold'
  BY <1>1, <1>5 DEF UsageShapes, JobsHold
<1> QED BY <1>2, <1>3, <1>6 DEF UsageShapes

LEMMA ShapesStart ==
  ASSUME Init
  PROVE  UsageShapes
<1>1. ProjectsHold
  BY NoServers DEF Init, ProjectsHold
<1>2. TablesHold
  BY NoServers, EmptySeq DEF Init, TablesHold
<1>3. BatchesHold
  <2>1. NoBatch \in [events : Seq(EventRow), last : BOOLEAN]
    BY EmptySeq DEF NoBatch
  <2> QED BY <2>1 DEF Init, BatchesHold
<1>4. JobsHold
  <2>1. DOMAIN job = Job /\ \A j \in Job : job[j] = NoJob
    BY DEF Init
  <2> QED BY <2>1, NoJobHolds DEF JobsHold
<1>5. BackfillsHold
  BY DEF Init, BackfillsHold, BackfillHolds, ProjectId
<1>6. GhostsHold
  BY DEF Init, GhostsHold
<1> QED BY <1>1, <1>2, <1>3, <1>4, <1>5, <1>6 DEF UsageShapes

\* The tables, the batches, the aggregations and the backfills have the shapes
\* the steps rely on: a row that is written comes from the reports, and a
\* summary that was looked up is the one to replace.
THEOREM UsageHasItsShapes == Spec => []UsageShapes
<1>1. Init => UsageShapes
  BY ShapesStart
<1>2. UsageShapes /\ [Next]_vars => UsageShapes'
  <2>1. ASSUME UsageShapes, Next PROVE UsageShapes'
    BY <2>1, ProjectsStay, TablesStay, BatchesStay, JobsStay, BackfillsStay, GhostsStay DEF UsageShapes
  <2> QED BY <2>1, ShapesStutter
<1> QED BY <1>1, <1>2, PTL DEF Spec

LEMMA ShapesAreTypes == UsageShapes => TypeOK
<1> SUFFICES ASSUME UsageShapes PROVE TypeOK
  OBVIOUS
<1>1. ProjectsHold /\ TablesHold /\ JobsHold /\ BackfillsHold /\ GhostsHold
  BY DEF UsageShapes
<1>2. users \subseteq User /\ \A p \in DOMAIN project :
        /\ p \in DOMAIN backfill /\ project[p].personal \in BOOLEAN
        /\ project[p].status \in {"new", "active", "rejected"}
  BY <1>1 DEF ProjectsHold, ProjectHolds, BackfillsHold
<1>3. \A ids \in Identities : \A i \in DOMAIN ids : Len(ids[i]) = 2
  <2> SUFFICES ASSUME NEW ids \in Identities, NEW i \in DOMAIN ids PROVE Len(ids[i]) = 2
    OBVIOUS
  <2>1. ids[i] \in STRING \X STRING
    BY ElementOfSeq, LenProperties DEF Identities
  <2>2. PICK a, b : ids[i] = <<a, b>>
    BY <2>1
  <2> QED BY <2>2
<1>4. ASSUME NEW i \in DOMAIN events PROVE IsEvent(events[i])
  <2>1. PICK e \in EventRow : e = events[i]
    BY <1>1, ElementOfSeq, LenProperties DEF TablesHold
  <2> QED BY <1>1, <1>3, <2>1, EventsHold DEF IsEvent, IsRow, Source, BackfillsHold
<1>5. ASSUME NEW i \in DOMAIN summaries PROVE IsSummary(summaries[i])
  <2>1. PICK s \in SummaryRow : s = summaries[i] /\ SummaryHolds(s)
    BY <1>1 DEF TablesHold, SummaryHolds
  <2>2. s.instances \in Servers
    BY <2>1 DEF SummaryRow
  <2>3. \A v \in DOMAIN s.instances : s.source = "openstack" /\ s.instances[v] \in Nat
    BY <2>1, <2>2, ServersAre DEF SummaryHolds
  <2>4. IsRow(s) /\ s.total \in Nat /\ s.count \in Nat \ {0}
    BY <1>1, <1>3, <2>1 DEF SummaryRow, IsRow, Source, BackfillsHold
  <2> QED BY <2>1, <2>3, <2>4 DEF IsSummary
<1>6. \A j \in Job : /\ job[j].phase \in 0..Len(Phases) /\ job[j].days \subseteq Day
                     /\ job[j].existing \in Nat \cup {Unsought}
  BY <1>1, PhaseNames DEF JobsHold, JobHolds
<1>7. \A p \in DOMAIN backfill : backfill[p].step \in {"events", "summaries", "done"}
  BY <1>1 DEF BackfillsHold, BackfillHolds, NoBackfill
<1>8. stale \subseteq Day /\ {orderly, overtaken} \subseteq BOOLEAN
  BY <1>1 DEF GhostsHold
<1> QED BY <1>2, <1>4, <1>5, <1>6, <1>7, <1>8 DEF TypeOK

\* Types, and summaries that count something.
THEOREM UsageTypes == Spec => []TypeOK
BY UsageHasItsShapes, ShapesAreTypes, PTL

-----------------------------------------------------------------------------
(* Whose usage it is.                                                      *)

LEMMA CustomerTakenOff ==
  ASSUME NEW slug \in Seq(STRING)
  PROVE  /\ WithoutCustomer(slug) \in Seq(STRING)
         /\ \/ WithoutCustomer(slug) = slug
            \/ \E i \in DOMAIN Customers : slug = Customers[i] \o WithoutCustomer(slug)
<1>1. PICK fits : fits = {i \in DOMAIN Customers : StartsWith(slug, Customers[i])}
  OBVIOUS
<1>2. CASE fits = {}
  BY <1>1, <1>2 DEF WithoutCustomer
<1>3. CASE fits # {}
  <2>1. DOMAIN Customers \subseteq Nat
    BY UsageAssumption, LenProperties
  <2>2. PICK i \in fits : i = Min(fits)
    BY <1>1, <1>3, <2>1, MinIsLeast
  <2>a. PICK c : c = Customers[i]
    OBVIOUS
  <2>b. i \in DOMAIN Customers /\ StartsWith(slug, c)
    BY <1>1, <2>2, <2>a
  <2>c. PICK S : S = Seq(STRING)
    OBVIOUS
  <2>d. Customers \in Seq(S)
    BY <2>c, UsageAssumption
  <2>e. Customers[i] \in S
    BY <2>b, <2>d, ElementOfSeq, LenProperties
  <2>3. c \in Seq(STRING) /\ c = Customers[i] /\ i \in DOMAIN Customers /\ StartsWith(slug, c)
    BY <2>a, <2>b, <2>c, <2>e
  <2>4. Len(c) < Len(slug) /\ SubSeq(slug, 1, Len(c)) = c /\ Len(c) \in Nat /\ Len(slug) \in Nat
    BY <2>3, LenProperties DEF StartsWith
  <2>5. PICK rest : rest = SubSeq(slug, Len(c) + 1, Len(slug))
    OBVIOUS
  <2>6. WithoutCustomer(slug) = rest
    BY <1>1, <1>3, <2>2, <2>3, <2>5 DEF WithoutCustomer
  <2>7. rest \in Seq(STRING)
    <3>1. \A k \in (Len(c) + 1)..Len(slug) : slug[k] \in STRING
      BY <2>4, ElementOfSeq
    <3> QED BY <2>4, <2>5, <3>1, SubSeqProperties
  <2>8. slug = c \o rest
    <3>a. PICK k \in Nat, n \in Nat : k = Len(c) /\ n = Len(slug)
      BY <2>4
    <3>b. 1 \in 1..(Len(slug) + 1) /\ k \in (1 - 1)..Len(slug) /\ n \in k..Len(slug)
      BY <2>4, <3>a
    <3>c. SubSeq(slug, 1, k) \o SubSeq(slug, k + 1, n) = SubSeq(slug, 1, n)
      BY <3>b, ConcatAdjacentSubSeq, Zenon
    <3>1. SubSeq(slug, 1, Len(c)) \o SubSeq(slug, Len(c) + 1, Len(slug)) = SubSeq(slug, 1, Len(slug))
      BY <3>a, <3>c
    <3>2. SubSeq(slug, 1, Len(slug)) = slug
      BY SubSeqFull
    <3> QED BY <2>4, <2>5, <3>1, <3>2
  <2> QED BY <2>3, <2>6, <2>7, <2>8
<1> QED BY <1>2, <1>3

LEMMA MapperIsRight ==
  ASSUME ProjectsHold, NEW r, r.slug \in Seq(STRING), r.personal \in BOOLEAN, r.ids \in Identities,
         NEW p, p = MappedProject(project, users, r), p # NoProject
  PROVE  p \in DOMAIN project /\ Owns(p, r)
<1>1. /\ p \in DOMAIN project
      /\ IF r.personal THEN p \in PersonalProject(project, users, r.ids)
         ELSE r.slug # NoSlug /\ p \in RegularProject(project, r.slug, r.source)
  BY MappedIsFound, ProjectsAre
<1>2. CASE r.personal
  <2>1. project[p].personal /\ IsUser(project[p].pi, r.ids[1]) /\ r.ids # <<>>
    BY <1>1, <1>2 DEF PersonalProject
  <2>2. 1 \in DOMAIN r.ids
    BY <2>1, EmptySeq, LenProperties DEF Identities
  <2> QED BY <1>1, <1>2, <2>1, <2>2 DEF Owns, Names
<1>3. CASE ~r.personal
  <2>1. project[p].slug = IF r.source = "openstack" THEN WithoutCustomer(r.slug) ELSE r.slug
    BY <1>1, <1>3 DEF RegularProject
  <2>2. r.slug = project[p].slug \/ (r.source = "openstack" /\ \E i \in DOMAIN Customers : r.slug = Customers[i] \o project[p].slug)
    BY <2>1, CustomerTakenOff
  <2> QED BY <1>1, <1>3, <2>2 DEF Owns
<1> QED BY <1>2, <1>3

\* A backfill takes what is its project's.
LEMMA BackfillIsRight ==
  ASSUME UsageShapes, NEW p \in DOMAIN backfill, backfill[p] # NoBackfill, NEW r, r.personal \in BOOLEAN,
         BackfillTakes(backfill[p].of, r)
  PROVE  p \in DOMAIN project /\ Owns(p, r) /\ r.project = NoProject
<1>1. /\ p \in DOMAIN project /\ ~project[p].personal /\ ~backfill[p].of.personal
      /\ backfill[p].of.slug = project[p].slug
  BY DEF UsageShapes, BackfillsHold, BackfillHolds
<1>2. r.project = NoProject /\ OfSlug(backfill[p].of, r)
  BY <1>1 DEF BackfillTakes
<1>3. project[p].slug # NoSlug
  BY <1>1 DEF UsageShapes, ProjectsHold, ProjectHolds
<1>4. CASE r.source = "pbs" /\ r.slug = project[p].slug
  BY <1>1, <1>2, <1>3, <1>4 DEF OfSlug, Owns
<1>5. CASE /\ r.source = "openstack"
           /\ r.slug \in {project[p].slug} \cup {Customers[i] \o project[p].slug : i \in DOMAIN Customers}
  BY <1>1, <1>2, <1>3, <1>5 DEF OfSlug, Owns
<1> QED BY <1>1, <1>2, <1>4, <1>5 DEF OfSlug

\* What ownership goes by.
IsAlike(r, t) ==
  /\ t.source = r.source /\ t.slug = r.slug /\ (t.personal <=> r.personal)
  /\ r.personal => SameNames(t.ids, r.ids)

IsSettled(p) ==
  /\ p \in DOMAIN project' /\ project'[p].slug = project[p].slug
  /\ (project'[p].personal <=> project[p].personal) /\ project'[p].pi = project[p].pi

LEMMA OwnsStays ==
  ASSUME ProjectsHold, NEW p \in DOMAIN project, IsSettled(p), NEW r, NEW t, IsAlike(r, t), Owns(p, r)
  PROVE  Owns(p, t)'
<1>1. CASE r.personal
  <2>1. project[p].personal /\ Names(r.ids, project[p].pi)
    BY <1>1 DEF Owns
  <2>2. project[p].pi \in User
    BY <2>1 DEF ProjectsHold, ProjectHolds
  <2>3. Names(t.ids, project[p].pi)
    BY <1>1, <2>1, <2>2 DEF IsAlike, SameNames
  <2> QED BY <1>1, <2>1, <2>3 DEF Owns, IsAlike, IsSettled
<1>2. CASE ~r.personal
  BY <1>2 DEF Owns, IsAlike, IsSettled
<1> QED BY <1>1, <1>2

LEMMA SummariesAreAlike ==
  ASSUME NEW s, SummaryHolds(s), NEW t, SummaryHolds(t), IsSameSummary(s, t)
  PROVE  IsAlike(s, t)
BY DEF IsAlike, IsSameSummary, SummaryHolds, SummaryRow

LEMMA EventsAreAlike ==
  ASSUME NEW e, NEW f, IsReport(f, e), e.personal \in BOOLEAN
  PROVE  IsAlike(e, f)
BY DEF IsAlike, IsReport, SameNames

LEMMA RenamingsAre ==
  ASSUME ProjectsHold, Next, NEW p \in DOMAIN project
  PROVE  \/ IsSettled(p)
         \/ p \in DOMAIN backfill /\ \E slug \in Slug : Resubmit(p, slug) /\ slug # project[p].slug
<1>1. CASE UNCHANGED <<project, users>>
  BY <1>1 DEF IsSettled
<1>2. ASSUME NEW u \in User, SignIn(u) PROVE IsSettled(p)
  BY <1>2, SignInHolds DEF SignIn, Inserted, IsSettled
<1>3. ASSUME NEW q \in GroupProject, NEW slug \in Slug, RequestProject(q, slug) PROVE IsSettled(p)
  BY <1>3 DEF RequestProject, Inserted, IsSettled
<1>4. ASSUME NEW q, NEW slug, NEW status, IsReview(q, slug, status), q # p \/ slug = project[p].slug
      PROVE  IsSettled(p)
  BY <1>4 DEF IsReview, IsSettled
<1>5. ASSUME NEW q, Approve(q) \/ Reject(q) PROVE IsSettled(p)
  <2>1. \E status : IsReview(q, project[q].slug, status)
    BY <1>5, ReviewsAre
  <2> QED BY <1>4, <2>1
<1>6. ASSUME NEW q \in DOMAIN backfill, NEW slug \in Slug, Resubmit(q, slug)
      PROVE  IsSettled(p) \/ (q = p /\ slug # project[p].slug)
  <2>1. IsReview(q, slug, "new")
    BY <1>6, ReviewsAre
  <2> QED BY <1>4, <2>1
<1> QED BY <1>1, <1>2, <1>3, <1>5, <1>6, WhoTouchesProjects

-----------------------------------------------------------------------------
(* How a step changes one row, and one job.                                *)

LEMMA EventRowsAre ==
  ASSUME UsageShapes, Next, NEW i \in DOMAIN events'
  PROVE  \/ /\ i \in DOMAIN events /\ IsSameEvent(events[i], events'[i])
            /\ \/ events'[i].project = events[i].project
               \/ \E p \in DOMAIN backfill : /\ BackfillEvents(p) /\ BackfillTakes(backfill[p].of, events[i])
                                             /\ events'[i].project = p
               \/ \E p \in DOMAIN backfill, slug \in Slug :
                    /\ Resubmit(p, slug) /\ slug # project[p].slug /\ events[i].project = p
                    /\ events'[i].project = NoProject
         \/ /\ i \notin DOMAIN events
            /\ \E c \in Collector : Save(c) /\ \E k \in DOMAIN incoming[c].events : events'[i] = incoming[c].events[k]
<1>1. TablesHold /\ BatchesHold /\ BackfillsHold
  BY DEF UsageShapes
<1>2. PICK es \in Seq(EventRow) : es = events
  BY <1>1 DEF TablesHold
<1>3. CASE UNCHANGED events
  BY <1>3 DEF IsSameEvent, IsReport
<1>4. ASSUME NEW c \in Collector, Save(c)
      PROVE  \/ i \in DOMAIN events /\ IsSameEvent(events[i], events'[i]) /\ events'[i].project = events[i].project
             \/ i \notin DOMAIN events /\ \E k \in DOMAIN incoming[c].events : events'[i] = incoming[c].events[k]
  BY <1>1, <1>4, JoinedEventsHold DEF IsSameEvent, IsReport
<1>5. ASSUME NEW p \in DOMAIN backfill, BackfillEvents(p)
      PROVE  /\ i \in DOMAIN events /\ IsSameEvent(events[i], events'[i])
             /\ \/ events'[i].project = events[i].project
                \/ BackfillTakes(backfill[p].of, events[i]) /\ events'[i].project = p
  <2>1. PICK I : I = {k \in DOMAIN es : BackfillTakes(backfill[p].of, es[k])}
    OBVIOUS
  <2>2. events' = Moved(es, I, p) /\ p \in ProjectId \cup {NoProject}
    BY <1>1, <1>2, <1>5, <2>1, MovesAre DEF BackfillEvents, BackfillsHold
  <2>3. /\ i \in DOMAIN es /\ IsSameEvent(es[i], events'[i])
        /\ events'[i].project = IF i \in I THEN p ELSE es[i].project
    BY <2>2, MovedEventsHold
  <2> QED BY <1>2, <2>1, <2>3
<1>6. ASSUME NEW p \in DOMAIN backfill, NEW slug \in Slug, Resubmit(p, slug)
      PROVE  /\ i \in DOMAIN events /\ IsSameEvent(events[i], events'[i])
             /\ \/ events'[i].project = events[i].project
                \/ slug # project[p].slug /\ events[i].project = p /\ events'[i].project = NoProject
  <2>1. CASE slug = project[p].slug
    BY <1>6, <2>1 DEF Resubmit, IsSameEvent, IsReport
  <2>2. CASE slug # project[p].slug
    <3>1. PICK I : I = {k \in DOMAIN events : events[k].project = p}
      OBVIOUS
    <3>a. events' = Unmapped(events, p)
      BY <1>6, <2>2, Zenon DEF Resubmit
    <3>b. Unmapped(events, p) = Moved(events, I, NoProject)
      BY <3>1 DEF Unmapped, Moved
    <3>2. events' = Moved(es, I, NoProject)
      BY <1>2, <3>a, <3>b
    <3>3. /\ i \in DOMAIN es /\ IsSameEvent(es[i], events'[i])
          /\ events'[i].project = IF i \in I THEN NoProject ELSE es[i].project
      BY <3>2, MovedEventsHold
    <3> QED BY <1>2, <2>2, <3>1, <3>3
  <2> QED BY <2>1, <2>2
<1> QED BY <1>3, <1>4, <1>5, <1>6, WhoTouchesEvents

LEMMA SummaryRowsAre ==
  ASSUME UsageShapes, Next, NEW i \in DOMAIN summaries'
  PROVE  \/ /\ i \in DOMAIN summaries /\ IsSameSummary(summaries[i], summaries'[i])
            /\ \/ summaries'[i].project = summaries[i].project
               \/ \E j \in Job : /\ WriteProject(j) /\ job[j].looked /\ job[j].phase = 5 /\ job[j].row = i
                                 /\ summaries'[i].project = job[j].existing /\ job[j].existing # NoProject
               \/ \E p \in DOMAIN backfill : /\ BackfillSummaries(p) /\ BackfillTakes(backfill[p].of, summaries[i])
                                             /\ summaries'[i].project = p
               \/ \E p \in DOMAIN backfill, slug \in Slug :
                    /\ Resubmit(p, slug) /\ slug # project[p].slug /\ summaries[i].project = p
                    /\ summaries'[i].project = NoProject
         \/ /\ i \notin DOMAIN summaries
            /\ \E j \in Job : \E s : Write(j, s) /\ IsWritten(job[j], s) /\ job[j].existing = 0 /\ summaries'[i] = s
<1>1. TablesHold /\ JobsHold /\ BackfillsHold
  BY DEF UsageShapes
<1>2. PICK ss \in Seq(SummaryRow) : ss = summaries /\ \A k \in DOMAIN ss : SummaryHolds(ss[k])
  BY <1>1 DEF TablesHold
<1>3. CASE UNCHANGED summaries
  BY <1>3 DEF IsSameSummary, SameNames
<1>4. ASSUME NEW j \in Job, Written(j)
      PROVE  \/ /\ i \in DOMAIN summaries /\ IsSameSummary(summaries[i], summaries'[i])
                /\ summaries'[i].project = summaries[i].project
             \/ /\ i \notin DOMAIN summaries
                /\ \E s : Write(j, s) /\ IsWritten(job[j], s) /\ job[j].existing = 0 /\ summaries'[i] = s
  <2>1. PICK s : Write(j, s) /\ IsWritten(job[j], s)
    BY <1>1, <1>4, WritesAre
  <2>2. PICK n, t : IsPut(job[j].existing, s, n, t)
    BY <1>1, <2>1, PutHolds
  <2>3. CASE i # n
    BY <2>2, <2>3 DEF IsPut, IsSameSummary, SameNames
  <2>4. CASE i = n /\ job[j].existing = 0
    BY <2>1, <2>2, <2>4 DEF IsPut
  <2>5. CASE i = n /\ job[j].existing # 0
    <3>1. PICK o : o = summaries[i]
      OBVIOUS
    <3>2. t = Updated(o, s) /\ IsSameSummary(o, t) /\ summaries'[i] = t /\ i \in DOMAIN summaries
      BY <2>2, <2>5, <3>1 DEF IsPut
    <3>3. o \in SummaryRow
      BY <1>2, <3>1, <3>2 DEF SummaryHolds
    <3>4. t.project = o.project
      BY <3>2, <3>3 DEF Updated, SummaryRow
    <3> QED BY <3>1, <3>2, <3>4
  <2> QED BY <2>3, <2>4, <2>5
<1>5. ASSUME NEW I, NEW q \in ProjectId \cup {NoProject}, summaries' = Moved(summaries, I, q)
      PROVE  /\ i \in DOMAIN summaries /\ IsSameSummary(summaries[i], summaries'[i])
             /\ summaries'[i].project = IF i \in I THEN q ELSE summaries[i].project
  BY <1>2, <1>5, MovedSummariesHold
<1>6. ASSUME NEW j \in Job, WriteProject(j)
      PROVE  /\ i \in DOMAIN summaries /\ IsSameSummary(summaries[i], summaries'[i])
             /\ \/ summaries'[i].project = summaries[i].project
                \/ /\ job[j].looked /\ job[j].phase = 5 /\ job[j].row = i
                   /\ summaries'[i].project = job[j].existing /\ job[j].existing # NoProject
  <2>1. PICK b : b = job[j]
    OBVIOUS
  <2>2. /\ b.looked /\ b.phase = 5 /\ b.existing \in ProjectId \cup {NoProject}
        /\ IF b.existing = NoProject THEN UNCHANGED summaries
           ELSE summaries' = Moved(summaries, {b.row}, b.existing)
    BY <1>1, <1>6, <2>1, MappingsAre
  <2>3. CASE b.existing = NoProject
    BY <2>2, <2>3 DEF IsSameSummary, SameNames
  <2>4. CASE b.existing # NoProject
    <3>1. PICK I : I = {b.row}
      OBVIOUS
    <3>2. /\ i \in DOMAIN summaries /\ IsSameSummary(summaries[i], summaries'[i])
          /\ summaries'[i].project = IF i \in I THEN b.existing ELSE summaries[i].project
      BY <1>5, <2>2, <2>4, <3>1
    <3> QED BY <2>1, <2>2, <3>1, <3>2
  <2> QED BY <2>3, <2>4
<1>7. ASSUME NEW p \in DOMAIN backfill, BackfillSummaries(p)
      PROVE  /\ i \in DOMAIN summaries /\ IsSameSummary(summaries[i], summaries'[i])
             /\ \/ summaries'[i].project = summaries[i].project
                \/ BackfillTakes(backfill[p].of, summaries[i]) /\ summaries'[i].project = p
  <2>1. PICK I : I = {k \in DOMAIN summaries : BackfillTakes(backfill[p].of, summaries[k])}
    OBVIOUS
  <2>2. summaries' = Moved(summaries, I, p) /\ p \in ProjectId
    BY <1>1, <1>7, <2>1, MovesAre DEF BackfillSummaries, BackfillsHold
  <2>3. /\ i \in DOMAIN summaries /\ IsSameSummary(summaries[i], summaries'[i])
        /\ summaries'[i].project = IF i \in I THEN p ELSE summaries[i].project
    BY <1>5, <2>2
  <2> QED BY <2>1, <2>3
<1>8. ASSUME NEW p \in DOMAIN backfill, NEW slug \in Slug, Resubmit(p, slug)
      PROVE  /\ i \in DOMAIN summaries /\ IsSameSummary(summaries[i], summaries'[i])
             /\ \/ summaries'[i].project = summaries[i].project
                \/ slug # project[p].slug /\ summaries[i].project = p /\ summaries'[i].project = NoProject
  <2>1. CASE slug = project[p].slug
    BY <1>8, <2>1 DEF Resubmit, IsSameSummary, SameNames
  <2>2. CASE slug # project[p].slug
    <3>1. PICK I : I = {k \in DOMAIN summaries : summaries[k].project = p}
      OBVIOUS
    <3>2. summaries' = Moved(summaries, I, NoProject)
      BY <1>8, <2>2, <3>1, MovesAre DEF Resubmit
    <3>3. /\ i \in DOMAIN summaries /\ IsSameSummary(summaries[i], summaries'[i])
          /\ summaries'[i].project = IF i \in I THEN NoProject ELSE summaries[i].project
      BY <1>5, <3>2
    <3> QED BY <2>2, <3>1, <3>3
  <2> QED BY <2>1, <2>2
<1> QED BY <1>3, <1>4, <1>6, <1>7, <1>8, WhoTouchesSummaries

LEMMA BatchRowsAre ==
  ASSUME UsageShapes, Next, NEW c \in Collector, NEW i \in DOMAIN incoming'[c].events
  PROVE  \/ incoming'[c] = incoming[c]
         \/ /\ UNCHANGED <<project, users>>
            /\ \E e \in Reported : /\ IsReport(incoming'[c].events[i], e)
                                   /\ incoming'[c].events[i].project = MappedProject(project, users, e)
<1>1. ProjectsHold /\ BatchesHold
  BY DEF UsageShapes
<1>2. incoming'[c] # NoBatch
  BY NoServers DEF NoBatch
<1>3. ASSUME NEW b \in Batch, Receive(c, b)
      PROVE  /\ UNCHANGED <<project, users>>
             /\ \E e \in Reported : /\ IsReport(incoming'[c].events[i], e)
                                    /\ incoming'[c].events[i].project = MappedProject(project, users, e)
  <2>1. PICK m : m = Mapped(b) /\ [b EXCEPT !.events = m] = [events |-> m, last |-> b.last]
    BY <1>1, ReceivedHolds
  <2>2. incoming' = [incoming EXCEPT ![c] = [events |-> m, last |-> b.last]]
    BY <1>3, <2>1 DEF Receive, Mapped
  <2>3. incoming'[c].events = m
    BY <1>1, <2>2 DEF BatchesHold
  <2>4. i \in DOMAIN b.events
    BY <1>1, <2>1, <2>3, ReceivedHolds
  <2>5. PICK e : e = b.events[i]
    OBVIOUS
  <2>6. e \in Reported /\ m[i].project = MappedProject(project, users, e) /\ IsReport(m[i], e)
    BY <1>1, <2>1, <2>4, <2>5, ReceivedHolds
  <2> QED BY <1>3, <2>3, <2>6 DEF Receive, tables
<1>4. ASSUME NEW d \in Collector, NEW b \in Batch, Receive(d, b), d # c PROVE incoming'[c] = incoming[c]
  BY <1>1, <1>4 DEF Receive, BatchesHold
<1>5. ASSUME NEW d \in Collector, Save(d) PROVE incoming'[c] = incoming[c]
  BY <1>1, <1>2, <1>5 DEF Save, BatchesHold
<1>6. ~Restart
  BY <1>2 DEF Restart
<1> QED BY <1>3, <1>4, <1>5, <1>6, WhoTouchesBatches

\* What a job does in a step.
LEMMA JobStepsAre ==
  ASSUME UsageShapes, Next, NEW j \in Job
  PROVE  \/ job'[j] = job[j]
         \/ job'[j] = NoJob /\ ~orderly'
         \/ job[j].days = {} /\ \E days \in SUBSET Day : days # {} /\ job'[j] = Started(days)
         \/ NextPhase(j) \/ Written(j) \/ WriteProject(j) \/ FindExisting(j)
         \/ (\E row \in job[j].todo : LookUp(j, row))
         \/ \E i \in job[j].todo : FindProject(j, i) \/ MappingFails(j, i)
<1>1. TablesHold /\ ProjectsHold /\ BatchesHold /\ JobsHold /\ SummariesKept
  BY TablesStay DEF UsageShapes
<1>2. ASSUME NEW k \in Job, NEW b, job' = [job EXCEPT ![k] = b]
      PROVE  job'[j] = job[j] \/ (j = k /\ job'[j] = b)
  BY <1>1, <1>2 DEF JobsHold
<1>3. ASSUME NEW c \in Collector, Save(c)
      PROVE  \/ job'[j] = job[j]
             \/ job[j].days = {} /\ \E days \in SUBSET Day : days # {} /\ job'[j] = Started(days)
  <2>1. PICK new : new = {incoming[c].events[i].day : i \in DOMAIN incoming[c].events}
    OBVIOUS
  <2>2. new \in SUBSET Day /\ new # {}
    BY <1>1, <1>3, <2>1, BatchDays DEF Save
  <2>3. UNCHANGED job \/ \E k \in Job : job[k].days = {} /\ job' = [job EXCEPT ![k] = Started(new)]
    BY <1>3, <2>1 DEF Save, Busy
  <2> QED BY <1>2, <2>2, <2>3
<1>4. ASSUME NEW k \in Job, NEW first \in Day, NEW last \in Day, Trigger(k, first, last)
      PROVE  \/ job'[j] = job[j]
             \/ job[j].days = {} /\ \E days \in SUBSET Day : days # {} /\ job'[j] = Started(days)
  <2>1. job[k].days = {} /\ job' = [job EXCEPT ![k] = Started({first, last})]
    BY <1>4 DEF Trigger, Busy
  <2> QED BY <1>2, <2>1
<1>5. ASSUME NEW k \in Job, JobFails(k) PROVE job'[j] = job[j] \/ (job'[j] = NoJob /\ ~orderly')
  BY <1>2, <1>5 DEF JobFails, Mishap
<1>6. CASE Restart
  BY <1>6 DEF Restart, Mishap
<1>7. ASSUME NEW k \in Job, Aggregation(k), k # j PROVE job'[j] = job[j]
  <2>1. CASE NextPhase(k)
    BY <1>1, <1>7, <2>1, NextPhaseHolds
  <2>2. CASE Written(k)
    <3>1. PICK s : Write(k, s) /\ IsWritten(job[k], s)
      BY <1>1, <2>2, WritesAre
    <3> QED BY <1>1, <1>7, <3>1, WriteFreesJob DEF Write, IsWritten
  <2>3. CASE WriteProject(k)
    BY <1>1, <1>7, <2>3, WriteFreesJob DEF WriteProject
  <2>4. ASSUME NEW row \in job[k].todo, LookUp(k, row) PROVE job'[j] = job[j]
    <3>1. PICK new : new = job'[k] /\ job' = [job EXCEPT ![k] = new]
      BY <1>1, <2>4, LookUpsAre
    <3> QED BY <1>1, <1>7, <3>1 DEF JobsHold
  <2>5. ASSUME NEW i \in job[k].todo, FindProject(k, i) PROVE job'[j] = job[j]
    <3>1. PICK new : new = job'[k] /\ job' = [job EXCEPT ![k] = new]
      BY <1>1, <2>5, FindingsAre
    <3> QED BY <1>1, <1>7, <3>1 DEF JobsHold
  <2>6. CASE FindExisting(k)
    <3>1. PICK new : new = job'[k] /\ job' = [job EXCEPT ![k] = new]
      BY <1>1, <2>6, ExistingAre
    <3> QED BY <1>1, <1>7, <3>1 DEF JobsHold
  <2>7. ASSUME NEW i \in job[k].todo, MappingFails(k, i) PROVE job'[j] = job[j]
    BY <1>1, <1>7, <2>7, FailuresAre, WithoutRow
  <2> QED BY <1>7, <2>1, <2>2, <2>3, <2>4, <2>5, <2>6, <2>7 DEF Aggregation, Written
<1>8. ASSUME Aggregation(j)
      PROVE  \/ NextPhase(j) \/ Written(j) \/ WriteProject(j) \/ FindExisting(j)
             \/ (\E row \in job[j].todo : LookUp(j, row))
             \/ \E i \in job[j].todo : FindProject(j, i) \/ MappingFails(j, i)
  BY <1>8 DEF Aggregation, Written
<1> QED BY <1>3, <1>4, <1>5, <1>6, <1>7, <1>8, WhoTouchesJobs

\* What an aggregation has found stays, or was found just now.
LEMMA FindingsComeFrom ==
  ASSUME UsageShapes, Next, NEW j \in Job, job'[j].looked, job'[j].phase = 5
  PROVE  job'[j] = job[j] \/ \E i \in job[j].todo : FindProject(j, i)
<1>1. ProjectsHold /\ TablesHold /\ JobsHold /\ SummariesKept
  BY TablesStay DEF UsageShapes
<1>2. PICK new : new = job'[j] /\ new.looked /\ new.phase = 5
  OBVIOUS
<1>3. ~NoJob.looked
  BY DEF NoJob
<1>4. ASSUME NEW days, new = Started(days) PROVE FALSE
  BY <1>2, <1>4 DEF Started, NoJob
<1>5. CASE NextPhase(j)
  BY <1>1, <1>2, <1>5, NextPhaseHolds DEF IsFree
<1>6. CASE Written(j) \/ WriteProject(j)
  <2>1. job[j].looked /\ job' = Done(j)
    <3>1. CASE Written(j)
      BY <1>1, <3>1, WritesAre DEF Write, IsWritten
    <3>2. CASE WriteProject(j)
      BY <3>2 DEF WriteProject
    <3> QED BY <1>6, <3>1, <3>2
  <2> QED BY <1>1, <1>2, <2>1, WriteFreesJob DEF IsFree
<1>7. ASSUME NEW row \in job[j].todo, LookUp(j, row) PROVE FALSE
  <2>1. new.phase \in 1..4
    BY <1>1, <1>2, <1>7, LookUpsAre
  <2> QED BY <1>2, <2>1
<1>8. ~FindExisting(j)
  <2>1. FindExisting(j) => new.phase \in 1..4
    BY <1>1, <1>2, ExistingAre
  <2> QED BY <1>2, <2>1
<1>9. ASSUME NEW i \in job[j].todo, MappingFails(j, i) PROVE FALSE
  BY <1>1, <1>2, <1>9, FailuresAre, WithoutRow DEF IsFree
<1> QED BY <1>2, <1>3, <1>4, <1>5, <1>6, <1>7, <1>8, <1>9, JobStepsAre

-----------------------------------------------------------------------------
(* What is mapped is right.                                                *)

OwnedBy(q, r) == q # NoProject => q \in DOMAIN project /\ Owns(q, r)

EventsAreRight == \A i \in DOMAIN events : OwnedBy(events[i].project, events[i])
SummariesAreRight == \A i \in DOMAIN summaries : OwnedBy(summaries[i].project, summaries[i])
BatchesAreRight ==
  \A c \in Collector : \A i \in DOMAIN incoming[c].events :
    OwnedBy(incoming[c].events[i].project, incoming[c].events[i])

\* What an aggregation found for a summary and has not written yet.
FindingsAreRight ==
  \A j \in Job : job[j].looked /\ job[j].phase = 5 => OwnedBy(job[j].existing, summaries[job[j].row])

MappingInStep ==
  ~overtaken => EventsAreRight /\ SummariesAreRight /\ BatchesAreRight /\ FindingsAreRight

\* A renaming that overtakes nothing.
RenamesAlone(p) ==
  /\ ~overtaken /\ Idle
  /\ \E slug \in Slug : Resubmit(p, slug) /\ slug # project[p].slug

LEMMA RenamingsAlone ==
  ASSUME ProjectsHold, GhostsHold, Next, ~overtaken'
  PROVE  ~overtaken /\ \A p \in DOMAIN project : IsSettled(p) \/ RenamesAlone(p)
<1>1. ASSUME NEW p, NEW slug \in Slug, Resubmit(p, slug) PROVE Idle
  BY <1>1 DEF Resubmit
<1>2. ~overtaken
  BY DEF GhostsHold, Next, Aggregation, Receive, Save, Trigger, NextPhase, LookUp, FindExisting, Write, WriteAccounts,
     WritePersonal, WriteGeneral, WriteServers, FindProject, MappingFails, WriteProject, SignIn, RequestProject, Approve, Reject,
     Resubmit, BackfillEvents, BackfillSummaries, JobFails, BackfillFails, Restart, ghosts
<1> QED BY <1>1, <1>2, RenamingsAre DEF RenamesAlone

LEMMA RightStays ==
  ASSUME ProjectsHold, NEW q, NEW r, NEW t, IsAlike(r, t), OwnedBy(q, r), q \in DOMAIN project => IsSettled(q)
  PROVE  OwnedBy(q, t)'
<1>1. CASE q = NoProject
  BY <1>1 DEF OwnedBy
<1>2. CASE q # NoProject
  <2>1. q \in DOMAIN project /\ Owns(q, r) /\ IsSettled(q)
    BY <1>2 DEF OwnedBy
  <2>2. Owns(q, t)'
    BY <2>1, OwnsStays
  <2> QED BY <2>1, <2>2 DEF OwnedBy, IsSettled
<1> QED BY <1>1, <1>2

LEMMA UnmappedAre ==
  ASSUME UsageShapes, Next, NEW p, RenamesAlone(p)
  PROVE  /\ p \in DOMAIN project /\ p # NoProject
         /\ \A i \in DOMAIN events' : events'[i].project # p
         /\ \A i \in DOMAIN summaries' : summaries'[i].project # p
         /\ \A c \in Collector : incoming[c] = NoBatch
         /\ \A j \in Job : job[j] = NoJob
<1>1. ProjectsHold /\ TablesHold /\ JobsHold
  BY DEF UsageShapes
<1>2. PICK slug \in Slug : Resubmit(p, slug) /\ slug # project[p].slug
  BY DEF RenamesAlone
<1>3. p \in DOMAIN project /\ p # NoProject
  BY <1>1, <1>2, ProjectsAre DEF Resubmit, NoProject
<1>4. events' = Unmapped(events, p) /\ summaries' = Unmapped(summaries, p)
  BY <1>2, Zenon DEF Resubmit
<1>5. ASSUME NEW i \in DOMAIN events' PROVE events'[i].project # p
  <2>1. PICK I : I = {k \in DOMAIN events : events[k].project = p}
    OBVIOUS
  <2>2. Unmapped(events, p) = Moved(events, I, NoProject)
    BY <2>1 DEF Unmapped, Moved
  <2>3. events' = Moved(events, I, NoProject)
    BY <1>4, <2>2
  <2>4. i \in DOMAIN events /\ events'[i].project = IF i \in I THEN NoProject ELSE events[i].project
    BY <1>1, <2>3, MovedEventsHold DEF TablesHold
  <2> QED BY <1>3, <2>1, <2>4
<1>6. ASSUME NEW i \in DOMAIN summaries' PROVE summaries'[i].project # p
  <2>1. PICK I : I = {k \in DOMAIN summaries : summaries[k].project = p}
    OBVIOUS
  <2>2. Unmapped(summaries, p) = Moved(summaries, I, NoProject)
    BY <2>1 DEF Unmapped, Moved
  <2>3. summaries' = Moved(summaries, I, NoProject)
    BY <1>4, <2>2
  <2>4. i \in DOMAIN summaries /\ summaries'[i].project = IF i \in I THEN NoProject ELSE summaries[i].project
    BY <1>1, <2>3, MovedSummariesHold DEF TablesHold
  <2> QED BY <1>3, <2>1, <2>4
<1>7. (\A c \in Collector : incoming[c] = NoBatch) /\ \A j \in Job : job[j].days = {}
  BY DEF RenamesAlone, Idle, Busy
<1>8. \A j \in Job : job[j] = NoJob
  BY <1>1, <1>7 DEF JobsHold, JobHolds
<1> QED BY <1>3, <1>5, <1>6, <1>7, <1>8

SettledOrAlone == \A p \in DOMAIN project : IsSettled(p) \/ RenamesAlone(p)

LEMMA EventsStayRight ==
  ASSUME UsageShapes, Next, SettledOrAlone, EventsAreRight, BatchesAreRight
  PROVE  EventsAreRight'
<1>1. ProjectsHold /\ TablesHold /\ BatchesHold
  BY DEF UsageShapes
<1>2. SUFFICES ASSUME NEW i \in DOMAIN events', NEW f, f = events'[i] PROVE OwnedBy(f.project, f)'
  BY DEF EventsAreRight, OwnedBy
<1>3. CASE f.project = NoProject
  BY <1>3 DEF OwnedBy
<1>4. ASSUME NEW e, e = events[i], i \in DOMAIN events, IsSameEvent(e, f), f.project # NoProject PROVE OwnedBy(f.project, f)'
  <2>1. e \in EventRow
    BY <1>1, <1>4, ElementOfSeq, LenProperties DEF TablesHold
  <2>2. IsAlike(e, f)
    BY <2>1, <1>4, EventsHold, EventsAreAlike DEF IsSameEvent
  <2>3. ASSUME OwnedBy(f.project, e) PROVE OwnedBy(f.project, f)'
    <3>1. f.project \in DOMAIN project => IsSettled(f.project)
      BY <1>2, UnmappedAre DEF SettledOrAlone
    <3> QED BY <1>1, <2>2, <2>3, <3>1, RightStays
  <2>4. CASE f.project = e.project
    BY <1>4, <2>3, <2>4 DEF EventsAreRight
  <2>5. ASSUME NEW p \in DOMAIN backfill, BackfillEvents(p), BackfillTakes(backfill[p].of, e), f.project = p
        PROVE  OwnedBy(f.project, f)'
    <3>1. backfill[p] # NoBackfill
      BY <2>5 DEF BackfillEvents, NoBackfill
    <3>2. p \in DOMAIN project /\ Owns(p, e)
      BY <2>1, <2>5, <3>1, EventsHold, BackfillIsRight
    <3> QED BY <2>3, <2>5, <3>2 DEF OwnedBy
  <2> QED BY <1>2, <1>4, <2>4, <2>5, EventRowsAre
<1>5. ASSUME NEW c \in Collector, Save(c), NEW k \in DOMAIN incoming[c].events, f = incoming[c].events[k]
      PROVE  OwnedBy(f.project, f)'
  <2>1. \A p \in DOMAIN project : IsSettled(p)
    BY <1>5 DEF Save, IsSettled
  <2>2. OwnedBy(f.project, f)
    BY <1>5 DEF BatchesAreRight
  <2>3. IsAlike(f, f)
    BY DEF IsAlike, SameNames
  <2> QED BY <1>1, <2>1, <2>2, <2>3, RightStays
<1>6. \/ i \in DOMAIN events /\ IsSameEvent(events[i], f)
      \/ \E c \in Collector : Save(c) /\ \E k \in DOMAIN incoming[c].events : f = incoming[c].events[k]
  BY <1>2, EventRowsAre
<1> QED BY <1>3, <1>4, <1>5, <1>6

LEMMA SummariesStayRight ==
  ASSUME UsageShapes, Next, SettledOrAlone, SummariesAreRight, FindingsAreRight
  PROVE  SummariesAreRight'
<1>1. ProjectsHold /\ TablesHold /\ JobsHold /\ TablesHold'
  BY TablesStay DEF UsageShapes
<1>2. SUFFICES ASSUME NEW i \in DOMAIN summaries', NEW t, t = summaries'[i] PROVE OwnedBy(t.project, t)'
  BY DEF SummariesAreRight, OwnedBy
<1>3. CASE t.project = NoProject
  BY <1>3 DEF OwnedBy
<1>4. ASSUME NEW s, s = summaries[i], i \in DOMAIN summaries, IsSameSummary(s, t), t.project # NoProject
      PROVE  OwnedBy(t.project, t)'
  <2>1. SummaryHolds(s) /\ SummaryHolds(t)
    BY <1>1, <1>2, <1>4 DEF TablesHold, SummaryHolds
  <2>2. IsAlike(s, t)
    BY <2>1, <1>4, SummariesAreAlike
  <2>3. ASSUME OwnedBy(t.project, s) PROVE OwnedBy(t.project, t)'
    <3>1. t.project \in DOMAIN project => IsSettled(t.project)
      BY <1>2, UnmappedAre DEF SettledOrAlone
    <3> QED BY <1>1, <2>2, <2>3, <3>1, RightStays
  <2>4. CASE t.project = s.project
    BY <1>4, <2>3, <2>4 DEF SummariesAreRight
  <2>5. ASSUME NEW p \in DOMAIN backfill, BackfillSummaries(p), BackfillTakes(backfill[p].of, s), t.project = p
        PROVE  OwnedBy(t.project, t)'
    <3>1. backfill[p] # NoBackfill
      BY <2>5 DEF BackfillSummaries, NoBackfill
    <3>2. s.personal \in BOOLEAN
      BY <2>1 DEF SummaryHolds, SummaryRow
    <3>3. p \in DOMAIN project /\ Owns(p, s)
      BY <2>5, <3>1, <3>2, BackfillIsRight
    <3> QED BY <2>3, <2>5, <3>3 DEF OwnedBy
  <2>6. ASSUME NEW j \in Job, job[j].looked, job[j].phase = 5, job[j].row = i, t.project = job[j].existing
        PROVE  OwnedBy(t.project, t)'
    BY <1>4, <2>3, <2>6 DEF FindingsAreRight
  <2> QED BY <1>2, <1>4, <2>4, <2>5, <2>6, SummaryRowsAre
<1>5. ASSUME NEW j \in Job, NEW s, IsWritten(job[j], s), t = s PROVE t.project = NoProject
  <2>1. PICK b : b = job[j] /\ IsWritten(b, s)
    BY <1>5
  <2> QED BY <1>5, <2>1, WrittenHolds
<1> QED BY <1>2, <1>3, <1>4, <1>5, SummaryRowsAre

LEMMA BatchesStayRight ==
  ASSUME UsageShapes, Next, SettledOrAlone, BatchesAreRight
  PROVE  BatchesAreRight'
<1>1. ProjectsHold /\ BatchesHold
  BY DEF UsageShapes
<1>2. SUFFICES ASSUME NEW c \in Collector, NEW i \in DOMAIN incoming'[c].events, NEW f, f = incoming'[c].events[i]
               PROVE  OwnedBy(f.project, f)'
  BY DEF BatchesAreRight, OwnedBy
<1>3. CASE incoming'[c] = incoming[c]
  <2>1. incoming[c] # NoBatch
    BY <1>3, NoServers DEF NoBatch
  <2>2. \A p \in DOMAIN project : IsSettled(p)
    BY <2>1, UnmappedAre DEF SettledOrAlone
  <2>3. OwnedBy(f.project, f)
    BY <1>2, <1>3 DEF BatchesAreRight
  <2>4. IsAlike(f, f)
    BY DEF IsAlike, SameNames
  <2> QED BY <1>1, <2>2, <2>3, <2>4, RightStays
<1>4. ASSUME UNCHANGED <<project, users>>, NEW e \in Reported, IsReport(f, e), f.project = MappedProject(project, users, e)
      PROVE  OwnedBy(f.project, f)'
  <2>1. e.slug \in Seq(STRING) /\ e.personal \in BOOLEAN /\ e.ids \in Identities
    BY ReportAssumption DEF Identities
  <2>2. OwnedBy(f.project, e)
    BY <1>1, <1>4, <2>1, MapperIsRight DEF OwnedBy
  <2>3. \A p \in DOMAIN project : IsSettled(p)
    BY <1>4 DEF IsSettled
  <2>4. IsAlike(e, f)
    BY <1>4, <2>1, EventsAreAlike
  <2> QED BY <1>1, <2>2, <2>3, <2>4, RightStays
<1> QED BY <1>2, <1>3, <1>4, BatchRowsAre

LEMMA FindingsStayRight ==
  ASSUME UsageShapes, Next, SettledOrAlone, FindingsAreRight
  PROVE  FindingsAreRight'
<1>1. ProjectsHold /\ TablesHold /\ JobsHold /\ SummariesKept /\ TablesHold'
  BY TablesStay DEF UsageShapes
<1>2. SUFFICES ASSUME NEW j \in Job, NEW new, new = job'[j], new.looked, new.phase = 5,
                      NEW t, t = summaries'[new.row]
               PROVE  OwnedBy(new.existing, t)'
  BY DEF FindingsAreRight, OwnedBy
<1>3. CASE job'[j] = job[j]
  <2>1. JobHolds(new) /\ new = job[j]
    BY <1>1, <1>2, <1>3 DEF JobsHold
  <2>2. new.row \in DOMAIN summaries
    BY <1>2, <2>1 DEF JobHolds
  <2>3. PICK s : s = summaries[new.row] /\ SummaryHolds(s)
    BY <1>1, <2>2 DEF TablesHold, SummaryHolds
  <2>4. IsSameSummary(s, t) /\ SummaryHolds(t)
    BY <1>1, <1>2, <2>2, <2>3 DEF SummariesKept, TablesHold, SummaryHolds
  <2>5. OwnedBy(new.existing, s)
    BY <1>2, <2>1, <2>3 DEF FindingsAreRight
  <2>6. ~NoJob.looked
    BY DEF NoJob
  <2>7. \A p \in DOMAIN project : IsSettled(p)
    BY <1>2, <2>1, <2>6, UnmappedAre DEF SettledOrAlone
  <2>8. IsAlike(s, t)
    BY <2>3, <2>4, SummariesAreAlike
  <2> QED BY <1>1, <2>5, <2>7, <2>8, RightStays
<1>4. ASSUME NEW i \in job[j].todo, FindProject(j, i) PROVE OwnedBy(new.existing, t)'
  <2>1. i \in DOMAIN summaries /\ new.row = i
    BY <1>1, <1>2, <1>4, FindingsAre
  <2>2. UNCHANGED <<project, users, summaries>>
    BY <1>4 DEF FindProject, tables
  <2>3. t = summaries[i] /\ SummaryHolds(t)
    BY <1>1, <1>2, <2>1, <2>2 DEF TablesHold, SummaryHolds
  <2>4. PICK seen : /\ IsSameSummary(t, seen) /\ seen.ids \in Identities
                    /\ new.existing = MappedProject(project, users, seen)
    <3>1. \E seen : /\ IsSameSummary(summaries[i], seen) /\ seen.ids \in Identities
                    /\ job'[j].existing = MappedProject(project, users, seen)
      BY <1>1, <1>4, FindingsAre
    <3> QED BY <1>2, <2>3, <3>1
  <2>5. seen.slug \in Seq(STRING) /\ seen.personal \in BOOLEAN
    BY <2>3, <2>4 DEF SummaryHolds, SummaryRow, IsSameSummary
  <2>8. OwnedBy(new.existing, seen)
    BY <1>1, <2>4, <2>5, MapperIsRight DEF OwnedBy
  <2>6. \A p \in DOMAIN project : IsSettled(p)
    BY <2>2 DEF IsSettled
  <2>7. IsAlike(seen, t)
    BY <2>4 DEF IsAlike, IsSameSummary, SameNames
  <2> QED BY <1>1, <2>6, <2>7, <2>8, RightStays
<1> QED BY <1>2, <1>3, <1>4, FindingsComeFrom

LEMMA MappingStays ==
  ASSUME UsageShapes, MappingInStep, Next
  PROVE  MappingInStep'
<1> SUFFICES ASSUME ~overtaken' PROVE (EventsAreRight /\ SummariesAreRight /\ BatchesAreRight /\ FindingsAreRight)'
  BY DEF MappingInStep
<1>1. ~overtaken /\ SettledOrAlone
  BY RenamingsAlone DEF UsageShapes, SettledOrAlone
<1>2. EventsAreRight /\ SummariesAreRight /\ BatchesAreRight /\ FindingsAreRight
  BY <1>1 DEF MappingInStep
<1> QED BY <1>1, <1>2, EventsStayRight, SummariesStayRight, BatchesStayRight, FindingsStayRight

\* Until a renaming overtakes a mapping, whatever is mapped, or about to be
\* written, is its project's.
THEOREM MappingsAreInStep == Spec => []MappingInStep
<1>1. Init => MappingInStep
  <2> SUFFICES ASSUME Init PROVE EventsAreRight /\ SummariesAreRight /\ BatchesAreRight /\ FindingsAreRight
    BY DEF MappingInStep
  <2>1. EventsAreRight /\ SummariesAreRight
    BY NoServers DEF Init, EventsAreRight, SummariesAreRight
  <2>2. BatchesAreRight
    BY NoServers DEF Init, BatchesAreRight, NoBatch
  <2>3. FindingsAreRight
    BY DEF Init, FindingsAreRight, NoJob
  <2> QED BY <2>1, <2>2, <2>3
<1>2. UsageShapes /\ MappingInStep /\ [Next]_vars => MappingInStep'
  <2>1. ASSUME UNCHANGED vars, MappingInStep PROVE MappingInStep'
    BY <2>1 DEF vars, MappingInStep, EventsAreRight, SummariesAreRight, BatchesAreRight, FindingsAreRight, OwnedBy, Owns
  <2> QED BY <2>1, MappingStays
<1> QED BY <1>1, <1>2, UsageHasItsShapes, PTL DEF Spec

\* What is mapped to a project is that project's.
THEOREM UsageIsMappedRight == Spec => []MappingIsRight
<1>1. MappingInStep => MappingIsRight
  BY DEF MappingInStep, MappingIsRight, EventsAreRight, SummariesAreRight, OwnedBy
<1> QED BY <1>1, MappingsAreInStep, PTL

-----------------------------------------------------------------------------
(* What is left to a backfill.                                             *)

\* What the mapper looks up.
Cleaned(r) == IF r.source = "openstack" THEN WithoutCustomer(r.slug) ELSE r.slug

\* Until a project is approved only the mapper gives it usage.
IsMapped(q, r) ==
  ~r.personal /\ q \in DOMAIN project /\ project[q].status # "active" => project[q].slug = Cleaned(r)

EventsAreMapped == \A i \in DOMAIN events : IsMapped(events[i].project, events[i])
SummariesAreMapped == \A i \in DOMAIN summaries : IsMapped(summaries[i].project, summaries[i])
BatchesAreMapped ==
  \A c \in Collector : \A i \in DOMAIN incoming[c].events :
    IsMapped(incoming[c].events[i].project, incoming[c].events[i])
FindingsAreMapped ==
  \A j \in Job : job[j].looked /\ job[j].phase = 5 => IsMapped(job[j].existing, summaries[job[j].row])

EventsAreTaken ==
  \A p \in DOMAIN project : IsServed(p) =>
    \A i \in DOMAIN events : IsLeft(p, events[i]) => backfill[p].step = "events"

BatchesAreTaken ==
  \A p \in DOMAIN project : IsServed(p) =>
    \A c \in Collector : \A i \in DOMAIN incoming[c].events : ~IsLeft(p, incoming[c].events[i])

\* An aggregation of the day will map summary i yet.
IsCovered(b, i) ==
  /\ summaries[i].day \in b.days
  /\ b.phase = 5 => i \in b.todo /\ (b.looked /\ b.row = i => b.existing # NoProject)

IsTaken(p, i) == backfill[p] # NoBackfill \/ \E j \in Job : IsCovered(job[j], i)

SummariesAreTaken ==
  \A p \in DOMAIN project : IsServed(p) =>
    \A i \in DOMAIN summaries : IsLeft(p, summaries[i]) => IsTaken(p, i)

BackfillInStep ==
  orderly =>
    /\ ~overtaken
    /\ EventsAreMapped /\ SummariesAreMapped /\ BatchesAreMapped /\ FindingsAreMapped
    /\ EventsAreTaken /\ BatchesAreTaken /\ SummariesAreTaken

\* The mapper finds what a project is owed.
LEMMA MapperFinds ==
  ASSUME ProjectsHold, NEW p \in DOMAIN project, IsServed(p), NEW r, r.slug \in Seq(STRING), ~r.personal,
         Owns(p, r)
  PROVE  Cleaned(r) = project[p].slug /\ MappedProject(project, users, r) # NoProject
<1>1. PICK slug \in Seq(STRING) \ {NoSlug} : slug = project[p].slug
  BY DEF ProjectsHold, ProjectHolds
<1>2. WithoutCustomer(slug) = slug /\ \A i \in DOMAIN Customers : WithoutCustomer(Customers[i] \o slug) = slug
  BY <1>1 DEF IsServed, IsRecognised
<1>3. \/ r.slug # NoSlug /\ r.slug = slug
      \/ r.source = "openstack" /\ \E i \in DOMAIN Customers : r.slug = Customers[i] \o slug
  BY <1>1 DEF Owns
<1>4. Cleaned(r) = slug
  BY <1>2, <1>3 DEF Cleaned
<1>5. r.slug # NoSlug
  <2>1. ASSUME NEW i \in DOMAIN Customers PROVE Customers[i] \o slug # NoSlug
    <3>1. PICK S : S = Seq(STRING)
      OBVIOUS
    <3>2. Customers[i] \in S
      BY <3>1, UsageAssumption, ElementOfSeq, LenProperties
    <3>3. PICK c \in Seq(STRING) : c = Customers[i]
      BY <3>1, <3>2
    <3>4. Len(c \o slug) = Len(c) + Len(slug) /\ Len(c) \in Nat /\ Len(slug) \in Nat
      BY ConcatProperties, LenProperties
    <3>5. Len(slug) # 0
      BY EmptySeq DEF NoSlug
    <3>6. Len(c \o slug) # 0
      BY <3>4, <3>5
    <3>7. Len(NoSlug) = 0
      BY EmptySeq DEF NoSlug
    <3> QED BY <3>3, <3>6, <3>7
  <2> QED BY <1>3, <2>1
<1>6. PICK found : found = RegularProject(project, r.slug, r.source)
  OBVIOUS
<1>7. p \in found /\ found \subseteq DOMAIN project
  BY <1>1, <1>4, <1>6 DEF RegularProject, Cleaned
<1>8. MappedProject(project, users, r) = Min(found)
  BY <1>5, <1>6, <1>7 DEF MappedProject
<1>9. found \subseteq Nat \ {0}
  BY <1>7, ProjectsAre
<1>10. Min(found) \in found
  BY <1>7, <1>9, MinIsLeast
<1> QED BY <1>1, <1>4, <1>8, <1>9, <1>10 DEF NoProject

LEMMA MapperGoesBySlug ==
  ASSUME ProjectsHold, NEW r
  PROVE  IsMapped(MappedProject(project, users, r), r)
<1>1. PICK q : q = MappedProject(project, users, r)
  OBVIOUS
<1>2. ASSUME ~r.personal, q \in DOMAIN project PROVE project[q].slug = Cleaned(r)
  <2>1. q # NoProject
    BY <1>2, ProjectsAre DEF NoProject
  <2>2. q \in RegularProject(project, r.slug, r.source)
    BY <1>1, <1>2, <2>1, MappedIsFound, ProjectsAre
  <2> QED BY <2>2 DEF RegularProject, Cleaned
<1> QED BY <1>1, <1>2 DEF IsMapped

LEMMA ActiveStays ==
  ASSUME ProjectsHold, Next, NEW p \in DOMAIN project, project[p].status = "active"
  PROVE  p \in DOMAIN project' /\ project'[p] = project[p]
<1>1. CASE UNCHANGED <<project, users>>
  BY <1>1
<1>2. ASSUME NEW u \in User, SignIn(u) PROVE p \in DOMAIN project' /\ project'[p] = project[p]
  BY <1>2, SignInHolds DEF SignIn, Inserted
<1>3. ASSUME NEW q \in GroupProject, NEW slug \in Slug, RequestProject(q, slug)
      PROVE  p \in DOMAIN project' /\ project'[p] = project[p]
  BY <1>3 DEF RequestProject, Inserted
<1>4. ASSUME NEW q, NEW slug, NEW status, IsReview(q, slug, status)
      PROVE  p \in DOMAIN project' /\ project'[p] = project[p]
  BY <1>4 DEF IsReview
<1>5. ASSUME NEW q, Approve(q) \/ Reject(q) \/ \E slug \in Slug : Resubmit(q, slug)
      PROVE  \E slug, status : IsReview(q, slug, status)
  BY <1>5, ReviewsAre
<1> QED BY <1>1, <1>2, <1>3, <1>4, <1>5, WhoTouchesProjects

\* Only an approval makes a project one to serve.
LEMMA ServedAre ==
  ASSUME ProjectsHold, Next, NEW p, IsServed(p)'
  PROVE  (IsServed(p) /\ project'[p] = project[p]) \/ Approve(p)
<1>1. p \in DOMAIN project' /\ project'[p].status = "active" /\ ~project'[p].personal /\ IsRecognised(project'[p].slug)
  BY DEF IsServed
<1>2. ASSUME p \in DOMAIN project, project'[p] = project[p] PROVE IsServed(p) /\ project'[p] = project[p]
  BY <1>1, <1>2 DEF IsServed
<1>3. CASE UNCHANGED <<project, users>>
  BY <1>1, <1>2, <1>3
<1>4. ASSUME NEW u \in User, SignIn(u) PROVE p \in DOMAIN project /\ project'[p] = project[p]
  BY <1>1, <1>4 DEF SignIn, Inserted
<1>5. ASSUME NEW q \in GroupProject, NEW slug \in Slug, RequestProject(q, slug)
      PROVE  p \in DOMAIN project /\ project'[p] = project[p]
  BY <1>1, <1>5 DEF RequestProject, Inserted
<1>6. ASSUME NEW q, NEW slug, NEW status, IsReview(q, slug, status), q # p \/ status # "active"
      PROVE  p \in DOMAIN project /\ project'[p] = project[p]
  BY <1>1, <1>6 DEF IsReview
<1>7. ASSUME NEW q, Approve(q), q # p PROVE p \in DOMAIN project /\ project'[p] = project[p]
  BY <1>6, <1>7, ReviewsAre
<1>8. ASSUME NEW q, Reject(q) \/ \E slug \in Slug : Resubmit(q, slug)
      PROVE  p \in DOMAIN project /\ project'[p] = project[p]
  BY <1>6, <1>8, ReviewsAre
<1> QED BY <1>2, <1>3, <1>4, <1>5, <1>7, <1>8, WhoTouchesProjects

LEMMA MappedStays ==
  ASSUME ProjectsHold, Next, NEW q, NEW r, NEW t, IsAlike(r, t), IsMapped(q, r),
         q = NoProject \/ q \in DOMAIN project, q \in DOMAIN project => IsSettled(q)
  PROVE  IsMapped(q, t)'
<1> SUFFICES ASSUME ~t.personal, q \in DOMAIN project', project'[q].status # "active"
             PROVE  project'[q].slug = Cleaned(t)
  BY DEF IsMapped
<1>1. q # NoProject
  <2>1. ProjectsHold'
    BY ProjectsStay
  <2> QED BY <2>1, IdsAreNumbers DEF ProjectsHold, ProjectHolds, NoProject
<1>2. q \in DOMAIN project /\ IsSettled(q)
  BY <1>1
<1>3. project[q].status # "active"
  BY <1>2, ActiveStays
<1>4. Cleaned(t) = Cleaned(r) /\ ~r.personal
  BY DEF IsAlike, Cleaned
<1> QED BY <1>2, <1>3, <1>4 DEF IsMapped, IsSettled

LEMMA OrderlyBefore ==
  ASSUME GhostsHold, Next, orderly'
  PROVE  orderly
BY DEF GhostsHold, Next, Aggregation, Receive, Save, Trigger, NextPhase, LookUp, FindExisting, Write, WriteAccounts,
   WritePersonal, WriteGeneral, WriteServers, FindProject, MappingFails, WriteProject, SignIn, RequestProject, Approve, Reject,
   Resubmit, BackfillEvents, BackfillSummaries, JobFails, BackfillFails, Restart, Mishap, ghosts

LEMMA OrderlySteps ==
  ASSUME ProjectsHold, GhostsHold, Next, orderly', orderly => ~overtaken
  PROVE  orderly /\ ~overtaken' /\ SettledOrAlone
<1>1. orderly
  BY OrderlyBefore
<1>2. ASSUME NEW p, NEW slug \in Slug, Resubmit(p, slug) PROVE ~overtaken'
  BY <1>1, <1>2 DEF Resubmit
<1>3. ASSUME Next, ~(\E p \in DOMAIN backfill, slug \in Slug : Resubmit(p, slug)) PROVE overtaken' = overtaken
  BY <1>3 DEF Next, Aggregation, Receive, Save, Trigger, NextPhase, LookUp, FindExisting, Write, WriteAccounts,
     WritePersonal, WriteGeneral, WriteServers, FindProject, MappingFails, WriteProject, SignIn, RequestProject, Approve, Reject,
     BackfillEvents, BackfillSummaries, JobFails, BackfillFails, Restart, ghosts
<1>4. ~overtaken'
  BY <1>1, <1>2, <1>3
<1> QED BY <1>1, <1>4, RenamingsAlone DEF SettledOrAlone

LEMMA EventsStayMapped ==
  ASSUME UsageShapes, Next, SettledOrAlone, EventsAreMapped, BatchesAreMapped, EventsAreRight, BatchesAreRight
  PROVE  EventsAreMapped'
<1>1. ProjectsHold /\ TablesHold /\ BatchesHold /\ ProjectsHold'
  BY ProjectsStay DEF UsageShapes
<1>2. SUFFICES ASSUME NEW i \in DOMAIN events', NEW f, f = events'[i] PROVE IsMapped(f.project, f)'
  BY DEF EventsAreMapped, IsMapped
<1>3. CASE f.project = NoProject
  BY <1>1, <1>3, IdsAreNumbers DEF IsMapped, ProjectsHold, ProjectHolds, NoProject
<1>4. ASSUME NEW e, e = events[i], i \in DOMAIN events, IsSameEvent(e, f), f.project # NoProject
      PROVE  IsMapped(f.project, f)'
  <2>1. e \in EventRow
    BY <1>1, <1>4, ElementOfSeq, LenProperties DEF TablesHold
  <2>2. IsAlike(e, f)
    BY <2>1, <1>4, EventsHold, EventsAreAlike DEF IsSameEvent
  <2>3. CASE f.project = e.project
    <3>1. IsMapped(f.project, e) /\ OwnedBy(f.project, e)
      BY <1>4, <2>3 DEF EventsAreMapped, EventsAreRight
    <3>2. f.project \in DOMAIN project /\ (f.project \in DOMAIN project => IsSettled(f.project))
      BY <1>2, <1>4, <3>1, UnmappedAre DEF SettledOrAlone, OwnedBy
    <3> QED BY <1>1, <2>2, <3>1, <3>2, MappedStays
  <2>4. ASSUME NEW p \in DOMAIN backfill, BackfillEvents(p), f.project = p PROVE IsMapped(f.project, f)'
    <3>1. project' = project /\ backfill[p] # NoBackfill /\ p \in ProjectId
      BY <2>4 DEF BackfillEvents, NoBackfill, UsageShapes, BackfillsHold
    <3>2. project[p].status = "active"
      BY <3>1 DEF UsageShapes, BackfillsHold, BackfillHolds
    <3> QED BY <2>4, <3>1, <3>2 DEF IsMapped
  <2> QED BY <1>2, <1>4, <2>3, <2>4, EventRowsAre
<1>5. ASSUME NEW c \in Collector, Save(c), NEW k \in DOMAIN incoming[c].events, f = incoming[c].events[k]
      PROVE  IsMapped(f.project, f)'
  <2>1. \A p \in DOMAIN project : IsSettled(p)
    BY <1>5 DEF Save, IsSettled
  <2>2. IsMapped(f.project, f) /\ OwnedBy(f.project, f)
    BY <1>5 DEF BatchesAreMapped, BatchesAreRight
  <2>3. IsAlike(f, f)
    BY DEF IsAlike, SameNames
  <2> QED BY <1>1, <2>1, <2>2, <2>3, MappedStays DEF OwnedBy
<1>6. \/ i \in DOMAIN events /\ IsSameEvent(events[i], f)
      \/ \E c \in Collector : Save(c) /\ \E k \in DOMAIN incoming[c].events : f = incoming[c].events[k]
  BY <1>2, EventRowsAre
<1> QED BY <1>3, <1>4, <1>5, <1>6

LEMMA SummariesStayMapped ==
  ASSUME UsageShapes, Next, SettledOrAlone, SummariesAreMapped, FindingsAreMapped, SummariesAreRight, FindingsAreRight
  PROVE  SummariesAreMapped'
<1>1. ProjectsHold /\ TablesHold /\ JobsHold /\ TablesHold' /\ ProjectsHold'
  BY TablesStay, ProjectsStay DEF UsageShapes
<1>2. SUFFICES ASSUME NEW i \in DOMAIN summaries', NEW t, t = summaries'[i] PROVE IsMapped(t.project, t)'
  BY DEF SummariesAreMapped, IsMapped
<1>3. CASE t.project = NoProject
  BY <1>1, <1>3, IdsAreNumbers DEF IsMapped, ProjectsHold, ProjectHolds, NoProject
<1>4. ASSUME NEW s, s = summaries[i], i \in DOMAIN summaries, IsSameSummary(s, t), t.project # NoProject
      PROVE  IsMapped(t.project, t)'
  <2>1. SummaryHolds(s) /\ SummaryHolds(t)
    BY <1>1, <1>2, <1>4 DEF TablesHold, SummaryHolds
  <2>2. IsAlike(s, t)
    BY <2>1, <1>4, SummariesAreAlike
  <2>3. ASSUME IsMapped(t.project, s), OwnedBy(t.project, s) PROVE IsMapped(t.project, t)'
    <3>1. t.project \in DOMAIN project /\ (t.project \in DOMAIN project => IsSettled(t.project))
      BY <1>2, <1>4, <2>3, UnmappedAre DEF SettledOrAlone, OwnedBy
    <3> QED BY <1>1, <2>2, <2>3, <3>1, MappedStays
  <2>4. CASE t.project = s.project
    BY <1>4, <2>3, <2>4 DEF SummariesAreMapped, SummariesAreRight
  <2>5. ASSUME NEW p \in DOMAIN backfill, BackfillSummaries(p), t.project = p PROVE IsMapped(t.project, t)'
    <3>1. project' = project /\ backfill[p] # NoBackfill /\ p \in ProjectId
      BY <2>5 DEF BackfillSummaries, NoBackfill, UsageShapes, BackfillsHold
    <3>2. project[p].status = "active"
      BY <3>1 DEF UsageShapes, BackfillsHold, BackfillHolds
    <3> QED BY <2>5, <3>1, <3>2 DEF IsMapped
  <2>6. ASSUME NEW j \in Job, job[j].looked, job[j].phase = 5, job[j].row = i, t.project = job[j].existing
        PROVE  IsMapped(t.project, t)'
    BY <1>4, <2>3, <2>6 DEF FindingsAreMapped, FindingsAreRight
  <2> QED BY <1>2, <1>4, <2>4, <2>5, <2>6, SummaryRowsAre
<1>5. ASSUME NEW j \in Job, NEW s, IsWritten(job[j], s), t = s PROVE t.project = NoProject
  <2>1. PICK b : b = job[j] /\ IsWritten(b, s)
    BY <1>5
  <2> QED BY <1>5, <2>1, WrittenHolds
<1> QED BY <1>2, <1>3, <1>4, <1>5, SummaryRowsAre

LEMMA BatchesStayMapped ==
  ASSUME UsageShapes, Next, SettledOrAlone, BatchesAreMapped, BatchesAreRight
  PROVE  BatchesAreMapped'
<1>1. ProjectsHold /\ BatchesHold
  BY DEF UsageShapes
<1>2. SUFFICES ASSUME NEW c \in Collector, NEW i \in DOMAIN incoming'[c].events, NEW f, f = incoming'[c].events[i]
               PROVE  IsMapped(f.project, f)'
  BY DEF BatchesAreMapped, IsMapped
<1>3. CASE incoming'[c] = incoming[c]
  <2>1. incoming[c] # NoBatch
    BY <1>3, NoServers DEF NoBatch
  <2>2. \A p \in DOMAIN project : IsSettled(p)
    BY <2>1, UnmappedAre DEF SettledOrAlone
  <2>3. IsMapped(f.project, f) /\ OwnedBy(f.project, f)
    BY <1>2, <1>3 DEF BatchesAreMapped, BatchesAreRight
  <2>4. IsAlike(f, f)
    BY DEF IsAlike, SameNames
  <2> QED BY <1>1, <2>2, <2>3, <2>4, MappedStays DEF OwnedBy
<1>4. ASSUME UNCHANGED <<project, users>>, NEW e \in Reported, IsReport(f, e), f.project = MappedProject(project, users, e)
      PROVE  IsMapped(f.project, f)'
  <2>1. IsMapped(f.project, e)
    BY <1>1, <1>4, MapperGoesBySlug
  <2>2. f.project = NoProject \/ f.project \in DOMAIN project
    BY <1>1, <1>4, MappedIsFound, ProjectsAre
  <2>3. \A p \in DOMAIN project : IsSettled(p)
    BY <1>4 DEF IsSettled
  <2>4. IsAlike(e, f)
    BY <1>4, ReportAssumption, EventsAreAlike
  <2> QED BY <1>1, <2>1, <2>2, <2>3, <2>4, MappedStays
<1> QED BY <1>2, <1>3, <1>4, BatchRowsAre

LEMMA FindingsStayMapped ==
  ASSUME UsageShapes, Next, SettledOrAlone, FindingsAreMapped, FindingsAreRight
  PROVE  FindingsAreMapped'
<1>1. ProjectsHold /\ TablesHold /\ JobsHold /\ SummariesKept /\ TablesHold'
  BY TablesStay DEF UsageShapes
<1>2. SUFFICES ASSUME NEW j \in Job, NEW new, new = job'[j], new.looked, new.phase = 5,
                      NEW t, t = summaries'[new.row]
               PROVE  IsMapped(new.existing, t)'
  BY DEF FindingsAreMapped, IsMapped
<1>3. CASE new = job[j]
  <2>1. JobHolds(new)
    BY <1>1, <1>3 DEF JobsHold
  <2>2. new.row \in DOMAIN summaries
    BY <1>2, <2>1 DEF JobHolds
  <2>3. PICK s : s = summaries[new.row] /\ SummaryHolds(s)
    BY <1>1, <2>2 DEF TablesHold, SummaryHolds
  <2>4. IsSameSummary(s, t) /\ SummaryHolds(t)
    BY <1>1, <1>2, <2>2, <2>3 DEF SummariesKept, TablesHold, SummaryHolds
  <2>5. IsMapped(new.existing, s) /\ OwnedBy(new.existing, s)
    BY <1>2, <1>3, <2>3 DEF FindingsAreMapped, FindingsAreRight
  <2>6. ~NoJob.looked
    BY DEF NoJob
  <2>7. \A p \in DOMAIN project : IsSettled(p)
    BY <1>2, <1>3, <2>6, UnmappedAre DEF SettledOrAlone
  <2>8. IsAlike(s, t)
    BY <2>3, <2>4, SummariesAreAlike
  <2> QED BY <1>1, <2>5, <2>7, <2>8, MappedStays DEF OwnedBy
<1>4. ASSUME NEW i \in job[j].todo, FindProject(j, i) PROVE IsMapped(new.existing, t)'
  <2>1. i \in DOMAIN summaries /\ new.row = i
    BY <1>1, <1>2, <1>4, FindingsAre
  <2>2. UNCHANGED <<project, users, summaries>>
    BY <1>4 DEF FindProject, tables
  <2>3. t = summaries[i] /\ (~t.personal => new.existing = MappedProject(project, users, t))
    BY <1>1, <1>2, <1>4, <2>1, <2>2, FindingsAre
  <2>4. IsMapped(new.existing, t)
    BY <1>1, <2>3, MapperGoesBySlug DEF IsMapped
  <2> QED BY <2>2, <2>4 DEF IsMapped
<1> QED BY <1>2, <1>3, <1>4, FindingsComeFrom

\* A row that is left, and is taken from another project, is not this one's.
LEMMA LeftBefore ==
  ASSUME ProjectsHold, NEW p \in DOMAIN project, IsServed(p), NEW q \in DOMAIN project, project[q].status # "active",
         NEW r, r.slug \in Seq(STRING), ~r.personal, Owns(p, r), IsMapped(q, r)
  PROVE  FALSE
<1>1. project[q].slug = Cleaned(r)
  BY DEF IsMapped
<1>2. Cleaned(r) = project[p].slug
  BY MapperFinds
<1>3. p = q
  BY <1>1, <1>2 DEF ProjectsHold
<1> QED BY <1>3 DEF IsServed

\* The backfill of a project takes all that is left for it.
LEMMA BackfillTakesLeft ==
  ASSUME UsageShapes, NEW p \in DOMAIN backfill, backfill[p] # NoBackfill, NEW r, r.source \in Source, IsLeft(p, r)
  PROVE  BackfillTakes(backfill[p].of, r)
<1>1. PICK o : o = backfill[p].of
  OBVIOUS
<1>2. p \in DOMAIN project /\ ~o.personal /\ o.slug = project[p].slug
  BY <1>1 DEF UsageShapes, BackfillsHold, BackfillHolds
<1>3. /\ r.project = NoProject /\ ~r.personal /\ r.source \in {"pbs", "openstack"}
      /\ \/ r.slug # NoSlug /\ r.slug = o.slug
         \/ r.source = "openstack" /\ \E i \in DOMAIN Customers : r.slug = Customers[i] \o o.slug
  BY <1>2 DEF IsLeft, Owns, Source
<1>4. OfSlug(o, r)
  BY <1>3 DEF OfSlug
<1> QED BY <1>1, <1>2, <1>3, <1>4 DEF BackfillTakes

\* Where a backfill stands after an orderly step.
LEMMA BackfillSteps ==
  ASSUME UsageShapes, Next, orderly', NEW p \in DOMAIN backfill, backfill[p] # NoBackfill
  PROVE  \/ backfill'[p] = backfill[p]
         \/ backfill[p].step = "events" /\ BackfillEvents(p) /\ backfill'[p] # NoBackfill
         \/ backfill[p].step = "summaries" /\ BackfillSummaries(p)
<1>1. CASE UNCHANGED backfill
  BY <1>1
<1>2. ASSUME NEW q \in DOMAIN backfill, Approve(q) PROVE backfill'[p] = backfill[p]
  <2>1. q # p
    BY <1>2 DEF Approve
  <2> QED BY <1>2, <2>1 DEF Approve
<1>3. ASSUME NEW q \in DOMAIN backfill, BackfillEvents(q)
      PROVE  backfill'[p] = backfill[p] \/ (p = q /\ backfill'[p] # NoBackfill)
  <2>1. backfill' = [backfill EXCEPT ![q].step = "summaries"]
    BY <1>3 DEF BackfillEvents
  <2>2. CASE q # p
    BY <2>1, <2>2
  <2>3. CASE q = p
    <3>1. PICK b : b = backfill[p] /\ b = [step |-> b.step, of |-> b.of]
      BY DEF UsageShapes, BackfillsHold, BackfillHolds
    <3>2. backfill'[p] = [b EXCEPT !.step = "summaries"]
      BY <2>1, <2>3, <3>1
    <3>3. [b EXCEPT !.step = "summaries"].step = "summaries"
      BY <3>1
    <3>4. backfill'[p].step = "summaries" /\ NoBackfill.step = "done"
      BY <3>2, <3>3 DEF NoBackfill
    <3> QED BY <2>3, <3>4
  <2> QED BY <2>2, <2>3
<1>4. ASSUME NEW q \in DOMAIN backfill, BackfillSummaries(q) PROVE backfill'[p] = backfill[p] \/ p = q
  BY <1>4 DEF BackfillSummaries
<1>5. ~Restart /\ \A q : ~BackfillFails(q)
  BY DEF Restart, BackfillFails, Mishap
<1> QED BY <1>1, <1>2, <1>3, <1>4, <1>5, WhoTouchesBackfills DEF BackfillEvents, BackfillSummaries

\* An approval that disturbs nothing starts the backfill.
LEMMA ApprovalStarts ==
  ASSUME UsageShapes, NEW p, Approve(p), orderly'
  PROVE  /\ backfill'[p].step = "events" /\ backfill'[p] # NoBackfill
         /\ UNCHANGED incoming /\ \A c \in Collector : incoming[c] = NoBatch
<1>1. PICK r : r = project[p]
  OBVIOUS
<1>2. p \in DOMAIN backfill
  BY ProjectsAre DEF Approve, UsageShapes, BackfillsHold
<1>3. PICK b : b = [step |-> "events", of |-> r]
  OBVIOUS
<1>4. backfill' = [backfill EXCEPT ![p] = b]
  BY <1>1, <1>3 DEF Approve
<1>5. backfill'[p] = b /\ b.step = "events"
  BY <1>2, <1>3, <1>4
<1>6. b # NoBackfill
  BY <1>5 DEF NoBackfill
<1>7. UNCHANGED incoming /\ \A c \in Collector : incoming[c] = NoBatch
  BY Zenon DEF Approve, Idle
<1> QED BY <1>5, <1>6, <1>7

LEMMA EventsStayTaken ==
  ASSUME UsageShapes, Next, orderly', EventsAreMapped, EventsAreTaken, BatchesAreTaken
  PROVE  EventsAreTaken'
<1>1. ProjectsHold /\ TablesHold /\ BatchesHold /\ BackfillsHold /\ TablesHold'
  BY TablesStay DEF UsageShapes
<1>2. SUFFICES ASSUME NEW p, IsServed(p)', NEW i \in DOMAIN events', NEW f, f = events'[i], IsLeft(p, f)'
               PROVE  backfill'[p].step = "events"
  BY DEF EventsAreTaken, IsLeft, Owns
<1>3. CASE Approve(p)
  BY <1>3, ApprovalStarts
<1>4. CASE IsServed(p) /\ project'[p] = project[p]
  <2>1. IsLeft(p, f) /\ p \in DOMAIN project /\ p \in DOMAIN backfill
    BY <1>1, <1>2, <1>4, ProjectsAre DEF IsLeft, Owns, IsServed, BackfillsHold
  <2>2. f.project = NoProject /\ ~f.personal /\ Owns(p, f)
    BY <2>1 DEF IsLeft
  <2>3. f.source \in Source /\ f.slug \in Seq(STRING)
    BY <1>1, <1>2, EventsHold, ElementOfSeq, LenProperties DEF TablesHold
  <2>4. ASSUME NEW e, e = events[i], i \in DOMAIN events, IsSameEvent(e, f), f.project = e.project
        PROVE  backfill'[p].step = "events"
    <3>1. IsLeft(p, e) /\ e.source \in Source
      BY <2>1, <2>3, <2>4 DEF IsLeft, Owns, IsSameEvent, IsReport
    <3>2. backfill[p].step = "events"
      BY <1>4, <2>1, <2>4, <3>1 DEF EventsAreTaken
    <3>3. backfill[p] # NoBackfill
      BY <3>2 DEF NoBackfill
    <3>4. ~BackfillEvents(p)
      <4>1. SUFFICES ASSUME BackfillEvents(p) PROVE FALSE
        OBVIOUS
      <4>2. PICK I : I = {k \in DOMAIN events : BackfillTakes(backfill[p].of, events[k])}
        OBVIOUS
      <4>a. events' = Filled(events, p)
        BY <4>1 DEF BackfillEvents
      <4>b. Filled(events, p) = Moved(events, I, p)
        BY <4>2 DEF Filled, Moved
      <4>3. events' = Moved(events, I, p)
        BY <4>a, <4>b
      <4>4. events'[i].project = IF i \in I THEN p ELSE events[i].project
        BY <1>1, <2>1, <2>4, <4>3, MovedEventsHold DEF TablesHold, BackfillsHold
      <4>5. i \in I
        BY <2>1, <2>4, <3>1, <3>3, <4>2, BackfillTakesLeft
      <4>6. p # NoProject
        BY <1>1, <2>1, ProjectsAre DEF NoProject
      <4> QED BY <1>2, <2>2, <4>4, <4>5, <4>6
    <3> QED BY <2>1, <3>2, <3>3, <3>4, BackfillSteps
  <2>5. ASSUME NEW q \in DOMAIN backfill, f.project = q PROVE FALSE
    BY <1>1, <2>2, <2>5, IdsAreNumbers DEF BackfillsHold, NoProject
  <2>6. ASSUME NEW e, e = events[i], i \in DOMAIN events, IsSameEvent(e, f),
               NEW q, NEW slug \in Slug, Resubmit(q, slug), e.project = q
        PROVE  FALSE
    <3>1. q \in DOMAIN project /\ project[q].status # "active"
      BY <2>6 DEF Resubmit
    <3>2. IsMapped(q, e)
      BY <2>6 DEF EventsAreMapped
    <3>3. ~e.personal /\ Owns(p, e) /\ e.slug \in Seq(STRING)
      BY <2>2, <2>3, <2>6 DEF IsSameEvent, IsReport, Owns
    <3> QED BY <1>1, <1>4, <2>1, <3>1, <3>2, <3>3, LeftBefore
  <2>7. ASSUME NEW c \in Collector, NEW k \in DOMAIN incoming[c].events, f = incoming[c].events[k]
        PROVE  FALSE
    BY <1>4, <2>1, <2>7 DEF BatchesAreTaken
  <2> QED BY <1>2, <2>4, <2>5, <2>6, <2>7, EventRowsAre
<1> QED BY <1>1, <1>2, <1>3, <1>4, ServedAre

LEMMA BatchesStayTaken ==
  ASSUME UsageShapes, Next, orderly', BatchesAreTaken
  PROVE  BatchesAreTaken'
<1>1. ProjectsHold /\ BatchesHold
  BY DEF UsageShapes
<1>2. SUFFICES ASSUME NEW p, IsServed(p)', NEW c \in Collector, NEW i \in DOMAIN incoming'[c].events,
                      NEW f, f = incoming'[c].events[i], IsLeft(p, f)'
               PROVE  FALSE
  BY DEF BatchesAreTaken, IsLeft, Owns
<1>3. CASE Approve(p)
  BY <1>2, <1>3, ApprovalStarts, NoServers DEF NoBatch
<1>4. CASE IsServed(p) /\ project'[p] = project[p]
  <2>1. IsLeft(p, f) /\ p \in DOMAIN project
    BY <1>2, <1>4 DEF IsLeft, Owns, IsServed
  <2>2. CASE incoming'[c] = incoming[c]
    BY <1>2, <1>4, <2>1, <2>2 DEF BatchesAreTaken
  <2>3. ASSUME NEW e \in Reported, IsReport(f, e), f.project = MappedProject(project, users, e) PROVE FALSE
    <3>1. e.slug \in Seq(STRING) /\ ~e.personal /\ Owns(p, e)
      BY <2>1, <2>3, ReportAssumption DEF IsLeft, IsReport, Owns
    <3>2. f.project # NoProject
      BY <1>1, <1>4, <2>1, <2>3, <3>1, MapperFinds
    <3> QED BY <2>1, <3>2 DEF IsLeft
  <2> QED BY <1>2, <2>2, <2>3, BatchRowsAre
<1> QED BY <1>1, <1>2, <1>3, <1>4, ServedAre

LEMMA CoverStays ==
  ASSUME UsageShapes, Next, orderly', NEW j \in Job, NEW i \in DOMAIN summaries, IsCovered(job[j], i),
         summaries[i].project = NoProject, summaries'[i].project = NoProject, ~summaries[i].personal,
         MappedProject(project, users, summaries[i]) # NoProject
  PROVE  IsCovered(job[j], i)'
<1>1. ProjectsHold /\ TablesHold /\ JobsHold /\ SummariesKept
  BY TablesStay DEF UsageShapes
<1>2. PICK b : b = job[j] /\ JobHolds(b) /\ IsCovered(b, i)
  BY <1>1 DEF JobsHold
<1>3. SUFFICES ASSUME NEW new, new = job'[j]
               PROVE  /\ summaries[i].day \in new.days
                      /\ new.phase = 5 => i \in new.todo /\ (new.looked /\ new.row = i => new.existing # NoProject)
  <2>1. summaries'[i].day = summaries[i].day
    BY <1>1 DEF SummariesKept, IsSameSummary
  <2> QED BY <2>1 DEF IsCovered
<1>4. CASE new = b
  BY <1>2, <1>4 DEF IsCovered
<1>5. CASE b.days = {}
  BY <1>2, <1>5 DEF IsCovered
<1>6. CASE NextPhase(j)
  <2>1. b.todo = {} /\ IsFree(new) /\ IsNextPhase(b, new)
    BY <1>1, <1>2, <1>3, <1>6, NextPhaseHolds
  <2>2. b.phase # 5
    BY <1>2, <2>1 DEF IsCovered
  <2> QED BY <1>2, <2>1, <2>2 DEF IsNextPhase, IsCovered, IsFree
<1>7. CASE Written(j)
  <2>1. PICK s : Write(j, s) /\ IsWritten(b, s)
    BY <1>1, <1>2, <1>7, WritesAre
  <2>2. new.phase = b.phase /\ new.days = b.days
    BY <1>1, <1>2, <1>3, <2>1, WriteFreesJob DEF Write, IsWritten
  <2>3. b.phase \in 1..4
    BY <2>1 DEF IsWritten
  <2> QED BY <1>2, <2>2, <2>3 DEF IsCovered
<1>8. CASE WriteProject(j)
  <2>1. /\ b.phase = 5 /\ b.looked
        /\ IF b.existing = NoProject THEN UNCHANGED summaries ELSE summaries' = Moved(summaries, {b.row}, b.existing)
    BY <1>1, <1>2, <1>8, MappingsAre
  <2>2. job' = Done(j)
    BY <1>8 DEF WriteProject
  <2>3. IsFree(new) /\ new.phase = b.phase /\ new.days = b.days /\ new.todo = b.todo \ {b.row}
    BY <1>1, <1>2, <1>3, <2>1, <2>2, WriteFreesJob
  <2>4. i # b.row
    <3>1. SUFFICES ASSUME i = b.row PROVE FALSE
      OBVIOUS
    <3>2. b.existing # NoProject
      BY <1>2, <2>1, <3>1 DEF IsCovered
    <3>3. PICK I : I = {b.row}
      OBVIOUS
    <3>4. b.existing \in ProjectId \cup {NoProject}
      BY <1>2, <2>1 DEF JobHolds
    <3>5. summaries' = Moved(summaries, I, b.existing)
      BY <2>1, <3>2, <3>3
    <3>6. summaries'[i].project = IF i \in I THEN b.existing ELSE summaries[i].project
      BY <1>1, <3>4, <3>5, MovedSummariesHold DEF TablesHold
    <3> QED BY <3>1, <3>2, <3>3, <3>6
  <2> QED BY <1>2, <2>1, <2>3, <2>4 DEF IsCovered, IsFree
<1>9. ASSUME NEW row \in job[j].todo, LookUp(j, row)
      PROVE  new.phase \in 1..4 /\ new.days = b.days
  BY <1>1, <1>2, <1>3, <1>9, LookUpsAre
<1>10. ASSUME NEW k \in job[j].todo, FindProject(j, k)
       PROVE  /\ b.phase = 5 /\ new.days = b.days /\ new.todo = b.todo /\ new.row = k
              /\ ~summaries[k].personal => new.existing = MappedProject(project, users, summaries[k])
  BY <1>1, <1>2, <1>3, <1>10, FindingsAre
<1>11. summaries[i].day \in b.days /\ (b.phase = 5 => i \in b.todo)
  BY <1>2 DEF IsCovered
<1>12. FindExisting(j) => new.phase \in 1..4 /\ new.days = b.days
  BY <1>1, <1>2, <1>3, ExistingAre
<1>13. ASSUME NEW k \in job[j].todo PROVE ~MappingFails(j, k)
  BY <1>1, FailuresAre
<1> QED BY <1>2, <1>3, <1>4, <1>5, <1>6, <1>7, <1>8, <1>9, <1>10, <1>11, <1>12, <1>13, JobStepsAre

LEMMA SummariesStayTaken ==
  ASSUME UsageShapes, Next, orderly', SummariesAreMapped, SummariesAreTaken
  PROVE  SummariesAreTaken'
<1>1. ProjectsHold /\ TablesHold /\ JobsHold /\ BackfillsHold /\ TablesHold' /\ SummariesKept
  BY TablesStay DEF UsageShapes
<1>2. SUFFICES ASSUME NEW p, IsServed(p)', NEW i \in DOMAIN summaries', NEW t, t = summaries'[i], IsLeft(p, t)'
               PROVE  backfill'[p] # NoBackfill \/ \E j \in Job : IsCovered(job[j], i)'
  BY DEF SummariesAreTaken, IsLeft, Owns, IsTaken, IsCovered
<1>3. CASE Approve(p)
  BY <1>3, ApprovalStarts
<1>4. CASE IsServed(p) /\ project'[p] = project[p]
  <2>1. IsLeft(p, t) /\ p \in DOMAIN project /\ p \in DOMAIN backfill
    BY <1>1, <1>2, <1>4, ProjectsAre DEF IsLeft, Owns, IsServed, BackfillsHold
  <2>2. t.project = NoProject /\ ~t.personal /\ Owns(p, t)
    BY <2>1 DEF IsLeft
  <2>3. t.source \in Source /\ t.slug \in Seq(STRING)
    BY <1>1, <1>2 DEF TablesHold, SummaryHolds, SummaryRow
  <2>4. ASSUME NEW s, s = summaries[i], i \in DOMAIN summaries, IsSameSummary(s, t), t.project = s.project
        PROVE  backfill'[p] # NoBackfill \/ \E j \in Job : IsCovered(job[j], i)'
    <3>1. IsLeft(p, s) /\ s.source \in Source /\ s.slug \in Seq(STRING) /\ ~s.personal /\ Owns(p, s)
          /\ s.project = NoProject
      BY <2>1, <2>2, <2>3, <2>4 DEF IsLeft, Owns, IsSameSummary
    <3>2. CASE backfill[p] # NoBackfill
      <4>1. ~BackfillSummaries(p)
        <5>1. SUFFICES ASSUME BackfillSummaries(p) PROVE FALSE
          OBVIOUS
        <5>2. PICK I : I = {k \in DOMAIN summaries : BackfillTakes(backfill[p].of, summaries[k])}
          OBVIOUS
        <5>3. summaries' = Filled(summaries, p)
          BY <5>1 DEF BackfillSummaries
        <5>4. Filled(summaries, p) = Moved(summaries, I, p)
          BY <5>2 DEF Filled, Moved
        <5>5. summaries' = Moved(summaries, I, p)
          BY <5>3, <5>4
        <5>6. summaries'[i].project = IF i \in I THEN p ELSE summaries[i].project
          BY <1>1, <2>1, <2>4, <5>5, MovedSummariesHold DEF TablesHold, BackfillsHold
        <5>7. i \in I
          BY <2>1, <2>4, <3>1, <3>2, <5>2, BackfillTakesLeft
        <5>8. p # NoProject
          BY <1>1, <2>1, ProjectsAre DEF NoProject
        <5> QED BY <1>2, <2>2, <5>6, <5>7, <5>8
      <4> QED BY <2>1, <3>2, <4>1, BackfillSteps
    <3>3. ASSUME NEW j \in Job, IsCovered(job[j], i) PROVE IsCovered(job[j], i)'
      <4>1. MappedProject(project, users, s) # NoProject
        BY <1>1, <1>4, <2>1, <3>1, MapperFinds
      <4> QED BY <1>2, <2>2, <2>4, <3>1, <3>3, <4>1, CoverStays
    <3>4. IsTaken(p, i)
      BY <1>4, <2>1, <2>4, <3>1 DEF SummariesAreTaken
    <3> QED BY <3>2, <3>3, <3>4 DEF IsTaken
  <2>5. ASSUME NEW q \in DOMAIN backfill, t.project = q PROVE FALSE
    BY <1>1, <2>2, <2>5, IdsAreNumbers DEF BackfillsHold, NoProject
  <2>6. ASSUME NEW s, s = summaries[i], i \in DOMAIN summaries, IsSameSummary(s, t),
               NEW q, NEW slug \in Slug, Resubmit(q, slug), s.project = q
        PROVE  FALSE
    <3>1. q \in DOMAIN project /\ project[q].status # "active"
      BY <2>6 DEF Resubmit
    <3>2. IsMapped(q, s)
      BY <2>6 DEF SummariesAreMapped
    <3>3. ~s.personal /\ Owns(p, s) /\ s.slug \in Seq(STRING)
      BY <2>2, <2>3, <2>6 DEF IsSameSummary, Owns
    <3> QED BY <1>1, <1>4, <2>1, <3>1, <3>2, <3>3, LeftBefore
  <2>7. ASSUME i \notin DOMAIN summaries, NEW j \in Job, NEW s, Write(j, s), IsWritten(job[j], s), t = s
        PROVE  IsCovered(job[j], i)'
    <3>1. PICK b : b = job[j] /\ JobHolds(b) /\ IsWritten(b, s)
      BY <1>1, <2>7 DEF JobsHold
    <3>2. b.phase \in 1..4 /\ b.row.day \in b.days /\ t.day = b.row.day
      BY <2>7, <3>1, WrittenHolds DEF IsWritten, JobHolds, IsReport
    <3>3. job'[j].phase = b.phase /\ job'[j].days = b.days
      BY <1>1, <2>7, <3>1, WriteFreesJob DEF Write, IsWritten
    <3> QED BY <1>2, <3>2, <3>3 DEF IsCovered
  <2>8. ASSUME NEW j \in Job, t.project = job[j].existing, job[j].existing # NoProject PROVE FALSE
    BY <2>2, <2>8
  <2> QED BY <1>2, <2>4, <2>5, <2>6, <2>7, <2>8, SummaryRowsAre
<1> QED BY <1>1, <1>2, <1>3, <1>4, ServedAre

LEMMA BackfillStays ==
  ASSUME UsageShapes, MappingInStep, BackfillInStep, Next
  PROVE  BackfillInStep'
<1> SUFFICES ASSUME orderly'
             PROVE  (/\ ~overtaken
                     /\ EventsAreMapped /\ SummariesAreMapped /\ BatchesAreMapped /\ FindingsAreMapped
                     /\ EventsAreTaken /\ BatchesAreTaken /\ SummariesAreTaken)'
  BY DEF BackfillInStep
<1>1. orderly /\ ~overtaken' /\ SettledOrAlone
  BY OrderlySteps DEF UsageShapes, BackfillInStep
<1>2. /\ ~overtaken
      /\ EventsAreMapped /\ SummariesAreMapped /\ BatchesAreMapped /\ FindingsAreMapped
      /\ EventsAreTaken /\ BatchesAreTaken /\ SummariesAreTaken
  BY <1>1 DEF BackfillInStep
<1>3. EventsAreRight /\ SummariesAreRight /\ BatchesAreRight /\ FindingsAreRight
  BY <1>2 DEF MappingInStep
<1>4. EventsAreMapped' /\ SummariesAreMapped' /\ BatchesAreMapped' /\ FindingsAreMapped'
  BY <1>1, <1>2, <1>3, EventsStayMapped, SummariesStayMapped, BatchesStayMapped, FindingsStayMapped
<1>5. EventsAreTaken' /\ BatchesAreTaken' /\ SummariesAreTaken'
  BY <1>1, <1>2, EventsStayTaken, BatchesStayTaken, SummariesStayTaken
<1> QED BY <1>1, <1>4, <1>5

\* While things happen one at a time, what a project is owed is mapped, or a
\* backfill or an aggregation that will map it is under way.
THEOREM BackfillsAreInStep == Spec => []BackfillInStep
<1>1. Init => BackfillInStep
  <2> SUFFICES ASSUME Init
               PROVE  /\ ~overtaken
                      /\ EventsAreMapped /\ SummariesAreMapped /\ BatchesAreMapped /\ FindingsAreMapped
                      /\ EventsAreTaken /\ BatchesAreTaken /\ SummariesAreTaken
    BY DEF BackfillInStep
  <2>1. EventsAreMapped /\ SummariesAreMapped /\ ~overtaken
    BY NoServers DEF Init, EventsAreMapped, SummariesAreMapped
  <2>2. BatchesAreMapped
    BY NoServers DEF Init, BatchesAreMapped, NoBatch
  <2>3. FindingsAreMapped
    BY DEF Init, FindingsAreMapped, NoJob
  <2>4. EventsAreTaken /\ BatchesAreTaken /\ SummariesAreTaken
    BY NoServers DEF Init, EventsAreTaken, BatchesAreTaken, SummariesAreTaken
  <2> QED BY <2>1, <2>2, <2>3, <2>4
<1>2. UsageShapes /\ MappingInStep /\ BackfillInStep /\ [Next]_vars => BackfillInStep'
  <2>1. ASSUME UNCHANGED vars, BackfillInStep PROVE BackfillInStep'
    BY <2>1 DEF vars, BackfillInStep, EventsAreMapped, SummariesAreMapped, BatchesAreMapped, FindingsAreMapped,
       EventsAreTaken, BatchesAreTaken, SummariesAreTaken, IsMapped, IsServed, IsLeft, Owns, IsTaken, IsCovered
  <2> QED BY <2>1, BackfillStays
<1> QED BY <1>1, <1>2, UsageHasItsShapes, MappingsAreInStep, PTL DEF Spec

\* Once a project is approved and nothing is under way, nothing of it is left.
THEOREM BackfillsAreComplete == Spec => []BackfillIsComplete
<1>1. UsageShapes /\ BackfillInStep => BackfillIsComplete
  <2> SUFFICES ASSUME UsageShapes, BackfillInStep, orderly, Idle, NEW p \in DOMAIN project, IsServed(p)
               PROVE  /\ \A i \in DOMAIN events : ~IsLeft(p, events[i])
                      /\ \A i \in DOMAIN summaries : ~IsLeft(p, summaries[i])
    BY DEF BackfillIsComplete
  <2>1. EventsAreTaken /\ SummariesAreTaken
    BY DEF BackfillInStep
  <2>2. p \in DOMAIN backfill
    BY ProjectsAre DEF UsageShapes, BackfillsHold
  <2>3. backfill[p] = NoBackfill /\ NoBackfill.step # "events"
    BY <2>2 DEF Idle, NoBackfill
  <2>4. \A i : ~IsTaken(p, i)
    BY <2>3 DEF IsTaken, IsCovered, Idle, Busy
  <2> QED BY <2>1, <2>3, <2>4 DEF EventsAreTaken, SummariesAreTaken
<1> QED BY <1>1, UsageHasItsShapes, BackfillsAreInStep, PTL

-----------------------------------------------------------------------------
(* What is counted.                                                        *)

Today(es, r) == {i \in DOMAIN es : IsUse(es[i], r) /\ es[i].day = r.day}
Earlier(es, r) == {i \in DOMAIN es : IsUse(es[i], r) /\ es[i].day < r.day}
SoFar(es, r) == {i \in DOMAIN es : IsUse(es[i], r) /\ es[i].day <= r.day}

\* What a row of a day, the summary it may add to and the one that is written
\* claim of the events es.
RowCounts(es, row) ==
  IF row.source = "openstack" THEN SeenBy(es, Today(es, row), row.instances)
  ELSE row.used <= Counted(es, Today(es, row))

BeforeCounts(es, row, before) ==
  /\ row.source = "pbsAcct" => before.total <= Counted(es, Earlier(es, row))
  /\ row.source = "openstack" => SeenBy(es, Earlier(es, row), before.instances)

SummaryCounts(es, s) ==
  /\ s.source = "pbs" => s.total <= Counted(es, Today(es, s))
  /\ s.source = "pbsAcct" => s.total <= Counted(es, SoFar(es, s))
  /\ s.source = "openstack" =>
       SeenBy(es, SoFar(es, s), s.instances) /\ s.total = Total(s.instances, DOMAIN s.instances)

\* r and t are about the usage of the same person or slug.
IsSameUse(r, t) ==
  /\ r.source = t.source /\ (r.personal <=> t.personal)
  /\ IF r.personal /\ r.source # "openstack" THEN Username(r.ids) = Username(t.ids) ELSE r.slug = t.slug

LEMMA UseIsSame ==
  ASSUME NEW r, NEW t, IsSameUse(r, t), NEW e
  PROVE  IsUse(e, r) <=> IsUse(e, t)
BY DEF IsSameUse, IsUse

LEMMA UsesAreOfDays ==
  ASSUME NEW es, NEW r, NEW t, IsSameUse(r, t), r.day = t.day
  PROVE  Today(es, r) = Today(es, t) /\ Earlier(es, r) = Earlier(es, t) /\ SoFar(es, r) = SoFar(es, t)
<1>1. \A e : IsUse(e, r) <=> IsUse(e, t)
  BY UseIsSame
<1> QED BY <1>1 DEF Today, Earlier, SoFar

\* Events are only added, and change nothing that is counted.
IsGrown(es, fs) ==
  DOMAIN es \subseteq DOMAIN fs /\ \A i \in DOMAIN es : IsSameEvent(es[i], fs[i])

LEMMA UsesGrow ==
  ASSUME NEW es, NEW fs, IsGrown(es, fs), NEW r
  PROVE  /\ Today(es, r) \subseteq Today(fs, r) /\ Earlier(es, r) \subseteq Earlier(fs, r)
         /\ SoFar(es, r) \subseteq SoFar(fs, r)
<1>1. \A i \in DOMAIN es : i \in DOMAIN fs /\ fs[i].day = es[i].day /\ (IsUse(es[i], r) => IsUse(fs[i], r))
  BY DEF IsGrown, IsSameEvent, IsReport, IsUse
<1> QED BY <1>1 DEF Today, Earlier, SoFar

LEMMA CountedGrows ==
  ASSUME NEW es \in Seq(EventRow), NEW fs \in Seq(EventRow), IsGrown(es, fs),
         NEW I \in SUBSET (DOMAIN es), NEW J \in SUBSET (DOMAIN fs), I \subseteq J
  PROVE  Counted(es, I) <= Counted(fs, J) /\ Counted(es, I) \in Nat /\ Counted(fs, J) \in Nat
<1>1. PICK f : f = [i \in I |-> es[i].used]
  OBVIOUS
<1>2. PICK g : g = [i \in J |-> fs[i].used]
  OBVIOUS
<1>3. \A i \in J : g[i] \in Nat
  BY <1>2, ElementOfSeq, LenProperties, EventsHold
<1>4. \A i \in I : f[i] \in Nat /\ f[i] <= g[i]
  <2> SUFFICES ASSUME NEW i \in I PROVE f[i] \in Nat /\ f[i] <= g[i]
    OBVIOUS
  <2>1. f[i] = es[i].used /\ g[i] = fs[i].used /\ g[i] \in Nat
    BY <1>1, <1>2, <1>3
  <2>2. fs[i].used = es[i].used
    BY DEF IsGrown, IsSameEvent
  <2> QED BY <2>1, <2>2
<1>5. Total(f, I) <= Total(g, J) /\ Total(f, I) \in Nat /\ Total(g, J) \in Nat
  BY <1>3, <1>4, TablesAreFinite, TotalIsMonotone
<1> QED BY <1>1, <1>2, <1>5 DEF Counted

LEMMA SeenByGrows ==
  ASSUME NEW es, NEW fs, IsGrown(es, fs), NEW I \in SUBSET (DOMAIN es), NEW J, I \subseteq J, NEW s, SeenBy(es, I, s)
  PROVE  SeenBy(fs, J, s)
<1>1. \A i \in I : fs[i].instance = es[i].instance /\ fs[i].used = es[i].used
  BY DEF IsGrown, IsSameEvent
<1> QED BY <1>1 DEF SeenBy

LEMMA UsesAreEvents ==
  ASSUME NEW es, NEW r
  PROVE  /\ Today(es, r) \in SUBSET (DOMAIN es) /\ Earlier(es, r) \in SUBSET (DOMAIN es)
         /\ SoFar(es, r) \in SUBSET (DOMAIN es)
BY DEF Today, Earlier, SoFar

LEMMA NothingGrows ==
  ASSUME NEW es
  PROVE  IsGrown(es, es)
BY DEF IsGrown, IsSameEvent, IsReport

\* What was claimed stays true.
LEMMA AtMostGrows ==
  ASSUME NEW es \in Seq(EventRow), NEW fs \in Seq(EventRow), IsGrown(es, fs), NEW n \in Nat,
         NEW I \in SUBSET (DOMAIN es), NEW J \in SUBSET (DOMAIN fs), I \subseteq J, n <= Counted(es, I)
  PROVE  n <= Counted(fs, J)
<1>1. PICK a, b : a = Counted(es, I) /\ b = Counted(fs, J)
  OBVIOUS
<1>2. a \in Nat /\ b \in Nat /\ a <= b
  BY <1>1, CountedGrows
<1> QED BY <1>1, <1>2

LEMMA CountsGrow ==
  ASSUME NEW es \in Seq(EventRow), NEW fs \in Seq(EventRow), IsGrown(es, fs)
  PROVE  /\ \A row : RowHolds(row) /\ RowCounts(es, row) => RowCounts(fs, row)
         /\ \A row, before : before.total \in Nat /\ BeforeCounts(es, row, before) => BeforeCounts(fs, row, before)
         /\ \A s : SummaryHolds(s) /\ SummaryCounts(es, s) => SummaryCounts(fs, s)
<1>1. ASSUME NEW row, RowHolds(row), RowCounts(es, row) PROVE RowCounts(fs, row)
  <2>1. PICK n \in Nat : n = row.used
    BY <1>1 DEF RowHolds, DayRow
  <2>2. PICK I, J : I = Today(es, row) /\ J = Today(fs, row)
    OBVIOUS
  <2>3. I \in SUBSET (DOMAIN es) /\ J \in SUBSET (DOMAIN fs) /\ I \subseteq J
    BY <2>2, UsesAreEvents, UsesGrow
  <2>4. CASE row.source = "openstack"
    BY <1>1, <2>2, <2>3, <2>4, SeenByGrows DEF RowCounts
  <2>5. CASE row.source # "openstack"
    BY <1>1, <2>1, <2>2, <2>3, <2>5, AtMostGrows DEF RowCounts
  <2> QED BY <2>4, <2>5
<1>2. ASSUME NEW row, NEW before, before.total \in Nat, BeforeCounts(es, row, before) PROVE BeforeCounts(fs, row, before)
  <2>1. PICK n \in Nat : n = before.total
    BY <1>2
  <2>2. PICK I, J : I = Earlier(es, row) /\ J = Earlier(fs, row)
    OBVIOUS
  <2>3. I \in SUBSET (DOMAIN es) /\ J \in SUBSET (DOMAIN fs) /\ I \subseteq J
    BY <2>2, UsesAreEvents, UsesGrow
  <2>4. ASSUME row.source = "openstack" PROVE SeenBy(fs, J, before.instances)
    BY <1>2, <2>2, <2>3, <2>4, SeenByGrows DEF BeforeCounts
  <2>5. ASSUME row.source = "pbsAcct" PROVE n <= Counted(fs, J)
    BY <1>2, <2>1, <2>2, <2>3, <2>5, AtMostGrows DEF BeforeCounts
  <2> QED BY <2>1, <2>2, <2>4, <2>5 DEF BeforeCounts
<1>3. ASSUME NEW s, SummaryHolds(s), SummaryCounts(es, s) PROVE SummaryCounts(fs, s)
  <2>1. PICK n \in Nat : n = s.total
    BY <1>3 DEF SummaryHolds, SummaryRow
  <2>2. PICK I, J : I = Today(es, s) /\ J = Today(fs, s)
    OBVIOUS
  <2>3. PICK K, L : K = SoFar(es, s) /\ L = SoFar(fs, s)
    OBVIOUS
  <2>4. /\ I \in SUBSET (DOMAIN es) /\ J \in SUBSET (DOMAIN fs) /\ I \subseteq J
        /\ K \in SUBSET (DOMAIN es) /\ L \in SUBSET (DOMAIN fs) /\ K \subseteq L
    BY <2>2, <2>3, UsesAreEvents, UsesGrow
  <2>5. ASSUME s.source = "pbs" PROVE n <= Counted(fs, J)
    BY <1>3, <2>1, <2>2, <2>4, <2>5, AtMostGrows DEF SummaryCounts
  <2>6. ASSUME s.source = "pbsAcct" PROVE n <= Counted(fs, L)
    BY <1>3, <2>1, <2>3, <2>4, <2>6, AtMostGrows DEF SummaryCounts
  <2>7. ASSUME s.source = "openstack"
        PROVE  SeenBy(fs, L, s.instances) /\ s.total = Total(s.instances, DOMAIN s.instances)
    BY <1>3, <2>3, <2>4, <2>7, SeenByGrows DEF SummaryCounts
  <2> QED BY <2>1, <2>2, <2>3, <2>5, <2>6, <2>7 DEF SummaryCounts
<1> QED BY <1>1, <1>2, <1>3

\* A group of a phase is of one use and one day.
LEMMA GroupsAreUses ==
  ASSUME NEW n \in 1..4, NEW e \in EventRow, NEW f \in EventRow,
         InPhase(Phases[n], e), InPhase(Phases[n], f), GroupKey(Phases[n], e) = GroupKey(Phases[n], f)
  PROVE  IsUse(f, e) /\ f.day = e.day
<1>1. e.personal \in BOOLEAN /\ f.personal \in BOOLEAN /\ e.source \in Source /\ f.source \in Source
  BY EventsHold
<1>2. CASE n = 1
  <2>1. InPhase("acct", e) /\ InPhase("acct", f) /\ GroupKey("acct", e) = GroupKey("acct", f)
    BY <1>2, PhaseNames
  <2> QED BY <2>1 DEF InPhase, GroupKey, IsUse
<1>3. CASE n = 2
  <2>1. InPhase("personal", e) /\ InPhase("personal", f) /\ GroupKey("personal", e) = GroupKey("personal", f)
    BY <1>3, PhaseNames
  <2> QED BY <2>1 DEF InPhase, GroupKey, IsUse
<1>4. CASE n = 3
  <2>1. InPhase("openstack", e) /\ InPhase("openstack", f) /\ GroupKey("openstack", e) = GroupKey("openstack", f)
    BY <1>4, PhaseNames
  <2> QED BY <2>1 DEF InPhase, GroupKey, IsUse
<1>5. CASE n = 4
  <2>1. InPhase("general", e) /\ InPhase("general", f) /\ GroupKey("general", e) = GroupKey("general", f)
    BY <1>5, PhaseNames
  <2> QED BY <1>1, <2>1 DEF InPhase, GroupKey, IsUse, Source
<1> QED BY <1>2, <1>3, <1>4, <1>5

\* The rows of a phase count events of their day.
LEMMA PhaseRowsCount ==
  ASSUME NEW es \in Seq(EventRow), NEW n \in 1..4, NEW days, NEW row \in Rows(es, Phases[n], days)
  PROVE  RowCounts(es, row)
<1>1. PICK I \in SUBSET (DOMAIN es) : IsRowOf(row, Phases[n], es, days, I)
  BY RowsAreOfEvents
<1>2. PICK i \in I : /\ IsReport(row, es[i]) /\ row.used = Counted(es, I) /\ SeenBy(es, I, row.instances)
  BY <1>1, RowsHold DEF IsRowOf
<1>3. PICK J : J = Today(es, row) /\ J \in SUBSET (DOMAIN es)
  BY UsesAreEvents
<1>4. ASSUME NEW k \in I PROVE k \in J
  <2>1. PICK e, f : e = es[i] /\ f = es[k]
    OBVIOUS
  <2>2. e \in EventRow /\ f \in EventRow
    BY <2>1, ElementOfSeq, LenProperties
  <2>3. /\ InPhase(Phases[n], e) /\ InPhase(Phases[n], f) /\ GroupKey(Phases[n], e) = GroupKey(Phases[n], f)
        /\ IsReport(row, e)
    BY <1>1, <1>2, <2>1 DEF IsRowOf
  <2>4. IsUse(f, e) /\ f.day = e.day
    BY <2>2, <2>3, GroupsAreUses
  <2>5. IsUse(f, row) /\ f.day = row.day
    BY <2>3, <2>4 DEF IsReport, IsUse
  <2> QED BY <1>3, <2>1, <2>5 DEF Today
<1>5. IsGrown(es, es) /\ I \subseteq J
  BY <1>4, NothingGrows
<1>6. SeenBy(es, J, row.instances)
  BY <1>2, <1>5, SeenByGrows
<1>7. Counted(es, I) <= Counted(es, J)
  BY <1>3, <1>5, CountedGrows
<1> QED BY <1>2, <1>3, <1>6, <1>7 DEF RowCounts

\* The summary a row adds to is of the same use.
LEMMA PreviousIsSameUse ==
  ASSUME TablesHold, NEW row, RowHolds(row), NEW i \in Previous(summaries, row)
  PROVE  /\ i \in DOMAIN summaries /\ SummaryHolds(summaries[i]) /\ IsSameUse(summaries[i], row)
         /\ summaries[i].day < row.day
<1>1. PICK s : s = summaries[i] /\ i \in DOMAIN summaries /\ SummaryHolds(s)
  BY DEF TablesHold, Previous
<1>2. /\ s.source = row.source /\ s.day < row.day
      /\ IF row.personal THEN row.source # "openstack" /\ SameUser(s, row.ids) ELSE s.slug = row.slug /\ ~s.personal
  BY <1>1 DEF Previous
<1>3. CASE ~row.personal
  BY <1>1, <1>2, <1>3 DEF IsSameUse
<1>4. CASE row.personal
  <2>1. s.personal /\ row.source # "openstack" /\ SameUser(s, row.ids)
    BY <1>2, <1>4 DEF SameUser
  <2>2. PICK r \in Reported : r.personal /\ r.source = s.source /\ r.ids = s.ids
    BY <1>1, <2>1 DEF SummaryHolds
  <2>3. PICK q \in Reported : IsReport(row, q)
    BY DEF RowHolds
  <2>4. SamePerson(r, q) /\ r.source # "openstack"
    BY <1>2, <1>4, <2>1, <2>2, <2>3 DEF SamePerson, IsReport, SameUser
  <2>5. Username(s.ids) = Username(row.ids)
    BY <2>2, <2>3, <2>4, UsernameAssumption DEF IsReport
  <2> QED BY <1>1, <1>2, <1>4, <2>1, <2>5 DEF IsSameUse
<1> QED BY <1>3, <1>4

LEMMA FoundBeforeCounts ==
  ASSUME TablesHold, NEW row, RowHolds(row), NEW before, IsBefore(before, row),
         \A i \in DOMAIN summaries : SummaryCounts(events, summaries[i])
  PROVE  BeforeCounts(events, row, before)
<1>1. PICK es \in Seq(EventRow) : es = events
  BY DEF TablesHold
<1>2. PICK J : J = Earlier(es, row) /\ J \in SUBSET (DOMAIN es)
  BY UsesAreEvents
<1>3. CASE before.total = 0 /\ DOMAIN before.instances = {}
  <2>1. PICK c \in Nat : c = Counted(es, J)
    BY <1>2, CountedIsNat
  <2> QED BY <1>1, <1>2, <1>3, <2>1 DEF BeforeCounts, SeenBy
<1>4. CASE \E i \in Previous(summaries, row) :
             before.total = summaries[i].total /\ before.instances = summaries[i].instances
  <2>1. PICK i \in Previous(summaries, row) :
               before.total = summaries[i].total /\ before.instances = summaries[i].instances
    BY <1>4
  <2>2. PICK s : s = summaries[i]
    OBVIOUS
  <2>3. SummaryHolds(s) /\ IsSameUse(s, row) /\ s.day < row.day /\ SummaryCounts(es, s)
    BY <1>1, <2>2, PreviousIsSameUse
  <2>4. s.day \in Nat /\ row.day \in Nat /\ s.total \in Nat /\ s.source = row.source
    BY <2>3, UsageAssumption DEF SummaryHolds, SummaryRow, RowHolds, DayRow, IsSameUse
  <2>5. PICK I : I = SoFar(es, s) /\ I \in SUBSET (DOMAIN es)
    BY UsesAreEvents
  <2>6. ASSUME NEW k \in I PROVE k \in J
    <3>1. PICK e \in EventRow : e = es[k]
      BY <2>5, ElementOfSeq, LenProperties
    <3>2. k \in DOMAIN es /\ IsUse(e, s) /\ e.day <= s.day /\ e.day \in Nat
      BY <2>5, <3>1, EventsHold, UsageAssumption DEF SoFar
    <3>3. IsUse(e, row)
      BY <2>3, <3>2, UseIsSame
    <3>4. e.day < row.day
      BY <2>3, <2>4, <3>2
    <3> QED BY <1>2, <3>1, <3>2, <3>3, <3>4 DEF Earlier
  <2>7. I \subseteq J /\ IsGrown(es, es)
    BY <2>6, NothingGrows
  <2>8. ASSUME row.source = "pbsAcct" PROVE before.total <= Counted(es, J)
    <3>1. PICK n \in Nat : n = s.total
      BY <2>4
    <3>2. n <= Counted(es, I)
      BY <2>3, <2>4, <2>5, <2>8, <3>1 DEF SummaryCounts
    <3>3. n <= Counted(es, J)
      BY <1>2, <2>5, <2>7, <3>2, AtMostGrows
    <3> QED BY <2>1, <2>2, <3>1, <3>3
  <2>9. ASSUME row.source = "openstack" PROVE SeenBy(es, J, before.instances)
    <3>1. SeenBy(es, I, s.instances)
      BY <2>3, <2>4, <2>5, <2>9 DEF SummaryCounts
    <3>2. SeenBy(es, J, s.instances)
      BY <2>5, <2>7, <3>1, SeenByGrows
    <3> QED BY <2>1, <2>2, <3>2
  <2> QED BY <1>1, <1>2, <2>8, <2>9 DEF BeforeCounts
<1> QED BY <1>3, <1>4 DEF IsBefore

\* What is written counts the day's row and what came before.
LEMMA WrittenCounts ==
  ASSUME NEW es \in Seq(EventRow), NEW b, NEW s, IsWritten(b, s), RowCounts(es, b.row),
         BeforeCounts(es, b.row, b.before), b.before.total \in Nat
  PROVE  SummaryCounts(es, s)
<1>1. PICK row : row = b.row /\ RowHolds(row) /\ row \in DayRow
  BY DEF IsWritten, RowHolds
<1>2. SummaryHolds(s) /\ IsReport(s, row) /\ s.source = row.source
  BY <1>1, WrittenHolds DEF IsReport
<1>3. IsSameUse(s, row) /\ s.day = row.day
  BY <1>2 DEF IsSameUse, IsReport
<1>4. PICK T, E, F : T = Today(es, row) /\ E = Earlier(es, row) /\ F = SoFar(es, row)
  OBVIOUS
<1>5. T = Today(es, s) /\ F = SoFar(es, s)
  BY <1>3, <1>4, UsesAreOfDays
<1>6. T \in SUBSET (DOMAIN es) /\ E \in SUBSET (DOMAIN es) /\ F \in SUBSET (DOMAIN es)
  BY <1>4, UsesAreEvents
<1>7. F = E \cup T /\ E \cap T = {}
  <2>1. row.day \in Nat
    BY <1>1, UsageAssumption DEF DayRow
  <2>2. ASSUME NEW i \in DOMAIN es PROVE es[i].day \in Nat
    <3>1. PICK e \in EventRow : e = es[i]
      BY ElementOfSeq, LenProperties
    <3> QED BY <3>1, EventsHold, UsageAssumption
  <2>3. ASSUME NEW i \in DOMAIN es
        PROVE  (i \in F <=> i \in E \/ i \in T) /\ ~(i \in E /\ i \in T)
    <3>1. PICK d \in Nat, t \in Nat : d = es[i].day /\ t = row.day
      BY <2>1, <2>2, <2>3
    <3>2. /\ i \in F <=> IsUse(es[i], row) /\ d <= t
          /\ i \in E <=> IsUse(es[i], row) /\ d < t
          /\ i \in T <=> IsUse(es[i], row) /\ d = t
      BY <1>4, <2>3, <3>1 DEF Today, Earlier, SoFar
    <3>3. (d <= t <=> d < t \/ d = t) /\ ~(d < t /\ d = t)
      OBVIOUS
    <3> QED BY <3>2, <3>3
  <2> QED BY <1>6, <2>3
<1>8. ASSUME row.source = "pbs" PROVE s.total <= Counted(es, T)
  BY <1>1, <1>4, <1>8 DEF IsWritten, RowCounts
<1>9. ASSUME row.source = "pbsAcct" PROVE s.total <= Counted(es, F)
  <2>1. PICK f : f = [i \in F |-> es[i].used]
    OBVIOUS
  <2>2. PICK g : g = [i \in E |-> es[i].used]
    OBVIOUS
  <2>3. PICK h : h = [i \in T |-> es[i].used]
    OBVIOUS
  <2>4. IsFiniteSet(E) /\ IsFiniteSet(T) /\ IsFiniteSet(F)
    BY <1>6, TablesAreFinite
  <2>5. \A i \in F : f[i] \in Nat
    BY <1>6, <2>1, ElementOfSeq, LenProperties, EventsHold
  <2>6. (\A i \in E : g[i] \in Nat /\ g[i] = f[i]) /\ (\A i \in T : h[i] \in Nat /\ h[i] = f[i])
    BY <1>7, <2>1, <2>2, <2>3, <2>5
  <2>7. Total(f, F) = Total(f, E) + Total(f, T)
    <3>1. \A i \in E \cup T : f[i] \in Nat
      BY <1>7, <2>5
    <3>2. Total(f, E \cup T) = Total(f, E) + Total(f, T)
      BY <1>7, <2>4, <3>1, TotalOfUnion
    <3> QED BY <1>7, <3>2
  <2>8. Total(g, E) <= Total(f, E) /\ Total(g, E) \in Nat /\ Total(f, E) \in Nat
    <3>1. \A i \in E : f[i] \in Nat /\ g[i] \in Nat /\ g[i] <= f[i]
      BY <1>7, <2>5, <2>6
    <3> QED BY <2>4, <3>1, TotalIsMonotone
  <2>9. Total(h, T) <= Total(f, T) /\ Total(h, T) \in Nat /\ Total(f, T) \in Nat
    <3>1. \A i \in T : f[i] \in Nat /\ h[i] \in Nat /\ h[i] <= f[i]
      BY <1>7, <2>5, <2>6
    <3> QED BY <2>4, <3>1, TotalIsMonotone
  <2>10. b.before.total <= Total(g, E)
    BY <1>1, <1>4, <1>9, <2>2 DEF BeforeCounts, Counted
  <2>11. row.used <= Total(h, T)
    BY <1>1, <1>4, <1>9, <2>3 DEF RowCounts, Counted
  <2>12. PICK m \in Nat, n \in Nat : m = b.before.total /\ n = row.used
    BY <1>1 DEF DayRow
  <2>13. s.total = m + n
    BY <1>1, <1>9, <2>12 DEF IsWritten
  <2>14. PICK x, y, u, v : x = Total(g, E) /\ y = Total(h, T) /\ u = Total(f, E) /\ v = Total(f, T)
    OBVIOUS
  <2>15. m + n <= u + v
    BY <2>8, <2>9, <2>10, <2>11, <2>12, <2>14
  <2>16. s.total <= Total(f, F)
    BY <2>7, <2>13, <2>14, <2>15
  <2> QED BY <2>1, <2>16 DEF Counted
<1>10. ASSUME row.source = "openstack"
       PROVE  SeenBy(es, F, s.instances) /\ s.total = Total(s.instances, DOMAIN s.instances)
  <2>1. PICK r, o : r = row.instances /\ o = b.before.instances
    OBVIOUS
  <2>2. PICK w : w = s.instances
    OBVIOUS
  <2>3. w = [v \in DOMAIN r \cup DOMAIN o |-> IF v \in DOMAIN r THEN r[v] ELSE o[v]]
    BY <1>1, <1>10, <2>1, <2>2 DEF IsWritten, WithServers
  <2>4. SeenBy(es, T, r) /\ SeenBy(es, E, o)
    BY <1>1, <1>4, <1>10, <2>1 DEF RowCounts, BeforeCounts
  <2>5. SeenBy(es, F, w)
    BY <1>7, <2>3, <2>4 DEF SeenBy
  <2>6. s.total = Total(s.instances, DOMAIN s.instances)
    BY <1>1, <1>10 DEF IsWritten
  <2> QED BY <2>2, <2>5, <2>6
<1> QED BY <1>2, <1>5, <1>8, <1>9, <1>10 DEF SummaryCounts

\* A summary that is updated claims what was written.
LEMMA UpdatedCounts ==
  ASSUME NEW es, NEW b, NEW s, IsWritten(b, s), SummaryCounts(es, s), NEW t, SummaryHolds(t), IsFound(t, b.row),
         t.total = s.total, t.instances = s.instances, t.ids = s.ids
  PROVE  SummaryCounts(es, t)
<1>1. SummaryHolds(s) /\ IsReport(s, b.row)
  BY WrittenHolds
<1>2. /\ t.source = s.source /\ t.day = s.day /\ t.personal = s.personal
      /\ ~t.personal \/ t.source = "openstack" => t.slug = s.slug
  BY <1>1 DEF IsReport, IsFound
<1>3. IsSameUse(t, s)
  BY <1>2 DEF IsSameUse
<1>4. Today(es, t) = Today(es, s) /\ SoFar(es, t) = SoFar(es, s)
  BY <1>2, <1>3, UsesAreOfDays
<1> QED BY <1>2, <1>4 DEF SummaryCounts

LEMMA RemappedCounts ==
  ASSUME NEW es, NEW s, SummaryCounts(es, s), NEW t, IsRemapped(s, t)
  PROVE  SummaryCounts(es, t)
<1>1. IsSameUse(t, s) /\ t.day = s.day
  BY DEF IsRemapped, IsSameUse
<1>2. Today(es, t) = Today(es, s) /\ SoFar(es, t) = SoFar(es, s)
  BY <1>1, UsesAreOfDays
<1> QED BY <1>2 DEF SummaryCounts, IsRemapped

\* A step writes a summary, or leaves what it claims alone.
LEMMA SummaryCountsAre ==
  ASSUME UsageShapes, Next, NEW i \in DOMAIN summaries'
  PROVE  \/ i \in DOMAIN summaries /\ IsRemapped(summaries[i], summaries'[i])
         \/ \E j \in Job : \E s : /\ Write(j, s) /\ IsWritten(job[j], s)
                                  /\ SummaryHolds(summaries'[i]) /\ IsFound(summaries'[i], job[j].row)
                                  /\ summaries'[i].total = s.total /\ summaries'[i].instances = s.instances
                                  /\ summaries'[i].ids = s.ids
<1>1. TablesHold /\ JobsHold /\ BackfillsHold
  BY DEF UsageShapes
<1>2. PICK ss \in Seq(SummaryRow) : ss = summaries /\ \A k \in DOMAIN ss : SummaryHolds(ss[k])
  BY <1>1 DEF TablesHold
<1>3. ASSUME UNCHANGED summaries PROVE i \in DOMAIN summaries /\ IsRemapped(summaries[i], summaries'[i])
  BY <1>3 DEF IsRemapped
<1>4. ASSUME NEW j \in Job, Written(j)
      PROVE  \/ i \in DOMAIN summaries /\ IsRemapped(summaries[i], summaries'[i])
             \/ \E s : /\ Write(j, s) /\ IsWritten(job[j], s)
                       /\ SummaryHolds(summaries'[i]) /\ IsFound(summaries'[i], job[j].row)
                       /\ summaries'[i].total = s.total /\ summaries'[i].instances = s.instances
                       /\ summaries'[i].ids = s.ids
  <2>1. PICK s : Write(j, s) /\ IsWritten(job[j], s)
    BY <1>1, <1>4, WritesAre
  <2>2. PICK n, t : IsPut(job[j].existing, s, n, t) /\ IsFound(t, job[j].row)
    BY <1>1, <2>1, PutHolds
  <2>3. CASE i # n
    BY <2>2, <2>3 DEF IsPut, IsRemapped
  <2>4. CASE i = n
    <3>1. summaries'[i] = t /\ SummaryHolds(t)
      BY <1>1, <2>1, <2>2, <2>4, PutHolds DEF IsPut
    <3>2. t.total = s.total /\ t.instances = s.instances /\ t.ids = s.ids
      <4>1. CASE job[j].existing = 0
        BY <2>2, <4>1 DEF IsPut
      <4>2. CASE job[j].existing # 0
        <5>1. PICK o : o = summaries[job[j].existing]
          OBVIOUS
        <5>2. t = Updated(o, s) /\ o \in SummaryRow
          BY <1>2, <2>2, <4>2, <5>1 DEF IsPut, SummaryHolds
        <5>3. PICK a, b, c, d : a = s.total /\ b = s.count /\ c = s.ids /\ d = s.instances
          OBVIOUS
        <5>4. t = [o EXCEPT !.total = a, !.count = b, !.ids = c, !.instances = d]
          BY <5>2, <5>3 DEF Updated
        <5>5. t.total = a /\ t.instances = d /\ t.ids = c
          BY <5>2, <5>4 DEF SummaryRow
        <5> QED BY <5>3, <5>5
      <4> QED BY <4>1, <4>2
    <3> QED BY <2>1, <2>2, <3>1, <3>2
  <2> QED BY <2>3, <2>4
<1>5. ASSUME NEW I, NEW q \in ProjectId \cup {NoProject}, summaries' = Moved(summaries, I, q)
      PROVE  i \in DOMAIN summaries /\ IsRemapped(summaries[i], summaries'[i])
  BY <1>2, <1>5, MovedSummariesHold
<1>6. ASSUME NEW j \in Job, WriteProject(j)
      PROVE  i \in DOMAIN summaries /\ IsRemapped(summaries[i], summaries'[i])
  <2>1. PICK b : b = job[j]
    OBVIOUS
  <2>2. /\ b.existing \in ProjectId \cup {NoProject}
        /\ IF b.existing = NoProject THEN UNCHANGED summaries
           ELSE summaries' = Moved(summaries, {b.row}, b.existing)
    BY <1>1, <1>6, <2>1, MappingsAre
  <2> QED BY <1>3, <1>5, <2>2
<1>7. ASSUME NEW p \in DOMAIN backfill, BackfillSummaries(p)
      PROVE  i \in DOMAIN summaries /\ IsRemapped(summaries[i], summaries'[i])
  <2>1. PICK I : I = {k \in DOMAIN summaries : BackfillTakes(backfill[p].of, summaries[k])}
    OBVIOUS
  <2>2. summaries' = Moved(summaries, I, p) /\ p \in ProjectId
    BY <1>1, <1>7, <2>1, MovesAre DEF BackfillSummaries, BackfillsHold
  <2> QED BY <1>5, <2>2
<1>8. ASSUME NEW p \in DOMAIN backfill, NEW slug \in Slug, Resubmit(p, slug)
      PROVE  i \in DOMAIN summaries /\ IsRemapped(summaries[i], summaries'[i])
  <2>1. CASE slug = project[p].slug
    BY <1>3, <1>8, <2>1 DEF Resubmit
  <2>2. CASE slug # project[p].slug
    <3>1. PICK I : I = {k \in DOMAIN summaries : summaries[k].project = p}
      OBVIOUS
    <3>2. summaries' = Moved(summaries, I, NoProject)
      BY <1>8, <2>2, <3>1, MovesAre DEF Resubmit
    <3> QED BY <1>5, <3>2
  <2> QED BY <2>1, <2>2
<1> QED BY <1>3, <1>4, <1>6, <1>7, <1>8, WhoTouchesSummaries

SummariesCount == \A i \in DOMAIN summaries : SummaryCounts(events, summaries[i])
RowsCount == \A j \in Job : job[j].phase \in 1..4 => \A row \in job[j].todo : RowCounts(events, row)
LookUpsCount ==
  \A j \in Job : job[j].looked /\ job[j].phase \in 1..4 => BeforeCounts(events, job[j].row, job[j].before)

\* Whatever is stored, or about to be stored, claims no more than the events show.
CountsInStep == SummariesCount /\ RowsCount /\ LookUpsCount

LEMMA EventsGrow ==
  ASSUME UsageShapes, Next
  PROVE  events \in Seq(EventRow) /\ events' \in Seq(EventRow) /\ IsGrown(events, events')
BY TablesStay DEF UsageShapes, TablesHold, EventsKept, IsGrown

\* A new row of a phase is made of the events there are, and a new look-up
\* finds a summary there is.
LEMMA RowsStayCounted ==
  ASSUME UsageShapes, RowsCount, Next
  PROVE  RowsCount'
<1>1. TablesHold /\ JobsHold /\ ProjectsHold /\ SummariesKept
  BY TablesStay DEF UsageShapes
<1>2. PICK es, fs : es = events /\ fs = events' /\ es \in Seq(EventRow) /\ fs \in Seq(EventRow) /\ IsGrown(es, fs)
  BY EventsGrow
<1>3. SUFFICES ASSUME NEW j \in Job, NEW new, new = job'[j], new.phase \in 1..4, NEW row \in new.todo
               PROVE  RowCounts(fs, row)
  BY <1>2 DEF RowsCount
<1>4. PICK b : b = job[j] /\ JobHolds(b)
  BY <1>1 DEF JobsHold
<1>5. ASSUME row \in b.todo, b.phase = new.phase PROVE RowCounts(fs, row)
  <2>1. RowHolds(row) /\ RowCounts(es, row)
    BY <1>2, <1>3, <1>4, <1>5 DEF JobHolds, RowsCount
  <2> QED BY <1>2, <2>1, CountsGrow
<1>6. ~(new = NoJob) /\ ~(\E days : new = Started(days))
  <2>1. new.phase # 0
    BY <1>3
  <2> QED BY <2>1 DEF NoJob, Started
<1>7. CASE NextPhase(j)
  <2>1. IsNextPhase(b, new) /\ es = fs
    BY <1>1, <1>2, <1>3, <1>4, <1>7, NextPhaseHolds DEF NextPhase, tables
  <2>2. PICK n \in 1..4 : n = new.phase
    BY <1>3
  <2>3. new.todo = Rows(es, Phases[n], b.days)
    BY <1>2, <1>6, <2>1, <2>2 DEF IsNextPhase
  <2> QED BY <1>2, <1>3, <2>1, <2>3, PhaseRowsCount
<1>8. CASE Written(j) \/ WriteProject(j)
  <2>1. job[j].looked /\ job' = Done(j)
    <3>1. CASE Written(j)
      BY <1>1, <3>1, WritesAre DEF Write, IsWritten
    <3>2. CASE WriteProject(j)
      BY <3>2 DEF WriteProject
    <3> QED BY <1>8, <3>1, <3>2
  <2>2. new.phase = b.phase /\ new.todo \subseteq b.todo
    BY <1>1, <1>3, <1>4, <2>1, WriteFreesJob
  <2> QED BY <1>3, <1>5, <2>2
<1>9. ASSUME NEW r \in job[j].todo, LookUp(j, r) PROVE RowCounts(fs, row)
  <2>1. new.phase = b.phase /\ new.todo = b.todo
    BY <1>1, <1>3, <1>4, <1>9, LookUpsAre
  <2> QED BY <1>3, <1>5, <2>1
<1>10. ASSUME NEW i \in job[j].todo, FindProject(j, i) PROVE FALSE
  <2>1. new.phase = 5
    BY <1>1, <1>3, <1>10, FindingsAre
  <2> QED BY <1>3, <2>1
<1>11. CASE job'[j] = job[j]
  BY <1>3, <1>4, <1>5, <1>11
<1>12. CASE FindExisting(j)
  <2>1. new.phase = b.phase /\ new.todo = b.todo
    BY <1>1, <1>3, <1>4, <1>12, ExistingAre
  <2> QED BY <1>3, <1>5, <2>1
<1>13. ASSUME NEW i \in job[j].todo, MappingFails(j, i) PROVE FALSE
  BY <1>1, <1>3, <1>13, FailuresAre, WithoutRow
<1> QED BY <1>3, <1>6, <1>7, <1>8, <1>9, <1>10, <1>11, <1>12, <1>13, JobStepsAre

LEMMA LookUpsStayCounted ==
  ASSUME UsageShapes, SummariesCount, LookUpsCount, Next
  PROVE  LookUpsCount'
<1>1. TablesHold /\ JobsHold /\ ProjectsHold /\ SummariesKept
  BY TablesStay DEF UsageShapes
<1>2. PICK es, fs : es = events /\ fs = events' /\ es \in Seq(EventRow) /\ fs \in Seq(EventRow) /\ IsGrown(es, fs)
  BY EventsGrow
<1>3. SUFFICES ASSUME NEW j \in Job, NEW new, new = job'[j], new.looked, new.phase \in 1..4
               PROVE  BeforeCounts(fs, new.row, new.before)
  BY <1>2 DEF LookUpsCount
<1>4. CASE job'[j] = job[j]
  <2>1. JobHolds(new) /\ BeforeCounts(es, new.row, new.before)
    BY <1>1, <1>2, <1>3, <1>4 DEF JobsHold, LookUpsCount
  <2>2. new.before.total \in Nat
    BY <1>3, <2>1 DEF JobHolds
  <2> QED BY <1>2, <2>1, <2>2, CountsGrow
<1>5. ~(new = NoJob) /\ ~(\E days : new = Started(days))
  <2>1. new.phase # 0
    BY <1>3
  <2> QED BY <2>1 DEF NoJob, Started
<1>6. CASE NextPhase(j)
  BY <1>1, <1>3, <1>6, NextPhaseHolds DEF IsFree
<1>7. CASE Written(j) \/ WriteProject(j)
  <2>1. job[j].looked /\ job' = Done(j)
    <3>1. CASE Written(j)
      BY <1>1, <3>1, WritesAre DEF Write, IsWritten
    <3>2. CASE WriteProject(j)
      BY <3>2 DEF WriteProject
    <3> QED BY <1>7, <3>1, <3>2
  <2> QED BY <1>1, <1>3, <2>1, WriteFreesJob DEF IsFree
<1>8. ASSUME NEW r \in job[j].todo, LookUp(j, r) PROVE BeforeCounts(fs, new.row, new.before)
  <2>1. RowHolds(r) /\ new.row = r /\ IsBefore(new.before, r)
    BY <1>1, <1>3, <1>8, LookUpsAre
  <2>2. UNCHANGED events
    BY <1>8, Zenon DEF LookUp, tables
  <2>3. BeforeCounts(events, r, new.before)
    BY <1>1, <2>1, FoundBeforeCounts DEF SummariesCount
  <2> QED BY <1>2, <2>1, <2>2, <2>3
<1>9. ASSUME NEW i \in job[j].todo, FindProject(j, i) PROVE FALSE
  <2>1. new.phase = 5
    BY <1>1, <1>3, <1>9, FindingsAre
  <2> QED BY <1>3, <2>1
<1>10. CASE FindExisting(j)
  <2>1. PICK b : b = job[j] /\ JobHolds(b) /\ b.looked /\ b.phase \in 1..4 /\ new.row = b.row /\ new.before = b.before
    BY <1>1, <1>3, <1>10, ExistingAre DEF JobsHold
  <2>2. RowHolds(b.row) /\ b.before.total \in Nat /\ BeforeCounts(es, b.row, b.before)
    BY <1>2, <2>1 DEF JobHolds, LookUpsCount
  <2> QED BY <1>2, <2>1, <2>2, CountsGrow
<1>11. ASSUME NEW i \in job[j].todo, MappingFails(j, i) PROVE FALSE
  BY <1>1, <1>3, <1>11, FailuresAre, WithoutRow DEF IsFree
<1> QED BY <1>3, <1>4, <1>5, <1>6, <1>7, <1>8, <1>9, <1>10, <1>11, JobStepsAre

LEMMA SummariesStayCounted ==
  ASSUME UsageShapes, SummariesCount, RowsCount, LookUpsCount, Next
  PROVE  SummariesCount'
<1>1. TablesHold /\ JobsHold
  BY DEF UsageShapes
<1>2. PICK es, fs : es = events /\ fs = events' /\ es \in Seq(EventRow) /\ fs \in Seq(EventRow) /\ IsGrown(es, fs)
  BY EventsGrow
<1>3. SUFFICES ASSUME NEW i \in DOMAIN summaries', NEW t, t = summaries'[i]
               PROVE  SummaryCounts(fs, t)
  BY <1>2 DEF SummariesCount
<1>4. ASSUME SummaryCounts(es, t), SummaryHolds(t) PROVE SummaryCounts(fs, t)
  BY <1>2, <1>4, CountsGrow
<1>5. ASSUME i \in DOMAIN summaries, IsRemapped(summaries[i], t) PROVE SummaryCounts(fs, t)
  <2>1. SummaryCounts(es, t)
    BY <1>2, <1>5, RemappedCounts DEF SummariesCount
  <2>2. SummaryHolds(t)
    BY <1>3, TablesStay DEF TablesHold
  <2> QED BY <1>4, <2>1, <2>2
<1>6. ASSUME NEW j \in Job, NEW s, Write(j, s), IsWritten(job[j], s), SummaryHolds(t), IsFound(t, job[j].row),
             t.total = s.total, t.instances = s.instances, t.ids = s.ids
      PROVE  SummaryCounts(fs, t)
  <2>1. PICK b : b = job[j] /\ JobHolds(b)
    BY <1>1 DEF JobsHold
  <2>2. b.looked /\ b.phase \in 1..4 /\ b.row \in b.todo
    BY <1>6, <2>1 DEF IsWritten
  <2>3. b.before.total \in Nat
    BY <2>1, <2>2 DEF JobHolds
  <2>4. RowCounts(es, b.row) /\ BeforeCounts(es, b.row, b.before)
    BY <1>2, <2>1, <2>2 DEF RowsCount, LookUpsCount
  <2>5. SummaryCounts(es, s)
    BY <1>2, <1>6, <2>1, <2>3, <2>4, WrittenCounts
  <2>6. SummaryCounts(es, t)
    BY <1>6, <2>1, <2>5, UpdatedCounts
  <2> QED BY <1>4, <1>6, <2>6
<1> QED BY <1>3, <1>5, <1>6, SummaryCountsAre

\* Whatever runs twice, overlaps or is cut off, every summary, every row of a
\* phase and every look-up claims at most what the events show by then.
THEOREM CountsStayInStep == Spec => []CountsInStep
<1>1. Init => CountsInStep
  <2> SUFFICES ASSUME Init PROVE SummariesCount /\ RowsCount /\ LookUpsCount
    BY DEF CountsInStep
  <2>1. SummariesCount
    BY NoServers DEF Init, SummariesCount
  <2>2. \A j \in Job : job[j].phase = 0
    BY DEF Init, NoJob
  <2> QED BY <2>1, <2>2 DEF RowsCount, LookUpsCount
<1>2. UsageShapes /\ CountsInStep /\ [Next]_vars => CountsInStep'
  <2>1. ASSUME UNCHANGED vars, CountsInStep PROVE CountsInStep'
    BY <2>1 DEF vars, CountsInStep, SummariesCount, RowsCount, LookUpsCount
  <2> QED BY <2>1, SummariesStayCounted, RowsStayCounted, LookUpsStayCounted DEF CountsInStep
<1> QED BY <1>1, <1>2, UsageHasItsShapes, PTL DEF Spec

\* What every instance was seen with is at most the most it was seen with.
LEMMA SeenIsAtMost ==
  ASSUME NEW es \in Seq(EventRow), NEW I \in SUBSET (DOMAIN es), NEW s \in Servers, SeenBy(es, I, s), NEW m,
         m = [v \in {es[i].instance : i \in I} |-> Max({es[i].used : i \in {k \in I : es[k].instance = v}})]
  PROVE  Total(s, DOMAIN s) <= Total(m, DOMAIN m)
<1>1. PICK V : V = {es[i].instance : i \in I}
  OBVIOUS
<1>2. IsFiniteSet(I) /\ \A i \in I : es[i].used \in Nat
  BY TablesAreFinite, ElementOfSeq, LenProperties, EventsHold
<1>3. IsFiniteSet(V)
  <2>1. PICK f : f = [i \in I |-> es[i].instance]
    OBVIOUS
  <2>2. f \in Surjection(I, V)
    BY <1>1, <2>1 DEF Surjection
  <2> QED BY <1>2, <2>2, FS_Surjection
<1>4. ASSUME NEW v \in V
      PROVE  m[v] \in Nat /\ \A i \in I : es[i].instance = v => es[i].used <= m[v]
  <2>1. PICK U : U = {es[i].used : i \in {k \in I : es[k].instance = v}}
    OBVIOUS
  <2>2. m[v] = Max(U)
    BY <1>1, <2>1
  <2>3. U \subseteq Nat /\ U # {}
    BY <1>1, <1>2, <2>1
  <2>4. IsFiniteSet(U)
    <3>1. PICK K : K = {k \in I : es[k].instance = v} /\ IsFiniteSet(K)
      BY <1>2, FS_Subset
    <3>2. PICK f : f = [i \in K |-> es[i].used]
      OBVIOUS
    <3>3. f \in Surjection(K, U)
      BY <2>1, <3>1, <3>2 DEF Surjection
    <3> QED BY <3>1, <3>3, FS_Surjection
  <2>5. Max(U) \in U /\ \A n \in U : n <= Max(U)
    BY <2>3, <2>4, MaxIsGreatest
  <2>6. \A i \in I : es[i].instance = v => es[i].used \in U
    BY <2>1
  <2> QED BY <2>2, <2>3, <2>5, <2>6
<1>5. DOMAIN m = V
  BY <1>1
<1>6. ASSUME NEW v \in DOMAIN s PROVE v \in V /\ s[v] \in Nat /\ s[v] <= m[v]
  <2>1. PICK i \in I : es[i].instance = v /\ es[i].used = s[v]
    BY <1>6 DEF SeenBy
  <2>2. v \in V /\ s[v] \in Nat
    BY <1>1, <1>2, <2>1
  <2> QED BY <1>4, <2>1, <2>2
<1> QED BY <1>3, <1>4, <1>5, <1>6, TotalIsMonotone

\* No summary claims more than its events used.
THEOREM NothingIsOverCounted == Spec => []NoOverCount
<1>1. UsageShapes /\ CountsInStep => NoOverCount
  <2> SUFFICES ASSUME TablesHold, SummariesCount, NEW k \in DOMAIN summaries, NEW s, s = summaries[k]
               PROVE  s.total <= CASE s.source = "pbs"     -> Counted(events, Today(events, s))
                                   [] s.source = "pbsAcct" -> Counted(events, SoFar(events, s))
                                   [] OTHER                -> MostPerInstance(SoFar(events, s))
    <3>1. \A s : /\ {i \in About(s) : events[i].day <= s.day} = SoFar(events, s)
                 /\ {i \in About(s) : events[i].day = s.day} = Today(events, s)
      BY DEF About, SoFar, Today
    <3> QED BY <3>1 DEF UsageShapes, CountsInStep, NoOverCount
  <2>1. SummaryHolds(s) /\ SummaryCounts(events, s)
    BY DEF TablesHold, SummariesCount
  <2>2. s.source \in {"pbs", "pbsAcct", "openstack"} /\ s.instances \in Servers
    BY <2>1 DEF SummaryHolds, SummaryRow, Source
  <2>3. ASSUME s.source = "openstack" PROVE s.total <= MostPerInstance(SoFar(events, s))
    <3>1. PICK I : I = SoFar(events, s) /\ I \in SUBSET (DOMAIN events)
      BY UsesAreEvents
    <3>2. SeenBy(events, I, s.instances) /\ s.total = Total(s.instances, DOMAIN s.instances)
      BY <2>1, <2>3, <3>1 DEF SummaryCounts
    <3>3. PICK m : m = [v \in {events[i].instance : i \in I} |->
                          Max({events[i].used : i \in {n \in I : events[n].instance = v}})]
      OBVIOUS
    <3>4. MostPerInstance(I) = Total(m, DOMAIN m)
      BY <3>3 DEF MostPerInstance
    <3>5. Total(s.instances, DOMAIN s.instances) <= Total(m, DOMAIN m)
      BY <2>2, <3>1, <3>2, <3>3, SeenIsAtMost DEF TablesHold
    <3> QED BY <3>1, <3>2, <3>4, <3>5
  <2> QED BY <2>1, <2>2, <2>3 DEF SummaryCounts
<1> QED BY <1>1, UsageHasItsShapes, CountsStayInStep, PTL

-----------------------------------------------------------------------------
(* What is exact: uses, and the last that was seen of them.                *)

\* A person's PBS usage has a user name.
IsNamed(r) == r.personal /\ r.source # "openstack" => Username(r.ids) # None

\* The usage of r comes under one slug, personal or not, and under a user name
\* if it is a person's PBS usage.
IsOne(es, r) ==
  /\ \A i, k \in DOMAIN es : IsUse(es[i], r) /\ IsUse(es[k], r) =>
       es[i].slug = es[k].slug /\ es[i].personal = es[k].personal
  /\ IsNamed(r)

LEMMA OneOfSameUse ==
  ASSUME NEW es, NEW r, NEW t, IsSameUse(r, t)
  PROVE  /\ IsOne(es, r) => IsOne(es, t)
         /\ IsNamed(r) => IsNamed(t)
<1>1. \A e : IsUse(e, r) <=> IsUse(e, t)
  BY UseIsSame
<1> QED BY <1>1 DEF IsOne, IsNamed, IsSameUse

LEMMA OneBefore ==
  ASSUME NEW es, NEW fs, IsGrown(es, fs), NEW r, IsOne(fs, r)
  PROVE  IsOne(es, r)
<1>1. \A i \in DOMAIN es : /\ i \in DOMAIN fs /\ fs[i].slug = es[i].slug /\ fs[i].personal = es[i].personal
                           /\ IsUse(es[i], r) => IsUse(fs[i], r)
  BY DEF IsGrown, IsSameEvent, IsReport, IsUse
<1> QED BY <1>1 DEF IsOne

LEMMA SameUses ==
  ASSUME NEW r, NEW s, IsSameUse(r, s)
  PROVE  IsSameUse(s, r) /\ \A t : IsSameUse(s, t) => IsSameUse(r, t)
BY DEF IsSameUse

LEMMA UseOfOwn ==
  ASSUME NEW e, NEW s, IsUse(e, s), e.personal = s.personal
  PROVE  IsSameUse(e, s)
BY DEF IsUse, IsSameUse

LEMMA UseOfItself ==
  ASSUME NEW e, NEW s, IsSameUse(e, s)
  PROVE  IsUse(e, s) /\ IsUse(e, e)
BY DEF IsUse, IsSameUse

\* If the usage of s comes from the event k, so does that of any other event of it.
LEMMA UsesOfOne ==
  ASSUME NEW es \in Seq(EventRow), NEW s, IsOne(es, s), NEW i \in DOMAIN es, IsUse(es[i], s),
         NEW k \in DOMAIN es, IsUse(es[k], s), es[k].personal = s.personal
  PROVE  IsSameUse(es[i], s) /\ es[i].slug = es[k].slug /\ IsOne(es, es[i])
<1>1. es[i].slug = es[k].slug /\ es[i].personal = s.personal
  BY DEF IsOne
<1>2. IsSameUse(es[i], s)
  BY <1>1, UseOfOwn
<1> QED BY <1>1, <1>2, SameUses, OneOfSameUse

\* The same if it is the usage of i that is plain.
LEMMA OneIsAbout ==
  ASSUME NEW es \in Seq(EventRow), NEW s, s.personal \in BOOLEAN, NEW i \in DOMAIN es, IsOne(es, es[i]), IsUse(es[i], s),
         NEW k \in DOMAIN es, IsUse(es[k], s), es[k].personal = s.personal
  PROVE  IsSameUse(es[i], s)
<1>1. PICK e, f : e = es[i] /\ f = es[k] /\ e.personal \in BOOLEAN /\ f.personal \in BOOLEAN
  BY ElementOfSeq, LenProperties, EventsHold
<1>2. CASE s.source = "openstack"
  <2>1. IsUse(f, e) /\ IsUse(e, e)
    BY <1>1, <1>2 DEF IsUse
  <2>2. e.personal = f.personal
    BY <1>1, <2>1 DEF IsOne
  <2> QED BY <1>1, <2>2, UseOfOwn
<1>3. CASE s.source # "openstack"
  <2>1. e.personal = s.personal
    BY <1>1, <1>3 DEF IsUse
  <2> QED BY <1>1, <2>1, UseOfOwn
<1> QED BY <1>2, <1>3

\* f has the instances seen in the events I, each as it was last seen.
LastSeen(es, I, f) ==
  /\ \A v : v \in DOMAIN f <=> v # None /\ \E i \in I : es[i].instance = v
  /\ \A v \in DOMAIN f : \E i \in I : /\ es[i].instance = v /\ f[v] = es[i].used
                                      /\ \A k \in I : es[k].instance = v => k <= i

LEMMA InstancesAreLast ==
  ASSUME NEW es \in Seq(EventRow), NEW I \in SUBSET (DOMAIN es)
  PROVE  LastSeen(es, I, Instances(es, I))
<1>1. PICK named : named = {i \in I : es[i].instance # None}
  OBVIOUS
<1>2. PICK V : V = {es[i].instance : i \in named}
  OBVIOUS
<1>3. PICK s : s = [v \in V |-> es[Max({i \in named : es[i].instance = v})].used]
  OBVIOUS
<1>4. Instances(es, I) = s
  BY <1>1, <1>2, <1>3 DEF Instances
<1>5. ASSUME NEW v \in V
      PROVE  \E i \in I : es[i].instance = v /\ s[v] = es[i].used /\ \A k \in I : es[k].instance = v => k <= i
  <2>1. PICK M : M = {i \in named : es[i].instance = v}
    OBVIOUS
  <2>2. M # {} /\ M \in SUBSET (DOMAIN es) /\ M \subseteq named
    BY <1>1, <1>2, <1>5, <2>1
  <2>3. IsFiniteSet(M) /\ M \subseteq Nat
    BY <2>2, TablesAreFinite
  <2>4. PICK i \in M : i = Max(M) /\ \A k \in M : k <= i
    BY <2>2, <2>3, MaxIsGreatest
  <2>5. s[v] = es[i].used /\ es[i].instance = v /\ i \in I /\ v # None
    BY <1>1, <1>3, <1>5, <2>1, <2>4
  <2>6. \A k \in I : es[k].instance = v => k \in M
    BY <1>1, <2>1, <2>5
  <2> QED BY <2>4, <2>5, <2>6
<1>6. \A v : v \in V <=> v # None /\ \E i \in I : es[i].instance = v
  BY <1>1, <1>2
<1>7. DOMAIN s = V
  BY <1>3
<1>8. LastSeen(es, I, s)
  BY <1>5, <1>6, <1>7 DEF LastSeen
<1> QED BY <1>4, <1>8

LEMMA LastSeenIsOne ==
  ASSUME NEW es \in Seq(EventRow), NEW I \in SUBSET (DOMAIN es), NEW f \in Servers, LastSeen(es, I, f),
         NEW g \in Servers, LastSeen(es, I, g)
  PROVE  f = g
<1>1. I \subseteq Nat
  BY TablesAreFinite
<1>2. DOMAIN f = DOMAIN g
  BY DEF LastSeen
<1>3. ASSUME NEW v \in DOMAIN f PROVE f[v] = g[v]
  <2>1. PICK i \in I : /\ es[i].instance = v /\ f[v] = es[i].used /\ \A k \in I : es[k].instance = v => k <= i
    BY DEF LastSeen
  <2>2. PICK k \in I : /\ es[k].instance = v /\ g[v] = es[k].used /\ \A n \in I : es[n].instance = v => n <= k
    BY <1>2 DEF LastSeen
  <2>3. i <= k /\ k <= i /\ i \in Nat /\ k \in Nat
    BY <1>1, <2>1, <2>2
  <2>4. i = k
    BY <2>3
  <2> QED BY <2>1, <2>2, <2>4
<1>4. f \in [DOMAIN f -> Nat] /\ g \in [DOMAIN g -> Nat]
  BY ServersAre
<1> QED BY <1>2, <1>3, <1>4

LEMMA LastSeenStays ==
  ASSUME NEW es, NEW fs, IsGrown(es, fs), NEW I \in SUBSET (DOMAIN es), NEW f, LastSeen(es, I, f)
  PROVE  LastSeen(fs, I, f)
<1>1. \A i \in I : fs[i].instance = es[i].instance /\ fs[i].used = es[i].used
  BY DEF IsGrown, IsSameEvent
<1> QED BY <1>1 DEF LastSeen

LEMMA CountedStays ==
  ASSUME NEW es, NEW fs, IsGrown(es, fs), NEW I \in SUBSET (DOMAIN es)
  PROVE  Counted(fs, I) = Counted(es, I)
<1>1. PICK f : f = [i \in I |-> es[i].used]
  OBVIOUS
<1>2. PICK g : g = [i \in I |-> fs[i].used]
  OBVIOUS
<1>3. \A i \in I : es[i].used = fs[i].used
  BY DEF IsGrown, IsSameEvent
<1>4. f = g
  BY <1>1, <1>2, <1>3
<1> QED BY <1>1, <1>2, <1>4 DEF Counted

LEMMA CountedTogether ==
  ASSUME NEW es \in Seq(EventRow), NEW E, NEW T, NEW F \in SUBSET (DOMAIN es), F = E \cup T, E \cap T = {}
  PROVE  Counted(es, F) = Counted(es, E) + Counted(es, T)
<1>1. PICK f : f = [i \in F |-> es[i].used]
  OBVIOUS
<1>2. E \in SUBSET (DOMAIN es) /\ T \in SUBSET (DOMAIN es) /\ IsFiniteSet(E) /\ IsFiniteSet(T)
  BY TablesAreFinite
<1>3. \A i \in F : f[i] \in Nat
  BY <1>1, ElementOfSeq, LenProperties, EventsHold
<1>4. Total(f, F) = Total(f, E) + Total(f, T)
  <2>1. \A i \in E \cup T : f[i] \in Nat
    BY <1>3
  <2>2. Total(f, E \cup T) = Total(f, E) + Total(f, T)
    BY <1>2, <2>1, TotalOfUnion
  <2> QED BY <2>2
<1>5. ASSUME NEW I \in SUBSET F, IsFiniteSet(I) PROVE Total(f, I) = Counted(es, I)
  <2>1. PICK g : g = [i \in I |-> es[i].used]
    OBVIOUS
  <2>2. \A i \in I : g[i] = f[i] /\ f[i] \in Nat /\ g[i] \in Nat
    BY <1>1, <1>3, <1>5, <2>1
  <2>3. \A i \in I : f[i] <= g[i] /\ g[i] <= f[i]
    BY <2>2
  <2>4. /\ Total(g, I) <= Total(f, I) /\ Total(f, I) <= Total(g, I)
        /\ Total(g, I) \in Nat /\ Total(f, I) \in Nat
    BY <1>5, <2>2, <2>3, TotalIsMonotone
  <2>5. PICK a, b : a = Total(f, I) /\ b = Total(g, I)
    OBVIOUS
  <2>6. a = b
    BY <2>4, <2>5
  <2> QED BY <2>1, <2>5, <2>6 DEF Counted
<1>6. Total(f, E) = Counted(es, E) /\ Total(f, T) = Counted(es, T)
  BY <1>2, <1>5
<1>7. Total(f, F) = Counted(es, F)
  BY <1>1 DEF Counted
<1> QED BY <1>4, <1>6, <1>7

-----------------------------------------------------------------------------
(* What is exact: rows, look-ups and summaries.                            *)

\* A row shows what its day's events used, the look-up what the earlier ones
\* did, and the summary both.
RowExact(es, row) ==
  IF row.source = "openstack" THEN LastSeen(es, Today(es, row), row.instances)
  ELSE row.used = Counted(es, Today(es, row))

BeforeExact(es, row, before) ==
  /\ row.source = "pbsAcct" => before.total = Counted(es, Earlier(es, row))
  /\ row.source = "openstack" => LastSeen(es, IF row.personal THEN {} ELSE Earlier(es, row), before.instances)

SummaryExact(es, s) ==
  /\ s.source = "pbs" => s.total = Counted(es, Today(es, s))
  /\ s.source = "pbsAcct" => s.total = Counted(es, SoFar(es, s))
  /\ s.source = "openstack" =>
       /\ LastSeen(es, IF s.personal THEN Today(es, s) ELSE SoFar(es, s), s.instances)
       /\ s.total = Total(s.instances, DOMAIN s.instances)

LEMMA UsesStay ==
  ASSUME NEW es \in Seq(EventRow), NEW fs \in Seq(EventRow), IsGrown(es, fs), NEW r, r.day \in Nat,
         \A i \in DOMAIN fs \ DOMAIN es : r.day < fs[i].day
  PROVE  Today(fs, r) = Today(es, r) /\ Earlier(fs, r) = Earlier(es, r) /\ SoFar(fs, r) = SoFar(es, r)
<1>1. ASSUME NEW i \in DOMAIN es
      PROVE  i \in DOMAIN fs /\ fs[i].day = es[i].day /\ (IsUse(es[i], r) <=> IsUse(fs[i], r))
  BY DEF IsGrown, IsSameEvent, IsReport, IsUse
<1>2. ASSUME NEW i \in DOMAIN fs PROVE fs[i].day \in Nat
  <2>1. PICK e \in EventRow : e = fs[i]
    BY ElementOfSeq, LenProperties
  <2> QED BY <2>1, EventsHold, UsageAssumption
<1>3. ASSUME NEW i \in DOMAIN fs, i \notin DOMAIN es
      PROVE  ~(fs[i].day = r.day) /\ ~(fs[i].day < r.day) /\ ~(fs[i].day <= r.day)
  <2>1. PICK d \in Nat, t \in Nat : d = fs[i].day /\ t = r.day
    BY <1>2
  <2> QED BY <1>3, <2>1
<1> QED BY <1>1, <1>3 DEF Today, Earlier, SoFar

LEMMA ExactStays ==
  ASSUME NEW es \in Seq(EventRow), NEW fs \in Seq(EventRow), IsGrown(es, fs), NEW r, r.day \in Nat,
         \A i \in DOMAIN fs \ DOMAIN es : r.day < fs[i].day
  PROVE  /\ RowExact(es, r) => RowExact(fs, r)
         /\ \A before : BeforeExact(es, r, before) => BeforeExact(fs, r, before)
         /\ SummaryExact(es, r) => SummaryExact(fs, r)
<1>1. PICK T, E, F : T = Today(es, r) /\ E = Earlier(es, r) /\ F = SoFar(es, r)
  OBVIOUS
<1>2. T = Today(fs, r) /\ E = Earlier(fs, r) /\ F = SoFar(fs, r)
  BY <1>1, UsesStay
<1>3. T \in SUBSET (DOMAIN es) /\ E \in SUBSET (DOMAIN es) /\ F \in SUBSET (DOMAIN es) /\ {} \in SUBSET (DOMAIN es)
  BY <1>1, UsesAreEvents
<1>4. Counted(es, T) = Counted(fs, T) /\ Counted(es, E) = Counted(fs, E) /\ Counted(es, F) = Counted(fs, F)
  BY <1>3, CountedStays
<1>5. \A I \in SUBSET (DOMAIN es) : \A f : LastSeen(es, I, f) => LastSeen(fs, I, f)
  BY LastSeenStays
<1>6. RowExact(es, r) => RowExact(fs, r)
  BY <1>1, <1>2, <1>3, <1>4, <1>5 DEF RowExact
<1>7. ASSUME NEW before, BeforeExact(es, r, before) PROVE BeforeExact(fs, r, before)
  <2>1. PICK I \in SUBSET (DOMAIN es) : I = IF r.personal THEN {} ELSE E
    BY <1>3
  <2> QED BY <1>1, <1>2, <1>4, <1>5, <1>7, <2>1 DEF BeforeExact
<1>8. ASSUME SummaryExact(es, r) PROVE SummaryExact(fs, r)
  <2>1. PICK I \in SUBSET (DOMAIN es) : I = IF r.personal THEN T ELSE F
    BY <1>3
  <2> QED BY <1>1, <1>2, <1>4, <1>5, <1>8, <2>1 DEF SummaryExact
<1> QED BY <1>6, <1>7, <1>8

LEMMA ExactOfSameUse ==
  ASSUME NEW es, NEW s, SummaryExact(es, s), NEW t, IsSameUse(s, t), s.day = t.day, t.total = s.total,
         t.instances = s.instances
  PROVE  SummaryExact(es, t)
<1>1. Today(es, s) = Today(es, t) /\ SoFar(es, s) = SoFar(es, t)
  BY UsesAreOfDays
<1>2. s.source = t.source /\ (s.personal <=> t.personal)
  BY DEF IsSameUse
<1> QED BY <1>1, <1>2 DEF SummaryExact

LEMMA UsesTogether ==
  ASSUME NEW es \in Seq(EventRow), NEW r, r.day \in Nat
  PROVE  SoFar(es, r) = Earlier(es, r) \cup Today(es, r) /\ Earlier(es, r) \cap Today(es, r) = {}
<1>1. PICK T, E, F : T = Today(es, r) /\ E = Earlier(es, r) /\ F = SoFar(es, r)
  OBVIOUS
<1>2. T \in SUBSET (DOMAIN es) /\ E \in SUBSET (DOMAIN es) /\ F \in SUBSET (DOMAIN es)
  BY <1>1, UsesAreEvents
<1>3. ASSUME NEW i \in DOMAIN es
      PROVE  (i \in F <=> i \in E \/ i \in T) /\ ~(i \in E /\ i \in T)
  <2>1. PICK e \in EventRow : e = es[i]
    BY ElementOfSeq, LenProperties
  <2>2. PICK d \in Nat, t \in Nat : d = es[i].day /\ t = r.day
    BY <2>1, EventsHold, UsageAssumption
  <2>3. /\ i \in F <=> IsUse(es[i], r) /\ d <= t
        /\ i \in E <=> IsUse(es[i], r) /\ d < t
        /\ i \in T <=> IsUse(es[i], r) /\ d = t
    BY <1>1, <1>3, <2>2 DEF Today, Earlier, SoFar
  <2>4. (d <= t <=> d < t \/ d = t) /\ ~(d < t /\ d = t)
    OBVIOUS
  <2> QED BY <2>3, <2>4
<1> QED BY <1>1, <1>2, <1>3

LEMMA LastSeenTogether ==
  ASSUME NEW es, NEW E, E \subseteq Nat, NEW T, T \subseteq Nat, \A i \in E, k \in T : i < k,
         NEW f, LastSeen(es, T, f), NEW g, LastSeen(es, E, g),
         NEW w, w = [v \in DOMAIN f \cup DOMAIN g |-> IF v \in DOMAIN f THEN f[v] ELSE g[v]]
  PROVE  LastSeen(es, E \cup T, w)
<1>1. \A v : v \in DOMAIN w <=> v # None /\ \E i \in E \cup T : es[i].instance = v
  BY DEF LastSeen
<1>2. ASSUME NEW v \in DOMAIN w, v \in DOMAIN f
      PROVE  \E i \in E \cup T : /\ es[i].instance = v /\ w[v] = es[i].used
                                 /\ \A k \in E \cup T : es[k].instance = v => k <= i
  <2>1. PICK i \in T : es[i].instance = v /\ f[v] = es[i].used /\ \A k \in T : es[k].instance = v => k <= i
    BY <1>2 DEF LastSeen
  <2>2. w[v] = f[v]
    BY <1>2
  <2>3. ASSUME NEW k \in E PROVE k <= i
    <3>1. k \in Nat /\ i \in Nat /\ k < i
      OBVIOUS
    <3> QED BY <3>1
  <2> QED BY <2>1, <2>2, <2>3
<1>3. ASSUME NEW v \in DOMAIN w, v \notin DOMAIN f
      PROVE  \E i \in E \cup T : /\ es[i].instance = v /\ w[v] = es[i].used
                                 /\ \A k \in E \cup T : es[k].instance = v => k <= i
  <2>1. v \in DOMAIN g /\ w[v] = g[v]
    BY <1>3
  <2>2. PICK i \in E : es[i].instance = v /\ g[v] = es[i].used /\ \A k \in E : es[k].instance = v => k <= i
    BY <2>1 DEF LastSeen
  <2>3. \A k \in T : es[k].instance # v
    BY <1>1, <1>3 DEF LastSeen
  <2> QED BY <2>1, <2>2, <2>3
<1> QED BY <1>1, <1>2, <1>3 DEF LastSeen

\* A row is made of an event that comes under a slug.
IsFromEvents(es, row) == \E i \in DOMAIN es : IsReport(row, es[i]) /\ es[i].slug # NoSlug

LEMMA PhaseRowsExact ==
  ASSUME NEW es \in Seq(EventRow), NEW n \in 1..4, NEW days, NEW row \in Rows(es, Phases[n], days)
  PROVE  IsFromEvents(es, row) /\ (IsOne(es, row) => RowExact(es, row))
<1>1. PICK I \in SUBSET (DOMAIN es) : IsRowOf(row, Phases[n], es, days, I)
  BY RowsAreOfEvents
<1>2. PICK i \in I : /\ IsReport(row, es[i]) /\ row.used = Counted(es, I)
                     /\ row.source = "openstack" => row.instances = Instances(es, I)
  BY <1>1, RowsHold DEF IsRowOf
<1>3. es[i].slug # NoSlug /\ i \in DOMAIN es
  BY <1>1 DEF IsRowOf, InPhase
<1>4. IsFromEvents(es, row)
  BY <1>2, <1>3 DEF IsFromEvents
<1>5. PICK J : J = Today(es, row) /\ J \in SUBSET (DOMAIN es)
  BY UsesAreEvents
<1>6. ASSUME NEW k \in DOMAIN es, IsOne(es, row) PROVE k \in I <=> k \in J
  <2>1. PICK e, f : e = es[i] /\ f = es[k]
    OBVIOUS
  <2>2. e \in EventRow /\ f \in EventRow
    BY <1>3, <2>1, ElementOfSeq, LenProperties
  <2>3. e.personal \in BOOLEAN /\ f.personal \in BOOLEAN /\ e.source \in Source /\ f.source \in Source
    BY <2>2, EventsHold
  <2>4. InPhase(Phases[n], e) /\ e.day \in days /\ IsReport(row, e)
    BY <1>1, <1>2, <2>1 DEF IsRowOf
  <2>5. k \in I <=> f.day \in days /\ InPhase(Phases[n], f) /\ GroupKey(Phases[n], f) = GroupKey(Phases[n], e)
    BY <1>1, <2>1 DEF IsRowOf
  <2>6. k \in J <=> IsUse(f, e) /\ f.day = e.day
    BY <1>5, <2>1, <2>4 DEF Today, IsReport, IsUse
  <2>7. IsUse(e, e) => (IsUse(f, e) => f.slug = e.slug /\ f.personal = e.personal)
    BY <1>3, <1>6, <2>1, <2>4 DEF IsOne, IsReport, IsUse
  <2>8. CASE n = 1
    <3>1. InPhase("acct", e) /\ Phases[n] = "acct"
      BY <2>4, <2>8, PhaseNames
    <3> QED BY <2>4, <2>5, <2>6, <2>7, <3>1 DEF InPhase, GroupKey, IsUse
  <2>9. CASE n = 2
    <3>1. InPhase("personal", e) /\ Phases[n] = "personal"
      BY <2>4, <2>9, PhaseNames
    <3> QED BY <2>4, <2>5, <2>6, <2>7, <3>1 DEF InPhase, GroupKey, IsUse
  <2>10. CASE n = 3
    <3>1. InPhase("openstack", e) /\ Phases[n] = "openstack"
      BY <2>4, <2>10, PhaseNames
    <3> QED BY <2>4, <2>5, <2>6, <2>7, <3>1 DEF InPhase, GroupKey, IsUse
  <2>11. CASE n = 4
    <3>1. InPhase("general", e) /\ Phases[n] = "general"
      BY <2>4, <2>11, PhaseNames
    <3> QED BY <2>3, <2>4, <2>5, <2>6, <2>7, <3>1 DEF InPhase, GroupKey, IsUse, Source
  <2> QED BY <2>8, <2>9, <2>10, <2>11
<1>7. ASSUME IsOne(es, row) PROVE RowExact(es, row)
  <2>1. I = J
    BY <1>5, <1>6, <1>7
  <2>2. LastSeen(es, I, Instances(es, I))
    BY InstancesAreLast
  <2> QED BY <1>2, <1>5, <2>1, <2>2 DEF RowExact
<1> QED BY <1>4, <1>7

\* What is written shows the day's row and what came before, if the events are
\* in order of their days.
LEMMA WrittenExact ==
  ASSUME NEW es \in Seq(EventRow), \A i, k \in DOMAIN es : i < k => es[i].day <= es[k].day,
         NEW b, NEW s, IsWritten(b, s), b.before.total \in Nat, RowExact(es, b.row), BeforeExact(es, b.row, b.before)
  PROVE  SummaryExact(es, s)
<1>1. PICK row : row = b.row /\ RowHolds(row) /\ row \in DayRow
  BY DEF IsWritten, RowHolds
<1>2. IsReport(s, row) /\ s.source = row.source /\ s.personal = row.personal
  BY <1>1, WrittenHolds DEF IsReport
<1>3. IsSameUse(s, row) /\ s.day = row.day
  BY <1>2 DEF IsSameUse, IsReport
<1>4. PICK T, E, F : T = Today(es, row) /\ E = Earlier(es, row) /\ F = SoFar(es, row)
  OBVIOUS
<1>5. T = Today(es, s) /\ F = SoFar(es, s)
  BY <1>3, <1>4, UsesAreOfDays
<1>6. T \in SUBSET (DOMAIN es) /\ E \in SUBSET (DOMAIN es) /\ F \in SUBSET (DOMAIN es)
  BY <1>4, UsesAreEvents
<1>7. row.day \in Nat /\ F = E \cup T /\ E \cap T = {}
  BY <1>1, <1>4, UsageAssumption, UsesTogether DEF DayRow
<1>8. ASSUME row.source = "pbs" PROVE s.total = Counted(es, T)
  BY <1>1, <1>4, <1>8 DEF IsWritten, RowExact
<1>9. ASSUME row.source = "pbsAcct" PROVE s.total = Counted(es, F)
  <2>1. b.before.total = Counted(es, E) /\ row.used = Counted(es, T)
    BY <1>1, <1>4, <1>9 DEF RowExact, BeforeExact
  <2>2. s.total = b.before.total + row.used
    BY <1>1, <1>9 DEF IsWritten
  <2>3. Counted(es, F) = Counted(es, E) + Counted(es, T)
    BY <1>6, <1>7, CountedTogether
  <2> QED BY <2>1, <2>2, <2>3
<1>10. ASSUME row.source = "openstack"
       PROVE  /\ LastSeen(es, IF row.personal THEN T ELSE F, s.instances)
              /\ s.total = Total(s.instances, DOMAIN s.instances)
  <2>1. PICK r, o, w : r = row.instances /\ o = b.before.instances /\ w = s.instances
    OBVIOUS
  <2>2. w = [v \in DOMAIN r \cup DOMAIN o |-> IF v \in DOMAIN r THEN r[v] ELSE o[v]]
    BY <1>1, <1>10, <2>1 DEF IsWritten, WithServers
  <2>3. PICK I : I = IF row.personal THEN {} ELSE E
    OBVIOUS
  <2>4. LastSeen(es, T, r) /\ LastSeen(es, I, o)
    BY <1>1, <1>4, <1>10, <2>1, <2>3 DEF RowExact, BeforeExact
  <2>5. I \subseteq E /\ I \subseteq Nat /\ T \subseteq Nat
    BY <1>6, <2>3, TablesAreFinite
  <2>6. ASSUME NEW i \in I, NEW k \in T PROVE i < k
    <3>1. i \in DOMAIN es /\ k \in DOMAIN es /\ i \in Nat /\ k \in Nat
      BY <1>6, <2>5
    <3>a. es[i] \in EventRow /\ es[k] \in EventRow
      BY <3>1, ElementOfSeq, LenProperties
    <3>2. PICK d \in Nat, n \in Nat : d = es[i].day /\ n = es[k].day
      BY <3>a, EventsHold, UsageAssumption
    <3>3. d < n
      <4>1. es[i].day < row.day /\ es[k].day = row.day
        BY <1>4, <2>5 DEF Earlier, Today
      <4> QED BY <3>2, <4>1
    <3>4. i # k /\ ~(k < i)
      BY <3>1, <3>2, <3>3
    <3> QED BY <3>1, <3>4
  <2>7. LastSeen(es, I \cup T, w)
    BY <2>2, <2>4, <2>5, <2>6, LastSeenTogether
  <2>8. I \cup T = IF row.personal THEN T ELSE F
    BY <1>7, <2>3
  <2>9. s.total = Total(s.instances, DOMAIN s.instances)
    BY <1>1, <1>10 DEF IsWritten
  <2> QED BY <2>1, <2>7, <2>8, <2>9
<1> QED BY <1>2, <1>5, <1>8, <1>9, <1>10 DEF SummaryExact

\* A user name is the identity that is looked for, and it is found.
LEMMA NamesAreFound ==
  ASSUME NEW ids \in Identities, NEW s, s.ids \in Identities, s.personal,
         Username(ids) = Username(s.ids), Username(ids) # None
  PROVE  SameUser(s, ids)
<1>1. ASSUME NEW l \in Identities, Username(l) # None
      PROVE  \E m \in DOMAIN l : Primary(l) = l[m] /\ l[m] = <<"perun_username", Username(l)>>
  <2>1. PICK named : named = {i \in DOMAIN l : l[i][1] = "perun_username"}
    OBVIOUS
  <2>2. named # {}
    BY <1>1, <2>1 DEF Username
  <2>3. DOMAIN l = 1..Len(l) /\ Len(l) \in Nat
    BY LenProperties DEF Identities
  <2>a. named \subseteq Nat
    BY <2>1, <2>3
  <2>4. PICK m \in named : m = Min(named)
    BY <2>2, <2>a, MinIsLeast
  <2>5. Username(l) = l[m][2] /\ Primary(l) = l[m]
    BY <2>1, <2>2, <2>4 DEF Username, Primary
  <2>6. l[m] \in STRING \X STRING
    BY <2>1, <2>3, ElementOfSeq DEF Identities
  <2> QED BY <2>1, <2>5, <2>6
<1>2. PICK m \in DOMAIN ids : Primary(ids) = <<"perun_username", Username(ids)>> /\ ids[m] = Primary(ids)
  BY <1>1
<1>3. PICK n \in DOMAIN s.ids : s.ids[n] = <<"perun_username", Username(ids)>>
  BY <1>1
<1>4. ids # <<>>
  BY <1>2, NoServers
<1>5. Primary(ids) \in Range(s.ids)
  BY <1>2, <1>3 DEF Range
<1> QED BY <1>4, <1>5 DEF SameUser

\* The look-ups find what is of the same use, if it can be told by a name, and
\* nothing else.
LEMMA SameUseIsFound ==
  ASSUME TablesHold, NEW row, RowHolds(row), IsNamed(row),
         NEW i \in DOMAIN summaries, IsSameUse(summaries[i], row)
  PROVE  /\ summaries[i].day = row.day => i \in Existing(summaries, row)
         /\ summaries[i].day < row.day /\ ~(row.personal /\ row.source = "openstack") => i \in Previous(summaries, row)
<1>1. PICK s : s = summaries[i] /\ SummaryHolds(s)
  BY DEF TablesHold
<1>2. /\ s.source \in Source /\ row.source \in Source /\ s.personal \in BOOLEAN /\ row.personal \in BOOLEAN
      /\ s.ids \in Identities /\ row.ids \in Identities
  BY <1>1 DEF SummaryHolds, SummaryRow, RowHolds, DayRow
<1>3. s.source = row.source /\ s.personal = row.personal
  BY <1>1, <1>2 DEF IsSameUse
<1>4. CASE row.personal /\ row.source # "openstack"
  <2>1. SameUser(s, row.ids)
    BY <1>1, <1>2, <1>3, <1>4, NamesAreFound DEF IsSameUse, IsNamed
  <2> QED BY <1>1, <1>2, <1>3, <1>4, <2>1 DEF Existing, Previous, Source
<1>5. CASE ~(row.personal /\ row.source # "openstack")
  <2>1. s.slug = row.slug
    BY <1>1, <1>2, <1>3, <1>5 DEF IsSameUse
  <2> QED BY <1>1, <1>2, <1>3, <1>5, <2>1 DEF Existing, Previous
<1> QED BY <1>4, <1>5

LEMMA ExistingIsSameUse ==
  ASSUME TablesHold, NEW row, RowHolds(row), NEW i \in Existing(summaries, row)
  PROVE  IsSameUse(summaries[i], row) /\ summaries[i].day = row.day
<1>1. PICK s : s = summaries[i] /\ i \in DOMAIN summaries /\ SummaryHolds(s)
  BY DEF TablesHold, Existing
<1>2. IsFound(s, row)
  BY <1>1, ExistingIsFound
<1>3. CASE ~(row.personal /\ row.source # "openstack")
  BY <1>1, <1>2, <1>3 DEF IsFound, IsSameUse
<1>4. CASE row.personal /\ row.source # "openstack"
  <2>1. row.source \in {"pbs", "pbsAcct"}
    BY <1>4 DEF RowHolds, DayRow, Source
  <2>2. SameUser(s, row.ids) /\ s.personal /\ s.source = row.source
    BY <1>1, <1>2, <1>4, <2>1 DEF Existing, IsFound
  <2>3. PICK r \in Reported : r.personal /\ r.source = s.source /\ r.ids = s.ids
    BY <1>1, <2>2 DEF SummaryHolds
  <2>4. PICK q \in Reported : IsReport(row, q)
    BY DEF RowHolds
  <2>5. SamePerson(r, q) /\ r.source # "openstack"
    BY <1>4, <2>2, <2>3, <2>4 DEF SamePerson, IsReport, SameUser
  <2>6. Username(s.ids) = Username(row.ids)
    BY <2>3, <2>4, <2>5, UsernameAssumption DEF IsReport
  <2> QED BY <1>1, <1>2, <1>4, <2>2, <2>6 DEF IsSameUse, IsFound
<1> QED BY <1>3, <1>4

-----------------------------------------------------------------------------
(* What is exact: one thing at a time.                                     *)

\* A batch is on its way or an aggregation is under way, and only one of them;
\* an aggregation sees every event of the days there are.
OneAtATime ==
  /\ \A c, d \in Collector : c # d => incoming[c] = NoBatch \/ incoming[d] = NoBatch
  /\ \A c \in Collector, j \in Job : incoming[c] = NoBatch \/ ~Busy(j)
  /\ \A j, k \in Job : j # k => ~Busy(j) \/ ~Busy(k)
  /\ \A j \in Job : Busy(j) => stale = {}

EventsInOrder ==
  \A i, k \in DOMAIN events : i < k => events[i].day <= events[k].day \/ events[k].day \in stale

\* A step that neither adds nor aggregates anything.
OnlyMaps ==
  /\ UNCHANGED <<job, incoming, stale>>
  /\ DOMAIN events' = DOMAIN events

LEMMA StepsInOrder ==
  ASSUME UsageShapes, Next, orderly'
  PROVE  \/ \E c \in Collector : Save(c)
         \/ \E j \in Job, first, last \in Day : Trigger(j, first, last)
         \/ \E j \in Job : Aggregation(j)
         \/ \E c \in Collector, b \in Batch : Receive(c, b)
         \/ OnlyMaps
<1>1. ASSUME NEW u \in User, SignIn(u) PROVE OnlyMaps
  BY <1>1 DEF SignIn, OnlyMaps
<1>2. ASSUME NEW p \in GroupProject, NEW slug \in Slug, RequestProject(p, slug) PROVE OnlyMaps
  BY <1>2 DEF RequestProject, OnlyMaps
<1>3. ASSUME NEW p \in DOMAIN backfill, Approve(p) \/ Reject(p) PROVE OnlyMaps
  BY <1>3 DEF Approve, Reject, OnlyMaps, ghosts
<1>4. ASSUME NEW p \in DOMAIN backfill, NEW slug \in Slug, Resubmit(p, slug) PROVE OnlyMaps
  <2>1. UNCHANGED events \/ events' = Unmapped(events, p)
    BY <1>4 DEF Resubmit
  <2>2. DOMAIN Unmapped(events, p) = DOMAIN events
    BY DEF Unmapped
  <2>3. DOMAIN events' = DOMAIN events
    BY <2>1, <2>2
  <2> QED BY <1>4, <2>3 DEF Resubmit, OnlyMaps
<1>5. ASSUME NEW p \in DOMAIN backfill, BackfillEvents(p) PROVE OnlyMaps
  <2>1. events' = Filled(events, p)
    BY <1>5 DEF BackfillEvents
  <2>2. DOMAIN Filled(events, p) = DOMAIN events
    BY DEF Filled
  <2>3. DOMAIN events' = DOMAIN events
    BY <2>1, <2>2
  <2> QED BY <1>5, <2>3 DEF BackfillEvents, OnlyMaps, ghosts
<1>6. ASSUME NEW p \in DOMAIN backfill, BackfillSummaries(p) PROVE OnlyMaps
  BY <1>6 DEF BackfillSummaries, OnlyMaps, ghosts
<1>7. ~Restart /\ (\A p : ~BackfillFails(p)) /\ \A j : ~JobFails(j)
  BY DEF Restart, BackfillFails, JobFails, Mishap
<1> QED BY <1>1, <1>2, <1>3, <1>4, <1>5, <1>6, <1>7 DEF Next

LEMMA FreeJobsDoNothing ==
  ASSUME JobsHold, NEW j \in Job
  PROVE  /\ ~Busy(j) => job[j].phase = 0 /\ job[j].todo = {} /\ job[j].days = {} /\ ~job[j].looked
         /\ job[j].phase \in 1..5 => Busy(j)
         /\ job[j].looked => Busy(j)
         /\ job[j].todo # {} => Busy(j)
<1>1. PICK b : b = job[j] /\ JobHolds(b)
  BY DEF JobsHold
<1>2. b.days = {} => b.phase = 0 /\ b.todo = {} /\ ~b.looked
  BY <1>1 DEF JobHolds, NoJob
<1> QED BY <1>1, <1>2 DEF Busy

\* What an aggregation leaves alone.
LEMMA AggregationsAre ==
  ASSUME UsageShapes, Next, NEW j \in Job, Aggregation(j)
  PROVE  /\ Busy(j) /\ UNCHANGED <<events, incoming, stale>>
         /\ \A k \in Job \ {j} : job'[k] = job[k]
         /\ job'[j].days = job[j].days \/ job'[j].days = {}
<1>1. TablesHold /\ ProjectsHold /\ JobsHold /\ SummariesKept
  BY TablesStay DEF UsageShapes
<1>2. CASE NextPhase(j)
  <2>1. IsNextPhase(job[j], job'[j]) /\ \A k \in Job \ {j} : job'[k] = job[k]
    BY <1>1, <1>2, NextPhaseHolds
  <2>2. job'[j].days = job[j].days \/ job'[j].days = {}
    BY <2>1 DEF IsNextPhase, NoJob
  <2>3. Busy(j) /\ UNCHANGED <<events, incoming, stale>>
    BY <1>2 DEF NextPhase, tables, ghosts
  <2> QED BY <2>1, <2>2, <2>3
<1>3. CASE Written(j) \/ WriteProject(j)
  <2>1. job[j].looked /\ job' = Done(j) /\ UNCHANGED <<events, incoming, stale>>
    <3>1. CASE Written(j)
      BY <1>1, <3>1, WritesAre DEF Write, IsWritten, ghosts
    <3>2. CASE WriteProject(j)
      BY <3>2 DEF WriteProject, ghosts
    <3> QED BY <1>3, <3>1, <3>2
  <2> QED BY <1>1, <2>1, WriteFreesJob, FreeJobsDoNothing
<1>4. ASSUME NEW row \in job[j].todo, LookUp(j, row)
      PROVE  /\ Busy(j) /\ UNCHANGED <<events, incoming, stale>>
             /\ \A k \in Job \ {j} : job'[k] = job[k]
             /\ job'[j].days = job[j].days
  <2>1. PICK new : new = job'[j] /\ new.days = job[j].days /\ job' = [job EXCEPT ![j] = new]
    BY <1>1, <1>4, LookUpsAre
  <2>2. \A k \in Job \ {j} : job'[k] = job[k]
    BY <1>1, <2>1 DEF JobsHold
  <2>3. UNCHANGED <<events, incoming, stale>>
    BY <1>4, Zenon DEF LookUp, tables, ghosts
  <2> QED BY <1>1, <2>1, <2>2, <2>3, FreeJobsDoNothing
<1>5. ASSUME NEW i \in job[j].todo, FindProject(j, i)
      PROVE  /\ Busy(j) /\ UNCHANGED <<events, incoming, stale>>
             /\ \A k \in Job \ {j} : job'[k] = job[k]
             /\ job'[j].days = job[j].days
  <2>1. PICK new : new = job'[j] /\ new.days = job[j].days /\ job' = [job EXCEPT ![j] = new]
    BY <1>1, <1>5, FindingsAre
  <2>2. \A k \in Job \ {j} : job'[k] = job[k]
    BY <1>1, <2>1 DEF JobsHold
  <2>3. UNCHANGED <<events, incoming, stale>>
    BY <1>5, Zenon DEF FindProject, tables, ghosts
  <2> QED BY <1>1, <2>1, <2>2, <2>3, FreeJobsDoNothing
<1>6. CASE FindExisting(j)
  <2>1. PICK new : new = job'[j] /\ new.days = job[j].days /\ job' = [job EXCEPT ![j] = new] /\ job[j].looked
    BY <1>1, <1>6, ExistingAre
  <2>2. \A k \in Job \ {j} : job'[k] = job[k]
    BY <1>1, <2>1 DEF JobsHold
  <2>3. UNCHANGED <<events, incoming, stale>>
    BY <1>6, Zenon DEF FindExisting, tables, ghosts
  <2> QED BY <1>1, <2>1, <2>2, <2>3, FreeJobsDoNothing
<1>7. ASSUME NEW i \in job[j].todo, MappingFails(j, i)
      PROVE  /\ Busy(j) /\ UNCHANGED <<events, incoming, stale>>
             /\ \A k \in Job \ {j} : job'[k] = job[k]
             /\ job'[j].days = job[j].days
  <2>1. UNCHANGED <<events, incoming, stale>>
    BY <1>7, Zenon DEF MappingFails, tables
  <2> QED BY <1>1, <1>7, <2>1, FailuresAre, WithoutRow, FreeJobsDoNothing
<1> QED BY <1>2, <1>3, <1>4, <1>5, <1>6, <1>7 DEF Aggregation, Written

\* What a save does that comes in order.
LEMMA SavesInOrder ==
  ASSUME UsageShapes, OneAtATime, NEW c \in Collector, Save(c), orderly'
  PROVE  /\ \A j \in Job : ~Busy(j)
         /\ \A d \in Collector : incoming'[d] = NoBatch
         /\ UNCHANGED summaries
         /\ \A i \in DOMAIN events, k \in DOMAIN events' \ DOMAIN events : events[i].day <= events'[k].day
         /\ \/ /\ UNCHANGED job /\ stale \subseteq stale'
               /\ \A k \in DOMAIN events' \ DOMAIN events : events'[k].day \in stale'
            \/ /\ stale' = {}
               /\ \E j \in Job, d \in Day :
                    /\ stale \subseteq {d} /\ (\A k \in DOMAIN events' \ DOMAIN events : events'[k].day = d)
                    /\ \A i \in DOMAIN events : events[i].day <= d
                    /\ job'[j].days = {d} /\ job'[j].phase = 0 /\ job'[j].todo = {} /\ ~job'[j].looked
                    /\ \A k \in Job \ {j} : job'[k] = job[k]
<1>1. BatchesHold /\ TablesHold /\ JobsHold
  BY DEF UsageShapes
<1>2. PICK b : b = incoming[c] /\ b # NoBatch
  BY DEF Save
<1>3. PICK new : new = {b.events[i].day : i \in DOMAIN b.events}
  OBVIOUS
<1>4. new \in SUBSET Day /\ new # {} /\ IsFiniteSet(new) /\ new \subseteq Nat
  <2>1. new \in SUBSET Day /\ new # {}
    BY <1>1, <1>2, <1>3, BatchDays
  <2> QED BY <2>1, UsageAssumption, FS_Subset
<1>5. \A k \in DOMAIN events' \ DOMAIN events : events'[k].day \in new
  <2> SUFFICES ASSUME NEW k \in DOMAIN events' \ DOMAIN events, NEW e, e = events'[k] PROVE e.day \in new
    OBVIOUS
  <2>1. PICK m : m = k - Len(events)
    OBVIOUS
  <2>2. m \in DOMAIN incoming[c].events /\ e = incoming[c].events[m]
    BY <1>1, <2>1, JoinedEventsHold
  <2> QED BY <1>2, <1>3, <2>2
<1>6. new = {incoming[c].events[i].day : i \in DOMAIN incoming[c].events}
  BY <1>2, <1>3
<1>7. PICK inOrder : inOrder = \A i \in DOMAIN events, d \in new : events[i].day <= d
  OBVIOUS
<1>8. ASSUME incoming[c].last
      PROVE  \E j \in Job : /\ job' = [job EXCEPT ![j] = Started(new)] /\ stale' = stale \ Started(new).days
                            /\ orderly' = (orderly /\ inOrder /\ Cardinality(new) = 1 /\ stale \subseteq new)
  BY <1>6, <1>7, <1>8 DEF Save
<1>9. ASSUME ~incoming[c].last
      PROVE  /\ UNCHANGED job /\ stale' = stale \cup new
             /\ orderly' = (orderly /\ inOrder)
  BY <1>6, <1>7, <1>9 DEF Save
<1>10. \A i \in DOMAIN events, d \in new : events[i].day <= d
  <2>1. inOrder
    BY <1>8, <1>9
  <2> QED BY <1>7, <2>1
<1>11. \A d \in Collector : incoming'[d] = NoBatch
  <2>1. incoming' = [incoming EXCEPT ![c] = NoBatch]
    BY DEF Save
  <2> QED BY <1>1, <1>2, <2>1 DEF OneAtATime, BatchesHold
<1>12. (\A j \in Job : ~Busy(j)) /\ UNCHANGED summaries
  BY <1>2 DEF OneAtATime, Save
<1>13. CASE ~b.last
  <2>1. stale' = stale \cup new /\ UNCHANGED job
    BY <1>2, <1>13, <1>9
  <2> QED BY <1>5, <1>10, <1>11, <1>12, <2>1
<1>14. CASE b.last
  <2>1. PICK j \in Job : /\ job' = [job EXCEPT ![j] = Started(new)] /\ stale' = stale \ Started(new).days
                         /\ Cardinality(new) = 1 /\ stale \subseteq new
    BY <1>2, <1>14, <1>8
  <2>2. PICK d : new = {d}
    BY <1>4, <2>1, FS_Singleton
  <2>3. d \in Day /\ d \in Nat
    BY <1>4, <2>2
  <2>4. Started(new).days = {d}
    <3>1. Min(new) = d /\ Max(new) = d
      BY <1>4, <2>2, MinIsLeast, MaxIsGreatest
    <3>2. Started(new).days = Min(new)..Max(new)
      BY <1>4, StartedHolds
    <3>3. d..d = {d}
      BY <2>3
    <3> QED BY <3>1, <3>2, <3>3
  <2>5. PICK s : s = Started(new) /\ s.phase = 0 /\ s.todo = {} /\ ~s.looked
    <3>1. PICK s : s = Started(new)
      OBVIOUS
    <3>2. s = [NoJob EXCEPT !.days = Min(new)..Max(new)]
      BY <3>1 DEF Started
    <3>3. s.phase = 0 /\ s.todo = {} /\ ~s.looked
      BY <3>2 DEF NoJob
    <3> QED BY <3>1, <3>3
  <2>6. job'[j] = s /\ \A k \in Job \ {j} : job'[k] = job[k]
    BY <1>1, <2>1, <2>5 DEF JobsHold
  <2>7. stale' = {}
    BY <2>1, <2>2, <2>4
  <2>8. (\A k \in DOMAIN events' \ DOMAIN events : events'[k].day = d) /\ \A i \in DOMAIN events : events[i].day <= d
    BY <1>5, <1>10, <2>2
  <2>9. /\ stale \subseteq {d} /\ (\A k \in DOMAIN events' \ DOMAIN events : events'[k].day = d)
        /\ \A i \in DOMAIN events : events[i].day <= d
    BY <2>1, <2>2, <2>8
  <2>10. job'[j].days = {d} /\ job'[j].phase = 0 /\ job'[j].todo = {} /\ ~job'[j].looked
    BY <2>4, <2>5, <2>6
  <2>11. \A i \in DOMAIN events, k \in DOMAIN events' \ DOMAIN events : events[i].day <= events'[k].day
    BY <2>9
  <2> QED BY <1>11, <1>12, <2>3, <2>6, <2>7, <2>9, <2>10, <2>11
<1> QED BY <1>13, <1>14

LEMMA OneAtATimeStays ==
  ASSUME UsageShapes, OneAtATime, Next, orderly'
  PROVE  OneAtATime'
<1>1. BatchesHold /\ JobsHold
  BY DEF UsageShapes
<1>3. CASE \E c \in Collector : Save(c)
  <2>1. PICK c \in Collector : Save(c)
    BY <1>3
  <2>2. (\A j \in Job : ~Busy(j)) /\ \A d \in Collector : incoming'[d] = NoBatch
    BY <2>1, SavesInOrder
  <2>3. CASE UNCHANGED job
    BY <2>2, <2>3 DEF OneAtATime, Busy
  <2>4. CASE job' # job
    <3>1. stale' = {} /\ \E j \in Job : \A k \in Job \ {j} : job'[k] = job[k]
      BY <2>1, <2>4, SavesInOrder
    <3> QED BY <2>2, <3>1 DEF OneAtATime, Busy
  <2> QED BY <2>3, <2>4
<1>4. CASE \E j \in Job, first, last \in Day : Trigger(j, first, last)
  <2>1. PICK j \in Job, first \in Day, last \in Day : Trigger(j, first, last)
    BY <1>4
  <2>2. Idle /\ UNCHANGED incoming /\ stale' = {} /\ job' = [job EXCEPT ![j] = Started({first, last})]
    BY <2>1 DEF Trigger
  <2>3. \A k \in Job \ {j} : job'[k] = job[k]
    BY <1>1, <2>2 DEF JobsHold
  <2> QED BY <2>2, <2>3 DEF OneAtATime, Busy, Idle
<1>5. CASE \E j \in Job : Aggregation(j)
  <2>1. PICK j \in Job : Aggregation(j)
    BY <1>5
  <2>2. /\ Busy(j) /\ UNCHANGED <<incoming, stale>> /\ \A k \in Job \ {j} : job'[k] = job[k]
    BY <2>1, AggregationsAre
  <2> QED BY <2>2 DEF OneAtATime, Busy
<1>6. CASE \E c \in Collector, b \in Batch : Receive(c, b)
  <2>1. PICK c \in Collector : \E b \in Batch : Receive(c, b)
    BY <1>6
  <2>2. Idle /\ UNCHANGED <<job, stale>> /\ \E b : incoming' = [incoming EXCEPT ![c] = b]
    BY <2>1 DEF Receive
  <2>3. \A d \in Collector \ {c} : incoming'[d] = incoming[d]
    BY <1>1, <2>2 DEF BatchesHold
  <2> QED BY <2>2, <2>3 DEF OneAtATime, Busy, Idle
<1>7. CASE OnlyMaps
  BY <1>7 DEF OnlyMaps, OneAtATime, Busy
<1> QED BY <1>3, <1>4, <1>5, <1>6, <1>7, StepsInOrder

LEMMA EventsInOrderStay ==
  ASSUME UsageShapes, OneAtATime, EventsInOrder, Next, orderly'
  PROVE  EventsInOrder'
<1>1. SUFFICES ASSUME NEW i \in DOMAIN events', NEW k \in DOMAIN events', i < k,
                      NEW d, d = events'[i].day, NEW e, e = events'[k].day
               PROVE  d <= e \/ e \in stale'
  BY DEF EventsInOrder
<1>2. PICK es, fs : es = events /\ fs = events' /\ es \in Seq(EventRow) /\ fs \in Seq(EventRow) /\ IsGrown(es, fs)
  BY EventsGrow
<1>3. d \in Nat /\ e \in Nat
  <2>1. PICK f \in EventRow, g \in EventRow : f = fs[i] /\ g = fs[k]
    BY <1>2, ElementOfSeq, LenProperties
  <2>2. f.day \in Day /\ g.day \in Day
    BY EventsHold
  <2> QED BY <1>1, <1>2, <2>1, <2>2, UsageAssumption
<1>4. k \in DOMAIN es => i \in DOMAIN es
  <2>1. DOMAIN es = 1..Len(es) /\ DOMAIN fs = 1..Len(fs) /\ Len(es) \in Nat /\ Len(fs) \in Nat
    BY <1>2, LenProperties
  <2>2. i \in 1..Len(fs) /\ k \in 1..Len(fs)
    BY <1>2, <2>1
  <2> QED BY <1>1, <2>1, <2>2
<1>5. ASSUME k \in DOMAIN es PROVE d = es[i].day /\ e = es[k].day /\ (d <= e \/ e \in stale)
  <2>1. d = es[i].day /\ e = es[k].day
    BY <1>1, <1>2, <1>4, <1>5 DEF IsGrown, IsSameEvent, IsReport
  <2> QED BY <1>1, <1>2, <1>4, <1>5, <2>1 DEF EventsInOrder
<1>6. ASSUME DOMAIN fs = DOMAIN es, UNCHANGED stale \/ stale = {} PROVE d <= e \/ e \in stale'
  BY <1>2, <1>5, <1>6
<1>7. CASE \E c \in Collector : Save(c)
  <2>1. PICK c \in Collector : Save(c)
    BY <1>7
  <2>2. CASE stale \subseteq stale' /\ \A n \in DOMAIN events' \ DOMAIN events : events'[n].day \in stale'
    BY <1>1, <1>2, <1>5, <2>2
  <2>3. CASE \E n \in Day : /\ stale \subseteq {n} /\ (\A m \in DOMAIN events' \ DOMAIN events : events'[m].day = n)
                            /\ \A m \in DOMAIN events : events[m].day <= n
    <3>1. PICK n \in Day : /\ stale \subseteq {n} /\ (\A m \in DOMAIN fs \ DOMAIN es : fs[m].day = n)
                           /\ \A m \in DOMAIN es : es[m].day <= n
      BY <1>2, <2>3
    <3>2. CASE k \in DOMAIN es
      <4>1. d = es[i].day /\ e = es[k].day /\ (d <= e \/ e \in stale) /\ d <= n
        BY <1>4, <1>5, <3>1, <3>2
      <4> QED BY <3>1, <4>1
    <3>3. CASE k \notin DOMAIN es
      <4>1. e = n
        BY <1>1, <1>2, <3>1, <3>3
      <4>2. CASE i \in DOMAIN es
        <5>1. d = es[i].day
          BY <1>1, <1>2, <4>2 DEF IsGrown, IsSameEvent, IsReport
        <5> QED BY <3>1, <4>1, <4>2, <5>1
      <4>3. CASE i \notin DOMAIN es
        <5>1. d = n
          BY <1>1, <1>2, <3>1, <4>3
        <5> QED BY <1>3, <4>1, <5>1
      <4> QED BY <4>2, <4>3
    <3> QED BY <3>2, <3>3
  <2> QED BY <2>1, <2>2, <2>3, SavesInOrder
<1>8. CASE \E j \in Job, first, last \in Day : Trigger(j, first, last)
  <2>1. stale = {} /\ events' = events
    BY <1>8 DEF Trigger, tables
  <2> QED BY <1>2, <1>6, <2>1
<1>9. CASE \E j \in Job : Aggregation(j)
  <2>1. UNCHANGED <<events, stale>>
    BY <1>9, AggregationsAre
  <2> QED BY <1>2, <1>6, <2>1
<1>10. CASE \E c \in Collector, b \in Batch : Receive(c, b)
  <2>1. UNCHANGED <<events, stale>>
    BY <1>10 DEF Receive, tables
  <2> QED BY <1>2, <1>6, <2>1
<1>11. CASE OnlyMaps
  <2>1. DOMAIN events' = DOMAIN events /\ UNCHANGED stale
    BY <1>11 DEF OnlyMaps
  <2> QED BY <1>2, <1>6, <2>1
<1> QED BY <1>7, <1>8, <1>9, <1>10, <1>11, StepsInOrder

-----------------------------------------------------------------------------
(* What is exact: what waits for an aggregation, and what does not.        *)

\* The phase that aggregates the usage of r.
PhaseFor(r) == IF r.source = "openstack" THEN 3 ELSE IF ~r.personal THEN 4 ELSE IF r.source = "pbsAcct" THEN 1 ELSE 2

\* The last day of an aggregation is the new one: usage of it waits until its
\* phase has written its row.
Waits(b, r) ==
  /\ r.day \in b.days /\ \A d \in b.days : d <= r.day
  /\ \/ b.phase < PhaseFor(r)
     \/ b.phase \in 1..4 /\ \E row \in b.todo : IsSameUse(row, r) /\ row.day = r.day

Awaited(r) == \E j \in Job : Waits(job[j], r)

\* s is a summary of the event e, and has its identities.
IsOf(e, s) == IsUse(e, s) /\ e.day = s.day /\ e.personal = s.personal /\ e.ids = s.ids /\ e.slug # NoSlug

RowsExact ==
  \A j \in Job : job[j].phase \in 1..4 =>
    \A row \in job[j].todo : IsFromEvents(events, row) /\ (IsOne(events, row) => RowExact(events, row))

\* A look-up finds all that came before, and then the one summary of the row's day.
LookUpExact(b) ==
  /\ b.existing \notin {0, Unsought} => IsSameUse(summaries[b.existing], b.row)
  /\ IsOne(events, b.row) => BeforeExact(events, b.row, b.before)
  /\ IsNamed(b.row) /\ b.existing # Unsought => \A k \in DOMAIN summaries :
       IsSameUse(summaries[k], b.row) /\ summaries[k].day = b.row.day => b.existing = k

LookUpsExact == \A j \in Job : job[j].looked /\ job[j].phase \in 1..4 => LookUpExact(job[j])

SummariesAreOfEvents == \A k \in DOMAIN summaries : \E i \in DOMAIN events : IsOf(events[i], summaries[k])

SummariesAreUnique ==
  \A k, n \in DOMAIN summaries :
    IsNamed(summaries[k]) /\ IsSameUse(summaries[k], summaries[n]) /\ summaries[k].day = summaries[n].day => k = n

EventsAreSummed ==
  \A i \in DOMAIN events :
    events[i].slug # NoSlug /\ events[i].day \notin stale /\ IsOne(events, events[i]) /\ ~Awaited(events[i]) =>
      \E k \in DOMAIN summaries : IsSameUse(events[i], summaries[k]) /\ summaries[k].day = events[i].day

SummariesAreExact ==
  \A k \in DOMAIN summaries :
    summaries[k].day \notin stale /\ IsOne(events, summaries[k]) /\ ~Awaited(summaries[k]) =>
      SummaryExact(events, summaries[k])

\* The summary that is there is found, and there is only one.
LEMMA FoundExactly ==
  ASSUME TablesHold, SummariesAreUnique, NEW row, RowHolds(row), NEW k \in Found(Existing(summaries, row))
  PROVE  /\ k # 0 => IsSameUse(summaries[k], row)
         /\ IsNamed(row) => \A n \in DOMAIN summaries :
              IsSameUse(summaries[n], row) /\ summaries[n].day = row.day => k = n
<1>1. ASSUME k # 0 PROVE IsSameUse(summaries[k], row) /\ summaries[k].day = row.day /\ k \in DOMAIN summaries
  BY <1>1, ExistingIsSameUse, ExistingIsFound DEF Found
<1>2. ASSUME IsNamed(row), NEW n \in DOMAIN summaries, IsSameUse(summaries[n], row), summaries[n].day = row.day
      PROVE  k = n
  <2>1. n \in Existing(summaries, row)
    BY <1>2, SameUseIsFound
  <2>2. k # 0
    <3>1. 0 \notin Existing(summaries, row)
      BY LenProperties DEF TablesHold, Existing
    <3> QED BY <2>1, <3>1 DEF Found
  <2>3. IsSameUse(summaries[k], summaries[n]) /\ IsSameUse(row, summaries[k])
    BY <1>1, <1>2, <2>2, SameUses
  <2>4. IsNamed(summaries[k])
    BY <1>2, <2>3, OneOfSameUse
  <2> QED BY <1>1, <1>2, <2>2, <2>3, <2>4 DEF SummariesAreUnique
<1> QED BY <1>1, <1>2

\* The earlier events of a row's use are in earlier summaries.
LEMMA EarlierAreSummed ==
  ASSUME TablesHold, EventsAreSummed, NEW row, RowHolds(row), IsFromEvents(events, row), IsOne(events, row), stale = {},
         \A r : r.day < row.day => ~Awaited(r), ~(row.personal /\ row.source = "openstack"),
         NEW n \in Earlier(events, row)
  PROVE  \E k \in Previous(summaries, row) : summaries[k].day = events[n].day
<1>1. PICK es \in Seq(EventRow) : es = events
  BY DEF TablesHold
<1>2. PICK i \in DOMAIN es : IsReport(row, es[i]) /\ es[i].slug # NoSlug
  BY <1>1 DEF IsFromEvents
<1>3. IsUse(es[i], row) /\ es[i].personal = row.personal
  BY <1>2 DEF IsReport, IsUse
<1>4. n \in DOMAIN es /\ IsUse(es[n], row) /\ es[n].day < row.day
  BY <1>1 DEF Earlier
<1>5. IsSameUse(es[n], row) /\ es[n].slug # NoSlug /\ IsOne(es, es[n])
  BY <1>1, <1>2, <1>3, <1>4, UsesOfOne
<1>6. ~Awaited(es[n])
  BY <1>4
<1>7. PICK k \in DOMAIN summaries : IsSameUse(es[n], summaries[k]) /\ summaries[k].day = es[n].day
  BY <1>1, <1>4, <1>5, <1>6 DEF EventsAreSummed
<1>8. IsSameUse(summaries[k], row)
  BY <1>5, <1>7, SameUses
<1>9. k \in Previous(summaries, row)
  BY <1>4, <1>7, <1>8, SameUseIsFound DEF IsOne
<1> QED BY <1>1, <1>7, <1>9

LEMMA LatestIsThere ==
  ASSUME TablesHold, NEW row, Previous(summaries, row) # {}
  PROVE  Latest(summaries, Previous(summaries, row)) # {}
<1>1. PICK P, D : P = Previous(summaries, row) /\ D = {summaries[i].day : i \in P}
  OBVIOUS
<1>2. P \in SUBSET (DOMAIN summaries)
  BY <1>1 DEF Previous
<1>3. D \subseteq Day /\ D # {}
  BY <1>1, <1>2 DEF TablesHold, SummaryHolds, SummaryRow
<1>4. IsFiniteSet(D) /\ D \subseteq Nat
  BY <1>3, UsageAssumption, FS_Subset
<1>5. PICK d \in D : \A e \in D : e <= d
  BY <1>3, <1>4, MaxIsGreatest
<1>6. PICK i \in P : summaries[i].day = d
  BY <1>1
<1>7. \A k \in P : summaries[k].day <= summaries[i].day
  BY <1>1, <1>5, <1>6
<1> QED BY <1>1, <1>6, <1>7 DEF Latest

\* The latest of them shows all that came before.
LEMMA FoundBeforeExact ==
  ASSUME TablesHold, EventsAreSummed, SummariesAreExact, NEW row, RowHolds(row), IsFromEvents(events, row), stale = {},
         IsOne(events, row), \A r : r.day < row.day => ~Awaited(r), NEW before, IsLatest(before, row)
  PROVE  BeforeExact(events, row, before)
<1>1. PICK es \in Seq(EventRow) : es = events
  BY DEF TablesHold
<1>2. PICK P, L : P = Previous(summaries, row) /\ L = Latest(summaries, P)
  OBVIOUS
<1>3. PICK J : J = Earlier(es, row) /\ J \in SUBSET (DOMAIN es)
  BY UsesAreEvents
<1>4. Counted(es, {}) = 0
  BY TotalOfNone DEF Counted
<1>5. ASSUME DOMAIN before.instances = {} PROVE LastSeen(es, {}, before.instances)
  BY <1>5 DEF LastSeen
<1>6. CASE row.source = "pbs"
  BY <1>6 DEF BeforeExact
<1>7. CASE row.personal /\ row.source = "openstack"
  <2>1. P = {}
    BY <1>2, <1>7 DEF Previous
  <2>2. L = {}
    BY <1>2, <2>1 DEF Latest
  <2>3. DOMAIN before.instances = {}
    BY <1>2, <2>2 DEF IsLatest
  <2> QED BY <1>1, <1>5, <1>7, <2>3 DEF BeforeExact
<1>8. CASE row.source # "pbs" /\ ~(row.personal /\ row.source = "openstack") /\ L = {}
  <2>1. P = {}
    BY <1>2, <1>8, LatestIsThere
  <2>2. J = {}
    BY <1>1, <1>2, <1>3, <1>8, <2>1, EarlierAreSummed
  <2>3. before.total = 0 /\ DOMAIN before.instances = {}
    BY <1>2, <1>8 DEF IsLatest
  <2> QED BY <1>1, <1>3, <1>4, <1>5, <2>2, <2>3 DEF BeforeExact
<1>9. CASE row.source # "pbs" /\ ~(row.personal /\ row.source = "openstack") /\ L # {}
  <2>1. PICK i \in L : before.total = summaries[i].total /\ before.instances = summaries[i].instances
    BY <1>2, <1>9 DEF IsLatest
  <2>2. PICK s : s = summaries[i]
    OBVIOUS
  <2>3. i \in P /\ \A k \in P : summaries[k].day <= s.day
    BY <1>2, <2>1, <2>2 DEF Latest
  <2>4. i \in DOMAIN summaries /\ SummaryHolds(s) /\ IsSameUse(s, row) /\ s.day < row.day
    BY <1>2, <2>2, <2>3, PreviousIsSameUse
  <2>5. s.day \in Nat /\ row.day \in Nat
    BY <2>4, UsageAssumption DEF SummaryHolds, SummaryRow, RowHolds, DayRow
  <2>6. IsOne(es, s)
    BY <1>1, <2>4, SameUses, OneOfSameUse
  <2>7. SummaryExact(es, s)
    BY <1>1, <2>2, <2>4, <2>6 DEF SummariesAreExact
  <2>8. PICK I : I = SoFar(es, s) /\ I \in SUBSET (DOMAIN es)
    BY UsesAreEvents
  <2>9. ASSUME NEW n \in DOMAIN es PROVE n \in I <=> n \in J
    <3>1. PICK e \in EventRow : e = es[n]
      BY ElementOfSeq, LenProperties
    <3>2. e.day \in Nat
      BY EventsHold, UsageAssumption
    <3>3. IsUse(e, s) <=> IsUse(e, row)
      BY <2>4, UseIsSame
    <3>4. n \in I <=> IsUse(e, row) /\ e.day <= s.day
      BY <2>8, <2>9, <3>1, <3>3 DEF SoFar
    <3>5. n \in J <=> IsUse(e, row) /\ e.day < row.day
      BY <1>3, <2>9, <3>1 DEF Earlier
    <3>6. ASSUME n \in J PROVE e.day <= s.day
      <4>1. PICK k \in P : summaries[k].day = e.day
        BY <1>1, <1>2, <1>3, <1>9, <3>1, <3>6, EarlierAreSummed
      <4> QED BY <2>3, <4>1
    <3> QED BY <2>4, <2>5, <3>2, <3>4, <3>5, <3>6
  <2>10. I = J
    BY <1>3, <2>8, <2>9
  <2>11. s.source = row.source /\ (s.personal <=> row.personal)
    BY <2>4 DEF IsSameUse
  <2>12. ASSUME row.source = "pbsAcct" PROVE before.total = Counted(es, J)
    BY <2>1, <2>2, <2>7, <2>8, <2>10, <2>11, <2>12 DEF SummaryExact
  <2>13. ASSUME row.source = "openstack" PROVE ~row.personal /\ LastSeen(es, J, before.instances)
    BY <1>9, <2>1, <2>2, <2>7, <2>8, <2>10, <2>11, <2>13 DEF SummaryExact
  <2> QED BY <1>1, <1>3, <2>12, <2>13 DEF BeforeExact
<1> QED BY <1>6, <1>7, <1>8, <1>9

-----------------------------------------------------------------------------
(* What is exact: rows and look-ups stay so.                               *)

\* A step writes a summary, or leaves what all of them claim alone.
LEMMA SummariesAreWritten ==
  ASSUME UsageShapes, Next
  PROVE  \/ \E j \in Job : \E s : Write(j, s) /\ IsWritten(job[j], s)
         \/ /\ DOMAIN summaries' = DOMAIN summaries
            /\ \A i \in DOMAIN summaries : IsRemapped(summaries[i], summaries'[i])
<1>1. SUFFICES ASSUME \A j \in Job : \A s : ~(Write(j, s) /\ IsWritten(job[j], s))
               PROVE  /\ DOMAIN summaries' = DOMAIN summaries
                      /\ \A i \in DOMAIN summaries : IsRemapped(summaries[i], summaries'[i])
  OBVIOUS
<1>2. \A i \in DOMAIN summaries' : i \in DOMAIN summaries /\ IsRemapped(summaries[i], summaries'[i])
  BY <1>1, SummaryCountsAre
<1>3. DOMAIN summaries \subseteq DOMAIN summaries'
  BY TablesStay DEF SummariesKept
<1> QED BY <1>2, <1>3

LEMMA NoEventsWhenBusy ==
  ASSUME UsageShapes, OneAtATime, Next, orderly', NEW j \in Job, Busy(j)
  PROVE  DOMAIN events' = DOMAIN events
<1>1. CASE \E c \in Collector : Save(c)
  BY <1>1, SavesInOrder
<1>2. CASE \E k \in Job, first, last \in Day : Trigger(k, first, last)
  BY <1>2 DEF Trigger, Idle
<1>3. CASE \E k \in Job : Aggregation(k)
  BY <1>3, AggregationsAre
<1>4. CASE \E c \in Collector, b \in Batch : Receive(c, b)
  BY <1>4 DEF Receive, Idle
<1>5. CASE OnlyMaps
  BY <1>5 DEF OnlyMaps
<1> QED BY <1>1, <1>2, <1>3, <1>4, <1>5, StepsInOrder

LEMMA EarlierAreNotAwaited ==
  ASSUME JobsHold, OneAtATime, NEW j \in Job, Busy(j), NEW d \in job[j].days, NEW r, r.day < d
  PROVE  ~Awaited(r)
<1>1. \A k \in Job \ {j} : job[k].days = {}
  BY DEF OneAtATime, Busy
<1>2. job[j].days \subseteq Nat
  BY UsageAssumption DEF JobsHold, JobHolds
<1>3. ~Waits(job[j], r)
  BY <1>2 DEF Waits
<1>4. \A k \in Job \ {j} : ~Waits(job[k], r)
  BY <1>1 DEF Waits
<1> QED BY <1>3, <1>4 DEF Awaited

LEMMA RowsStayExact ==
  ASSUME UsageShapes, OneAtATime, RowsExact, Next, orderly'
  PROVE  RowsExact'
<1>1. TablesHold /\ JobsHold /\ ProjectsHold /\ SummariesKept
  BY TablesStay DEF UsageShapes
<1>2. PICK es, fs : es = events /\ fs = events' /\ es \in Seq(EventRow) /\ fs \in Seq(EventRow) /\ IsGrown(es, fs)
  BY EventsGrow
<1>3. SUFFICES ASSUME NEW j \in Job, NEW new, new = job'[j], new.phase \in 1..4, NEW row \in new.todo
               PROVE  IsFromEvents(fs, row) /\ (IsOne(fs, row) => RowExact(fs, row))
  BY <1>2 DEF RowsExact
<1>4. PICK b : b = job[j] /\ JobHolds(b)
  BY <1>1 DEF JobsHold
<1>5. ASSUME row \in b.todo, b.phase = new.phase PROVE IsFromEvents(fs, row) /\ (IsOne(fs, row) => RowExact(fs, row))
  <2>1. RowHolds(row) /\ IsFromEvents(es, row) /\ (IsOne(es, row) => RowExact(es, row))
    BY <1>2, <1>3, <1>4, <1>5 DEF JobHolds, RowsExact
  <2>2. Busy(j)
    BY <1>1, <1>3, <1>4, <1>5, FreeJobsDoNothing
  <2>3. DOMAIN fs = DOMAIN es
    BY <1>2, <2>2, NoEventsWhenBusy
  <2>4. row.day \in Nat
    BY <2>1, UsageAssumption DEF RowHolds, DayRow
  <2>5. IsFromEvents(fs, row)
    BY <1>2, <2>1 DEF IsFromEvents, IsGrown, IsSameEvent, IsReport
  <2>6. ASSUME IsOne(fs, row) PROVE RowExact(fs, row)
    BY <1>2, <2>1, <2>3, <2>4, <2>6, OneBefore, ExactStays
  <2> QED BY <2>5, <2>6
<1>6. ~(new = NoJob) /\ ~(\E days : new = Started(days))
  <2>1. new.phase # 0
    BY <1>3
  <2> QED BY <2>1 DEF NoJob, Started
<1>7. CASE NextPhase(j)
  <2>1. IsNextPhase(b, new) /\ es = fs
    BY <1>1, <1>2, <1>3, <1>4, <1>7, NextPhaseHolds DEF NextPhase, tables
  <2>2. PICK n \in 1..4 : n = new.phase
    BY <1>3
  <2>3. new.todo = Rows(es, Phases[n], b.days)
    BY <1>2, <1>6, <2>1, <2>2 DEF IsNextPhase
  <2> QED BY <1>2, <1>3, <2>1, <2>3, PhaseRowsExact
<1>8. CASE Written(j) \/ WriteProject(j)
  <2>1. job[j].looked /\ job' = Done(j)
    <3>1. CASE Written(j)
      BY <1>1, <3>1, WritesAre DEF Write, IsWritten
    <3>2. CASE WriteProject(j)
      BY <3>2 DEF WriteProject
    <3> QED BY <1>8, <3>1, <3>2
  <2>2. new.phase = b.phase /\ new.todo \subseteq b.todo
    BY <1>1, <1>3, <1>4, <2>1, WriteFreesJob
  <2> QED BY <1>3, <1>5, <2>2
<1>9. ASSUME NEW r \in job[j].todo, LookUp(j, r)
      PROVE  IsFromEvents(fs, row) /\ (IsOne(fs, row) => RowExact(fs, row))
  <2>1. new.phase = b.phase /\ new.todo = b.todo
    BY <1>1, <1>3, <1>4, <1>9, LookUpsAre
  <2> QED BY <1>3, <1>5, <2>1
<1>10. ASSUME NEW i \in job[j].todo, FindProject(j, i) PROVE FALSE
  <2>1. new.phase = 5
    BY <1>1, <1>3, <1>10, FindingsAre
  <2> QED BY <1>3, <2>1
<1>11. CASE job'[j] = job[j]
  BY <1>3, <1>4, <1>5, <1>11
<1>12. CASE FindExisting(j)
  <2>1. new.phase = b.phase /\ new.todo = b.todo
    BY <1>1, <1>3, <1>4, <1>12, ExistingAre
  <2> QED BY <1>3, <1>5, <2>1
<1>13. ASSUME NEW i \in job[j].todo PROVE ~MappingFails(j, i)
  BY <1>1, FailuresAre
<1> QED BY <1>3, <1>6, <1>7, <1>8, <1>9, <1>10, <1>11, <1>12, <1>13, JobStepsAre

\* While a job is between a look-up and its write, no one else writes.
LEMMA LookUpsStayExact ==
  ASSUME UsageShapes, OneAtATime, RowsExact, LookUpsExact, SummariesAreUnique, EventsAreSummed, SummariesAreExact,
         Next, orderly'
  PROVE  LookUpsExact'
<1>1. TablesHold /\ JobsHold /\ ProjectsHold /\ SummariesKept
  BY TablesStay DEF UsageShapes
<1>2. PICK es, fs : es = events /\ fs = events' /\ es \in Seq(EventRow) /\ fs \in Seq(EventRow) /\ IsGrown(es, fs)
  BY EventsGrow
<1>3. SUFFICES ASSUME NEW j \in Job, NEW new, new = job'[j], new.looked, new.phase \in 1..4
               PROVE  /\ new.existing \notin {0, Unsought} => IsSameUse(summaries'[new.existing], new.row)
                      /\ IsOne(fs, new.row) => BeforeExact(fs, new.row, new.before)
                      /\ IsNamed(new.row) /\ new.existing # Unsought => \A k \in DOMAIN summaries' :
                           IsSameUse(summaries'[k], new.row) /\ summaries'[k].day = new.row.day => new.existing = k
  BY <1>2 DEF LookUpsExact, LookUpExact
<1>4. CASE job'[j] = job[j]
  <2>1. JobHolds(new) /\ LookUpExact(new)
    BY <1>1, <1>3, <1>4 DEF JobsHold, LookUpsExact
  <2>2. Busy(j)
    BY <1>1, <1>3, <1>4, FreeJobsDoNothing
  <2>3. DOMAIN fs = DOMAIN es
    BY <1>2, <2>2, NoEventsWhenBusy
  <2>4. /\ DOMAIN summaries' = DOMAIN summaries
        /\ \A i \in DOMAIN summaries : IsRemapped(summaries[i], summaries'[i])
    <3>1. ASSUME NEW k \in Job, NEW s, Write(k, s), IsWritten(job[k], s) PROVE FALSE
      <4>1. job[k].looked /\ job' = Done(k)
        BY <3>1 DEF Write, IsWritten
      <4>2. Busy(k)
        BY <1>1, <4>1, FreeJobsDoNothing
      <4>3. k = j
        BY <2>2, <4>2 DEF OneAtATime
      <4> QED BY <1>1, <1>3, <4>1, <4>3, WriteFreesJob DEF IsFree
    <3> QED BY <3>1, SummariesAreWritten
  <2>5. \A i \in DOMAIN summaries : /\ IsSameUse(summaries[i], new.row) <=> IsSameUse(summaries'[i], new.row)
                                    /\ summaries[i].day = summaries'[i].day
    BY <2>4 DEF IsRemapped, IsSameUse
  <2>6. ASSUME new.existing \notin {0, Unsought} PROVE IsSameUse(summaries'[new.existing], new.row)
    <3>1. new.existing \in DOMAIN summaries /\ IsSameUse(summaries[new.existing], new.row)
      BY <1>3, <2>1, <2>6 DEF JobHolds, LookUpExact
    <3> QED BY <2>5, <3>1
  <2>7. ASSUME IsOne(fs, new.row) PROVE BeforeExact(fs, new.row, new.before)
    <3>1. BeforeExact(es, new.row, new.before)
      BY <1>2, <2>1, <2>7, OneBefore DEF LookUpExact
    <3>2. RowHolds(new.row)
      BY <1>3, <2>1 DEF JobHolds
    <3>3. new.row.day \in Nat
      BY <3>2, UsageAssumption DEF RowHolds, DayRow
    <3> QED BY <1>2, <2>3, <3>1, <3>3, ExactStays
  <2>8. IsNamed(new.row) /\ new.existing # Unsought => \A k \in DOMAIN summaries :
          IsSameUse(summaries[k], new.row) /\ summaries[k].day = new.row.day => new.existing = k
    BY <2>1 DEF LookUpExact
  <2> QED BY <2>4, <2>5, <2>6, <2>7, <2>8
<1>5. ~(new = NoJob) /\ ~(\E days : new = Started(days))
  <2>1. new.phase # 0
    BY <1>3
  <2> QED BY <2>1 DEF NoJob, Started
<1>6. CASE NextPhase(j)
  BY <1>1, <1>3, <1>6, NextPhaseHolds DEF IsFree
<1>7. CASE Written(j) \/ WriteProject(j)
  <2>1. job[j].looked /\ job' = Done(j)
    <3>1. CASE Written(j)
      BY <1>1, <3>1, WritesAre DEF Write, IsWritten
    <3>2. CASE WriteProject(j)
      BY <3>2 DEF WriteProject
    <3> QED BY <1>7, <3>1, <3>2
  <2> QED BY <1>1, <1>3, <2>1, WriteFreesJob DEF IsFree
<1>8. CASE \E r \in job[j].todo : LookUp(j, r)
  <2>1. PICK r \in job[j].todo : LookUp(j, r)
    BY <1>8
  <2>2. /\ job[j].phase \in 1..4 /\ RowHolds(r) /\ new.row = r /\ IsLatest(new.before, r)
        /\ new.existing \in Found(Existing(summaries, r)) \cup {Unsought}
    BY <1>1, <1>3, <2>1, LookUpsAre
  <2>3. UNCHANGED <<events, summaries>>
    BY <2>1, Zenon DEF LookUp, tables
  <2>4. Busy(j) /\ r.day \in job[j].days
    BY <1>1, <2>2, FreeJobsDoNothing DEF JobsHold, JobHolds
  <2>5. stale = {} /\ \A q : q.day < r.day => ~Awaited(q)
    BY <1>1, <2>4, EarlierAreNotAwaited DEF OneAtATime
  <2>6. IsFromEvents(events, r)
    BY <2>2 DEF RowsExact
  <2>7. IsOne(events, r) => BeforeExact(events, r, new.before)
    BY <1>1, <2>2, <2>5, <2>6, FoundBeforeExact
  <2>8. new.existing # Unsought =>
          /\ new.existing # 0 => IsSameUse(summaries[new.existing], r)
          /\ IsNamed(r) => \A n \in DOMAIN summaries :
               IsSameUse(summaries[n], r) /\ summaries[n].day = r.day => new.existing = n
    BY <1>1, <2>2, FoundExactly
  <2> QED BY <1>2, <2>2, <2>3, <2>7, <2>8
<1>9. ASSUME NEW i \in job[j].todo, FindProject(j, i) PROVE FALSE
  <2>1. new.phase = 5
    BY <1>1, <1>3, <1>9, FindingsAre
  <2> QED BY <1>3, <2>1
<1>10. CASE FindExisting(j)
  <2>1. PICK b : b = job[j] /\ JobHolds(b) /\ LookUpExact(b) /\ b.looked /\ b.phase \in 1..4
    BY <1>1, <1>10, ExistingAre DEF JobsHold, LookUpsExact
  <2>2. RowHolds(b.row) /\ new.row = b.row /\ new.before = b.before /\ new.existing \in Found(Existing(summaries, b.row))
    BY <1>1, <1>3, <1>10, <2>1, ExistingAre
  <2>3. UNCHANGED <<events, summaries>>
    BY <1>1, <1>10, ExistingAre
  <2>4. IsOne(events, b.row) => BeforeExact(events, b.row, new.before)
    BY <2>1, <2>2 DEF LookUpExact
  <2>5. /\ new.existing # 0 => IsSameUse(summaries[new.existing], b.row)
        /\ IsNamed(b.row) => \A n \in DOMAIN summaries :
             IsSameUse(summaries[n], b.row) /\ summaries[n].day = b.row.day => new.existing = n
    BY <1>1, <2>2, FoundExactly
  <2> QED BY <1>2, <2>2, <2>3, <2>4, <2>5
<1>11. ASSUME NEW i \in job[j].todo PROVE ~MappingFails(j, i)
  BY <1>1, FailuresAre
<1> QED BY <1>3, <1>4, <1>5, <1>6, <1>7, <1>8, <1>9, <1>10, <1>11, JobStepsAre

-----------------------------------------------------------------------------
(* What is exact: steps that write no summary.                             *)

\* The phase for the usage of an event reads a row of that use and day.
LEMMA PhaseReadsUse ==
  ASSUME NEW es \in Seq(EventRow), NEW days, NEW r, IsOne(es, r), NEW i \in DOMAIN es, IsOf(es[i], r), r.day \in days,
         NEW n, n = PhaseFor(r)
  PROVE  \E row \in Rows(es, Phases[n], days) : IsSameUse(row, r) /\ row.day = r.day
<1>1. PICK e \in EventRow : e = es[i]
  BY ElementOfSeq, LenProperties
<1>2. e.personal \in BOOLEAN /\ e.source \in Source
  BY EventsHold
<1>3. IsSameUse(e, r) /\ e.day = r.day /\ e.slug # NoSlug /\ e.personal = r.personal /\ e.source = r.source
  BY <1>1, UseOfOwn DEF IsOf, IsUse
<1>4. n \in 1..4
  BY DEF PhaseFor
<1>5. InPhase(Phases[n], e)
  BY <1>2, <1>3, PhaseNames DEF PhaseFor, InPhase, Source
<1>6. PICK row \in Rows(es, Phases[n], days), I \in SUBSET (DOMAIN es) : IsRowOf(row, Phases[n], es, days, I) /\ i \in I
  BY <1>1, <1>3, <1>5, EventsHaveRows
<1>7. PICK m \in I : IsReport(row, es[m])
  BY <1>6, RowsHold DEF IsRowOf
<1>8. PICK f \in EventRow : f = es[m]
  BY <1>7, ElementOfSeq, LenProperties
<1>9. InPhase(Phases[n], f) /\ GroupKey(Phases[n], e) = GroupKey(Phases[n], f)
  BY <1>1, <1>6, <1>7, <1>8 DEF IsRowOf
<1>10. IsUse(f, e) /\ f.day = e.day
  BY <1>4, <1>5, <1>9, GroupsAreUses
<1>11. IsUse(f, r)
  BY <1>3, <1>10, UseIsSame
<1>12. IsSameUse(f, r)
  BY <1>1, <1>3, <1>7, <1>8, <1>11, UsesOfOne DEF IsOf
<1>13. IsSameUse(row, r) /\ row.day = r.day
  BY <1>3, <1>7, <1>8, <1>10, <1>12 DEF IsReport, IsSameUse
<1> QED BY <1>6, <1>13

\* Usage that is not waited for after a step that writes nothing was not before
\* it, and comes before all that is new.
LEMMA WaitsUntilWritten ==
  ASSUME UsageShapes, OneAtATime, Next, orderly', \A j \in Job : ~Written(j),
         NEW r, IsOne(events, r), NEW i \in DOMAIN events, IsOf(events[i], r),
         r.day \notin stale', \A j \in Job : ~Waits(job'[j], r)
  PROVE  r.day \notin stale /\ ~Awaited(r) /\ \A k \in DOMAIN events' \ DOMAIN events : r.day < events'[k].day
<1>1. TablesHold /\ JobsHold /\ ProjectsHold /\ SummariesKept
  BY TablesStay DEF UsageShapes
<1>2. PICK es, fs : es = events /\ fs = events' /\ es \in Seq(EventRow) /\ fs \in Seq(EventRow) /\ IsGrown(es, fs)
  BY EventsGrow
<1>3. r.day \in Nat /\ \A k \in DOMAIN fs : fs[k].day \in Nat
  <2>1. \A k \in DOMAIN fs : fs[k] \in EventRow
    BY <1>2, ElementOfSeq, LenProperties
  <2>2. es[i] \in EventRow
    BY <1>2, ElementOfSeq, LenProperties
  <2> QED BY <1>2, <2>1, <2>2, EventsHold, UsageAssumption DEF IsOf
<1>4. ASSUME \A j \in Job : ~Busy(j) PROVE ~Awaited(r)
  BY <1>4 DEF Awaited, Waits, Busy
<1>5. CASE \E c \in Collector : Save(c)
  <2>1. PICK c \in Collector : Save(c)
    BY <1>5
  <2>2. ~Awaited(r)
    BY <1>4, <2>1, SavesInOrder
  <2>3. \A k \in DOMAIN fs \ DOMAIN es : r.day <= fs[k].day
    BY <1>2, <2>1, SavesInOrder DEF IsOf
  <2>4. r.day \notin stale /\ \A k \in DOMAIN fs \ DOMAIN es : r.day # fs[k].day
    <3>1. CASE stale \subseteq stale' /\ \A k \in DOMAIN fs \ DOMAIN es : fs[k].day \in stale'
      BY <3>1
    <3>2. CASE \E j \in Job, d \in Day :
                 /\ stale \subseteq {d} /\ (\A k \in DOMAIN fs \ DOMAIN es : fs[k].day = d)
                 /\ job'[j].days = {d} /\ job'[j].phase = 0
      <4>1. PICK j \in Job, d \in Day :
                 /\ stale \subseteq {d} /\ (\A k \in DOMAIN fs \ DOMAIN es : fs[k].day = d)
                 /\ job'[j].days = {d} /\ job'[j].phase = 0
        BY <3>2
      <4>2. PICK new : new = job'[j] /\ new.days = {d} /\ new.phase = 0 /\ ~Waits(new, r)
        BY <4>1
      <4>3. 0 < PhaseFor(r)
        BY DEF PhaseFor
      <4>4. r.day # d
        BY <1>3, <4>2, <4>3 DEF Waits
      <4> QED BY <4>1, <4>4
    <3> QED BY <1>2, <2>1, <3>1, <3>2, SavesInOrder
  <2>5. \A k \in DOMAIN fs \ DOMAIN es : r.day < fs[k].day
    BY <1>3, <2>3, <2>4
  <2> QED BY <1>2, <2>2, <2>4, <2>5
<1>6. CASE \E j \in Job, first, last \in Day : Trigger(j, first, last)
  <2>1. Idle /\ stale = {} /\ UNCHANGED events
    BY <1>6 DEF Trigger, tables
  <2> QED BY <1>4, <2>1 DEF Idle
<1>7. CASE \E c \in Collector, b \in Batch : Receive(c, b)
  <2>1. Idle /\ UNCHANGED <<stale, events>>
    BY <1>7 DEF Receive, tables
  <2> QED BY <1>4, <2>1 DEF Idle
<1>8. CASE OnlyMaps
  BY <1>8 DEF OnlyMaps, Awaited
<1>9. CASE \E j \in Job : Aggregation(j)
  <2>1. PICK j \in Job : Aggregation(j)
    BY <1>9
  <2>2. UNCHANGED <<events, stale>> /\ \A k \in Job \ {j} : job'[k] = job[k]
    BY <2>1, AggregationsAre
  <2>3. PICK b, new : b = job[j] /\ new = job'[j] /\ JobHolds(b) /\ ~Waits(new, r)
    BY <1>1 DEF JobsHold
  <2>4. PhaseFor(r) \in 1..4 /\ b.phase \in 0..5
    BY <2>3 DEF PhaseFor, JobHolds
  <2>5. CASE NextPhase(j)
    <3>1. b.todo = {} /\ IsNextPhase(b, new)
      BY <1>1, <2>3, <2>5, NextPhaseHolds
    <3>2. SUFFICES ASSUME Waits(b, r) PROVE FALSE
      BY <2>2, <2>3 DEF Awaited
    <3>3. b.phase < PhaseFor(r) /\ r.day \in b.days /\ \A d \in b.days : d <= r.day
      BY <3>1, <3>2 DEF Waits
    <3>4. new.phase = b.phase + 1 /\ new.phase \in 1..4 /\ new.days = b.days /\ new.phase <= PhaseFor(r)
      BY <2>4, <3>1, <3>3 DEF IsNextPhase
    <3>5. new.todo = Rows(es, Phases[new.phase], b.days)
      BY <1>2, <2>4, <3>1, <3>3, <3>4 DEF IsNextPhase
    <3>6. new.phase = PhaseFor(r)
      BY <2>3, <2>4, <3>3, <3>4 DEF Waits
    <3>7. \E row \in new.todo : IsSameUse(row, r) /\ row.day = r.day
      BY <1>2, <3>3, <3>5, <3>6, PhaseReadsUse
    <3> QED BY <2>3, <3>3, <3>4, <3>7 DEF Waits
  <2>6. CASE WriteProject(j)
    <3>1. b.phase = 5
      BY <1>1, <2>3, <2>6, MappingsAre
    <3>2. ~Waits(b, r)
      BY <2>4, <3>1 DEF Waits
    <3> QED BY <2>2, <2>3, <3>2 DEF Awaited
  <2>7. CASE \E n \in job[j].todo : FindProject(j, n)
    <3>1. b.phase = 5
      BY <1>1, <2>3, <2>7, FindingsAre
    <3>2. ~Waits(b, r)
      BY <2>4, <3>1 DEF Waits
    <3> QED BY <2>2, <2>3, <3>2 DEF Awaited
  <2>8. CASE \E row \in job[j].todo : LookUp(j, row)
    <3>1. new.phase = b.phase /\ new.days = b.days /\ new.todo = b.todo
      BY <1>1, <2>3, <2>8, LookUpsAre
    <3>2. ~Waits(b, r)
      BY <2>3, <3>1 DEF Waits
    <3> QED BY <2>2, <2>3, <3>2 DEF Awaited
  <2>9. CASE FindExisting(j)
    <3>1. new.phase = b.phase /\ new.days = b.days /\ new.todo = b.todo
      BY <1>1, <2>3, <2>9, ExistingAre
    <3>2. ~Waits(b, r)
      BY <2>3, <3>1 DEF Waits
    <3> QED BY <2>2, <2>3, <3>2 DEF Awaited
  <2>10. ASSUME NEW n \in job[j].todo PROVE ~MappingFails(j, n)
    BY <1>1, FailuresAre
  <2> QED BY <2>1, <2>5, <2>6, <2>7, <2>8, <2>9, <2>10 DEF Aggregation, Written
<1> QED BY <1>5, <1>6, <1>7, <1>8, <1>9, StepsInOrder

LEMMA WaitsOfSameUse ==
  ASSUME NEW b, NEW r, NEW t, IsSameUse(r, t), r.day = t.day, Waits(b, r)
  PROVE  Waits(b, t)
<1>1. PhaseFor(r) = PhaseFor(t)
  BY DEF PhaseFor, IsSameUse
<1>2. \A row : IsSameUse(row, r) => IsSameUse(row, t)
  BY SameUses
<1> QED BY <1>1, <1>2 DEF Waits

\* What is new is stale, or the aggregation that starts is to take it.
LEMMA NewEventsWait ==
  ASSUME UsageShapes, OneAtATime, Next, orderly', NEW i \in DOMAIN events' \ DOMAIN events, NEW e, e = events'[i]
  PROVE  e.day \in stale' \/ \E j \in Job : Waits(job'[j], e)
<1>1. CASE \E c \in Collector : Save(c)
  <2>1. PICK c \in Collector : Save(c)
    BY <1>1
  <2>2. CASE \A k \in DOMAIN events' \ DOMAIN events : events'[k].day \in stale'
    BY <2>2
  <2>3. CASE \E j \in Job, d \in Day : /\ \A k \in DOMAIN events' \ DOMAIN events : events'[k].day = d
                                       /\ job'[j].days = {d} /\ job'[j].phase = 0
    <3>1. PICK j \in Job, d \in Day : e.day = d /\ job'[j].days = {d} /\ job'[j].phase = 0
      BY <2>3
    <3>2. PICK new : new = job'[j] /\ new.days = {d} /\ new.phase = 0
      BY <3>1
    <3>3. 0 < PhaseFor(e) /\ d \in Nat
      BY UsageAssumption DEF PhaseFor
    <3>4. Waits(new, e)
      BY <3>1, <3>2, <3>3 DEF Waits
    <3> QED BY <3>2, <3>4
  <2> QED BY <2>1, <2>2, <2>3, SavesInOrder
<1>2. CASE \E j \in Job, first, last \in Day : Trigger(j, first, last)
  BY <1>2 DEF Trigger, tables
<1>3. CASE \E c \in Collector, b \in Batch : Receive(c, b)
  BY <1>3 DEF Receive, tables
<1>4. CASE \E j \in Job : Aggregation(j)
  BY <1>4, AggregationsAre
<1>5. CASE OnlyMaps
  BY <1>5 DEF OnlyMaps
<1> QED BY <1>1, <1>2, <1>3, <1>4, <1>5, StepsInOrder

\* Nothing is written: the tables stay exact, since what is new waits.
LEMMA UnwrittenStayExact ==
  ASSUME UsageShapes, OneAtATime, SummariesAreOfEvents, SummariesAreUnique, EventsAreSummed, SummariesAreExact,
         Next, orderly', \A j \in Job : \A s : ~(Write(j, s) /\ IsWritten(job[j], s))
  PROVE  SummariesAreOfEvents' /\ SummariesAreUnique' /\ EventsAreSummed' /\ SummariesAreExact'
<1>1. TablesHold /\ JobsHold /\ ProjectsHold /\ SummariesKept
  BY TablesStay DEF UsageShapes
<1>2. PICK es, fs : es = events /\ fs = events' /\ es \in Seq(EventRow) /\ fs \in Seq(EventRow) /\ IsGrown(es, fs)
  BY EventsGrow
<1>3. PICK ss, ts : /\ ss = summaries /\ ts = summaries' /\ DOMAIN ts = DOMAIN ss
                    /\ \A i \in DOMAIN ss : IsRemapped(ss[i], ts[i])
  BY SummariesAreWritten
<1>4. \A k \in DOMAIN ss : IsSameUse(ss[k], ts[k]) /\ IsSameUse(ts[k], ss[k]) /\ ss[k].day = ts[k].day
  BY <1>3 DEF IsRemapped, IsSameUse
<1>5. \A e : \A k \in DOMAIN ss : IsOf(e, ss[k]) <=> IsOf(e, ts[k])
  BY <1>3 DEF IsRemapped, IsOf, IsUse
<1>6. \A i \in DOMAIN es : i \in DOMAIN fs /\ \A s : IsOf(es[i], s) => IsOf(fs[i], s)
  BY <1>2 DEF IsGrown, IsSameEvent, IsReport, IsOf, IsUse
<1>7. \A j \in Job : ~Written(j)
  BY <1>1, WritesAre
<1>8. SummariesAreOfEvents'
  <2>1. SUFFICES ASSUME NEW k \in DOMAIN ts PROVE \E i \in DOMAIN fs : IsOf(fs[i], ts[k])
    BY <1>2, <1>3 DEF SummariesAreOfEvents
  <2>2. PICK i \in DOMAIN es : IsOf(es[i], ss[k])
    BY <1>2, <1>3 DEF SummariesAreOfEvents
  <2> QED BY <1>3, <1>5, <1>6, <2>2
<1>9. SummariesAreUnique'
  <2>1. SUFFICES ASSUME NEW k \in DOMAIN ts, NEW n \in DOMAIN ts, IsNamed(ts[k]), IsSameUse(ts[k], ts[n]),
                        ts[k].day = ts[n].day
                 PROVE  k = n
    BY <1>2, <1>3 DEF SummariesAreUnique
  <2>2. IsNamed(ss[k])
    BY <1>3, <1>4, <2>1, OneOfSameUse
  <2>3. IsSameUse(ss[k], ss[n]) /\ ss[k].day = ss[n].day
    BY <1>3, <1>4, <2>1, SameUses
  <2> QED BY <1>2, <1>3, <2>2, <2>3 DEF SummariesAreUnique
<1>10. EventsAreSummed'
  <2>1. SUFFICES ASSUME NEW i \in DOMAIN fs, NEW e, e = fs[i], e.slug # NoSlug, e.day \notin stale', IsOne(fs, e),
                        \A j \in Job : ~Waits(job'[j], e)
                 PROVE  \E k \in DOMAIN ts : IsSameUse(e, ts[k]) /\ ts[k].day = e.day
    BY <1>2, <1>3 DEF EventsAreSummed, Awaited
  <2>2. i \in DOMAIN es
    BY <1>2, <2>1, NewEventsWait
  <2>3. PICK f : f = es[i]
    OBVIOUS
  <2>4. IsReport(e, f)
    BY <1>2, <2>1, <2>2, <2>3 DEF IsGrown, IsSameEvent
  <2>5. IsOf(f, e) /\ IsSameUse(f, e) /\ IsSameUse(e, f) /\ e.day = f.day /\ f.slug # NoSlug
    BY <2>1, <2>4 DEF IsReport, IsOf, IsUse, IsSameUse
  <2>6. IsOne(es, e) /\ IsOne(es, f)
    BY <1>2, <2>1, <2>5, OneBefore, OneOfSameUse
  <2>7. e.day \notin stale /\ ~Awaited(e)
    BY <1>2, <1>7, <2>1, <2>2, <2>3, <2>5, <2>6, WaitsUntilWritten
  <2>8. ~Awaited(f)
    BY <2>5, <2>7, WaitsOfSameUse DEF Awaited
  <2>9. PICK k \in DOMAIN ss : IsSameUse(f, ss[k]) /\ ss[k].day = f.day
    BY <1>2, <1>3, <2>2, <2>3, <2>5, <2>6, <2>7, <2>8 DEF EventsAreSummed
  <2>10. IsSameUse(e, ts[k]) /\ ts[k].day = e.day
    BY <1>4, <2>5, <2>9, SameUses
  <2> QED BY <1>3, <2>10
<1>11. SummariesAreExact'
  <2>1. SUFFICES ASSUME NEW k \in DOMAIN ts, NEW t, t = ts[k], t.day \notin stale', IsOne(fs, t),
                        \A j \in Job : ~Waits(job'[j], t)
                 PROVE  SummaryExact(fs, t)
    BY <1>2, <1>3 DEF SummariesAreExact, Awaited
  <2>2. PICK s : s = ss[k]
    OBVIOUS
  <2>3. IsSameUse(s, t) /\ IsSameUse(t, s) /\ s.day = t.day /\ IsRemapped(s, t) /\ SummaryHolds(s)
    BY <1>1, <1>3, <1>4, <2>1, <2>2 DEF TablesHold
  <2>4. PICK i \in DOMAIN es : IsOf(es[i], t)
    BY <1>2, <1>3, <1>5, <2>1, <2>2 DEF SummariesAreOfEvents
  <2>5. IsOne(es, t) /\ IsOne(es, s)
    BY <1>2, <2>1, <2>3, OneBefore, OneOfSameUse
  <2>6. t.day \notin stale /\ ~Awaited(t) /\ \A n \in DOMAIN fs \ DOMAIN es : t.day < fs[n].day
    BY <1>2, <1>7, <2>1, <2>4, <2>5, WaitsUntilWritten
  <2>7. ~Awaited(s)
    BY <2>3, <2>6, WaitsOfSameUse DEF Awaited
  <2>8. SummaryExact(es, s)
    BY <1>2, <1>3, <2>1, <2>2, <2>3, <2>5, <2>6, <2>7 DEF SummariesAreExact
  <2>9. SummaryExact(es, t)
    BY <2>3, <2>8, ExactOfSameUse DEF IsRemapped
  <2>10. t.day \in Nat
    BY <2>3, UsageAssumption DEF SummaryHolds, SummaryRow
  <2> QED BY <1>2, <2>6, <2>9, <2>10, ExactStays
<1> QED BY <1>8, <1>9, <1>10, <1>11

-----------------------------------------------------------------------------
(* What is exact: steps that write a summary.                              *)

\* One row of the table is written, the one there was of that use and day if any.
LEMMA WrittenRow ==
  ASSUME TablesHold, JobsHold, LookUpsExact, NEW j \in Job, NEW s, IsWritten(job[j], s), Write(j, s)
  PROVE  \E n : \E t :
           /\ DOMAIN summaries' = DOMAIN summaries \cup {n} /\ summaries'[n] = t
           /\ \A i \in DOMAIN summaries \ {n} : summaries'[i] = summaries[i]
           /\ IsSameUse(t, job[j].row) /\ t.day = job[j].row.day /\ t.personal = job[j].row.personal
           /\ t.ids = job[j].row.ids
           /\ t.total = s.total /\ t.instances = s.instances
           /\ IF n \in DOMAIN summaries
              THEN n = job[j].existing /\ IsSameUse(summaries[n], job[j].row) /\ summaries[n].day = job[j].row.day
              ELSE job[j].existing = 0
<1>1. PICK b : b = job[j] /\ JobHolds(b) /\ b.looked /\ b.phase \in 1..4
  BY DEF JobsHold, IsWritten
<1>2. PICK row : row = b.row /\ IsReport(s, row)
  BY <1>1, WrittenHolds
<1>3. PICK n, t : IsPut(b.existing, s, n, t) /\ IsFound(t, row)
  BY <1>1, <1>2, PutHolds
<1>6. b.existing # Unsought
  BY <1>1 DEF Write
<1>4. CASE b.existing = 0
  <2>1. t = s /\ n \notin DOMAIN summaries
    BY <1>3, <1>4 DEF IsPut
  <2>2. IsSameUse(t, row) /\ t.day = row.day /\ t.personal = row.personal /\ t.ids = row.ids
    BY <1>2, <2>1 DEF IsReport, IsSameUse
  <2> QED BY <1>1, <1>2, <1>3, <1>4, <2>1, <2>2 DEF IsPut
<1>5. CASE b.existing # 0
  <2>1. PICK old : old = summaries[n]
    OBVIOUS
  <2>2. n = b.existing /\ n \in DOMAIN summaries /\ t = Updated(old, s)
    BY <1>3, <1>5, <2>1 DEF IsPut
  <2>3. SummaryHolds(old) /\ IsFound(old, row) /\ IsSameUse(old, row)
    BY <1>1, <1>2, <1>5, <1>6, <2>1, <2>2 DEF TablesHold, JobHolds, LookUpsExact, LookUpExact
  <2>4. t.total = s.total /\ t.instances = s.instances /\ t.ids = s.ids
    BY <1>1, <1>2, <2>2, <2>3, UpdatedHolds
  <2>5. t.ids = row.ids
    BY <1>2, <2>4 DEF IsReport
  <2>6. IsSameUse(t, row) /\ t.day = row.day /\ t.personal = row.personal
    BY <1>3, <2>5 DEF IsFound, IsSameUse
  <2>7. IsSameUse(summaries[n], row) /\ summaries[n].day = row.day
    BY <2>1, <2>3 DEF IsFound
  <2> QED BY <1>1, <1>2, <1>3, <2>2, <2>4, <2>5, <2>6, <2>7 DEF IsPut
<1> QED BY <1>4, <1>5

\* What is awaited no more is what was written.
LEMMA WaitsNoMore ==
  ASSUME JobsHold, SummariesKept, NEW j \in Job, job[j].looked, job' = Done(j), NEW r, Awaited(r),
         \A k \in Job : ~Waits(job'[k], r)
  PROVE  IsSameUse(job[j].row, r) /\ job[j].row.day = r.day
<1>1. PICK b, new : b = job[j] /\ new = job'[j] /\ JobHolds(b)
  BY DEF JobsHold
<1>2. new.phase = b.phase /\ new.days = b.days /\ new.todo = b.todo \ {b.row} /\ \A k \in Job \ {j} : job'[k] = job[k]
  BY <1>1, WriteFreesJob
<1>3. Waits(b, r) /\ ~Waits(new, r)
  BY <1>1, <1>2 DEF Awaited
<1>4. \E row \in b.todo : IsSameUse(row, r) /\ row.day = r.day /\ row \notin new.todo
  BY <1>2, <1>3 DEF Waits
<1> QED BY <1>1, <1>2, <1>4

\* A summary is written: it is the one of its use and day, and exact.
LEMMA WrittenStayExact ==
  ASSUME UsageShapes, OneAtATime, EventsInOrder, RowsExact, LookUpsExact,
         SummariesAreOfEvents, SummariesAreUnique, EventsAreSummed, SummariesAreExact,
         Next, NEW j \in Job, NEW s, Write(j, s), IsWritten(job[j], s)
  PROVE  SummariesAreOfEvents' /\ SummariesAreUnique' /\ EventsAreSummed' /\ SummariesAreExact'
<1>1. TablesHold /\ JobsHold /\ SummariesKept
  BY TablesStay DEF UsageShapes
<1>2. PICK es \in Seq(EventRow) : es = events /\ es = events' /\ UNCHANGED stale
  BY <1>1 DEF TablesHold, Write, ghosts
<1>3. PICK b, row : /\ b = job[j] /\ row = b.row /\ JobHolds(b) /\ b.looked /\ b.phase \in 1..4 /\ row \in b.todo
                    /\ RowHolds(row) /\ job' = Done(j) /\ b.existing # Unsought
  BY <1>1 DEF JobsHold, IsWritten, Write
<1>4. stale = {}
  BY <1>1, <1>3, FreeJobsDoNothing DEF OneAtATime
<1>5. IsFromEvents(es, row) /\ (IsOne(es, row) => RowExact(es, row))
  BY <1>2, <1>3 DEF RowsExact
<1>6. LookUpExact(b)
  BY <1>3 DEF LookUpsExact
<1>7. PICK ss, ts : ss = summaries /\ ts = summaries' /\ DOMAIN ss \subseteq Nat \ {0}
  <2>1. DOMAIN summaries \subseteq Nat \ {0}
    BY <1>1, TablesAreFinite DEF TablesHold
  <2> QED BY <2>1
<1>8. PICK n, t :
           /\ DOMAIN ts = DOMAIN ss \cup {n} /\ ts[n] = t
           /\ \A i \in DOMAIN ss \ {n} : ts[i] = ss[i]
           /\ IsSameUse(t, row) /\ t.day = row.day /\ t.personal = row.personal /\ t.ids = row.ids
           /\ t.total = s.total /\ t.instances = s.instances
           /\ IF n \in DOMAIN ss THEN n = b.existing /\ IsSameUse(ss[n], row) /\ ss[n].day = row.day
              ELSE b.existing = 0
  <2>1. PICK n, t :
           /\ DOMAIN summaries' = DOMAIN summaries \cup {n} /\ summaries'[n] = t
           /\ \A i \in DOMAIN summaries \ {n} : summaries'[i] = summaries[i]
           /\ IsSameUse(t, job[j].row) /\ t.day = job[j].row.day /\ t.personal = job[j].row.personal
           /\ t.ids = job[j].row.ids
           /\ t.total = s.total /\ t.instances = s.instances
           /\ IF n \in DOMAIN summaries
              THEN n = job[j].existing /\ IsSameUse(summaries[n], job[j].row) /\ summaries[n].day = job[j].row.day
              ELSE job[j].existing = 0
    BY <1>1, WrittenRow
  <2> QED BY <1>3, <1>7, <2>1
<1>9. ASSUME NEW k \in DOMAIN ss, IsNamed(row), IsSameUse(ss[k], row), ss[k].day = row.day PROVE k = n
  <2>1. b.existing = k
    BY <1>2, <1>3, <1>6, <1>7, <1>9 DEF LookUpExact
  <2> QED BY <1>7, <1>8, <2>1
<1>10. ASSUME NEW r, ~(IsSameUse(row, r) /\ row.day = r.day), \A k \in Job : ~Waits(job'[k], r)
       PROVE  ~Awaited(r)
  BY <1>1, <1>3, <1>10, WaitsNoMore
<1>11. SummariesAreOfEvents'
  <2>1. SUFFICES ASSUME NEW k \in DOMAIN ts PROVE \E i \in DOMAIN es : IsOf(es[i], ts[k])
    BY <1>2, <1>7 DEF SummariesAreOfEvents
  <2>2. CASE k # n
    BY <1>2, <1>7, <1>8, <2>2 DEF SummariesAreOfEvents
  <2>3. CASE k = n
    <3>1. PICK i \in DOMAIN es : IsReport(row, es[i]) /\ es[i].slug # NoSlug
      BY <1>5 DEF IsFromEvents
    <3>2. IsUse(es[i], row) /\ es[i].day = row.day /\ es[i].personal = row.personal /\ es[i].ids = row.ids
      BY <3>1 DEF IsReport, IsUse
    <3>3. IsUse(es[i], t)
      BY <1>8, <3>2, UseIsSame
    <3> QED BY <1>8, <2>3, <3>1, <3>2, <3>3 DEF IsOf
  <2> QED BY <2>2, <2>3
<1>12. SummariesAreUnique'
  <2>1. SUFFICES ASSUME NEW k \in DOMAIN ts, NEW m \in DOMAIN ts, IsNamed(ts[k]), IsSameUse(ts[k], ts[m]),
                        ts[k].day = ts[m].day
                 PROVE  k = m
    BY <1>2, <1>7 DEF SummariesAreUnique
  <2>2. CASE k # n /\ m # n
    <3>1. k \in DOMAIN ss /\ m \in DOMAIN ss /\ ts[k] = ss[k] /\ ts[m] = ss[m]
      BY <1>8, <2>2
    <3> QED BY <1>2, <1>7, <2>1, <3>1 DEF SummariesAreUnique
  <2>3. CASE k = n /\ m # n
    <3>1. m \in DOMAIN ss /\ ts[m] = ss[m]
      BY <1>8, <2>3
    <3>2. IsSameUse(row, t) /\ IsSameUse(ss[m], row) /\ ss[m].day = row.day
      BY <1>8, <2>1, <2>3, <3>1, SameUses
    <3>3. IsNamed(row)
      BY <1>8, <2>1, <2>3, OneOfSameUse
    <3> QED BY <1>9, <2>3, <3>1, <3>2, <3>3
  <2>4. CASE k # n /\ m = n
    <3>1. k \in DOMAIN ss /\ ts[k] = ss[k]
      BY <1>8, <2>4
    <3>2. IsSameUse(ss[k], row) /\ ss[k].day = row.day
      BY <1>8, <2>1, <2>4, <3>1, SameUses
    <3>3. IsNamed(row)
      BY <2>1, <3>1, <3>2, OneOfSameUse
    <3> QED BY <1>9, <2>4, <3>1, <3>2, <3>3
  <2> QED BY <2>2, <2>3, <2>4
<1>13. EventsAreSummed'
  <2>1. SUFFICES ASSUME NEW i \in DOMAIN es, NEW e, e = es[i], e.slug # NoSlug, IsOne(es, e),
                        \A k \in Job : ~Waits(job'[k], e)
                 PROVE  \E k \in DOMAIN ts : IsSameUse(e, ts[k]) /\ ts[k].day = e.day
    BY <1>2, <1>7 DEF EventsAreSummed, Awaited
  <2>2. CASE IsSameUse(row, e) /\ row.day = e.day
    <3>1. IsSameUse(e, t) /\ t.day = e.day
      BY <1>8, <2>2, SameUses
    <3> QED BY <1>8, <3>1
  <2>3. CASE ~(IsSameUse(row, e) /\ row.day = e.day)
    <3>1. ~Awaited(e)
      BY <1>10, <2>1, <2>3
    <3>2. PICK k \in DOMAIN ss : IsSameUse(e, ss[k]) /\ ss[k].day = e.day
      BY <1>2, <1>4, <1>7, <2>1, <3>1 DEF EventsAreSummed
    <3>3. CASE k # n
      BY <1>8, <3>2, <3>3
    <3>4. CASE k = n
      <4>1. IsSameUse(e, t) /\ t.day = e.day
        BY <1>8, <3>2, <3>4, SameUses
      <4> QED BY <1>8, <4>1
    <3> QED BY <3>3, <3>4
  <2> QED BY <2>2, <2>3
<1>14. SummariesAreExact'
  <2>1. SUFFICES ASSUME NEW k \in DOMAIN ts, IsOne(es, ts[k]), \A m \in Job : ~Waits(job'[m], ts[k])
                 PROVE  SummaryExact(es, ts[k])
    BY <1>2, <1>7 DEF SummariesAreExact, Awaited
  <2>2. CASE k = n
    <3>1. IsOne(es, row)
      BY <1>8, <2>1, <2>2, OneOfSameUse
    <3>2. RowExact(es, row) /\ BeforeExact(es, row, b.before)
      BY <1>2, <1>3, <1>5, <1>6, <3>1 DEF LookUpExact
    <3>3. \A i, m \in DOMAIN es : i < m => es[i].day <= es[m].day
      BY <1>2, <1>4 DEF EventsInOrder
    <3>4. b.before.total \in Nat
      BY <1>3 DEF JobHolds
    <3>5. SummaryExact(es, s)
      BY <1>3, <3>2, <3>3, <3>4, WrittenExact
    <3>6. IsReport(s, row)
      BY <1>3, WrittenHolds
    <3>7. IsSameUse(s, t) /\ s.day = t.day
      BY <1>8, <3>6, SameUses DEF IsReport, IsSameUse
    <3>8. SummaryExact(es, t)
      BY <1>8, <3>5, <3>7, ExactOfSameUse
    <3> QED BY <1>8, <2>2, <3>8
  <2>3. CASE k # n
    <3>1. k \in DOMAIN ss /\ ts[k] = ss[k]
      BY <1>8, <2>3
    <3>2. ~(IsSameUse(row, ss[k]) /\ row.day = ss[k].day)
      <4>1. SUFFICES ASSUME IsSameUse(row, ss[k]), row.day = ss[k].day PROVE FALSE
        OBVIOUS
      <4>2. IsSameUse(ss[k], row)
        BY <4>1, SameUses
      <4>3. IsNamed(row)
        BY <2>1, <3>1, <4>2, OneOfSameUse DEF IsOne
      <4> QED BY <1>9, <2>3, <3>1, <4>1, <4>2, <4>3
    <3>3. ~Awaited(ss[k])
      BY <1>10, <2>1, <3>1, <3>2
    <3> QED BY <1>2, <1>4, <1>7, <2>1, <3>1, <3>3 DEF SummariesAreExact
  <2> QED BY <2>2, <2>3
<1> QED BY <1>11, <1>12, <1>13, <1>14

\* As long as days come in order and one thing happens at a time, what is under
\* way and what is stored is exact.
ExactInStep ==
  orderly => /\ OneAtATime /\ EventsInOrder /\ RowsExact /\ LookUpsExact
             /\ SummariesAreOfEvents /\ SummariesAreUnique /\ EventsAreSummed /\ SummariesAreExact

\* Usage of plain projects and users is summed once and exactly, row by row of
\* every aggregation: what a later day adds to is what came before, and what is
\* not summed yet is waited for (aggregateDailySummaries).
THEOREM TotalsStayExact == Spec => []ExactInStep
<1>1. Init => ExactInStep
  <2> SUFFICES ASSUME Init PROVE ExactInStep
    OBVIOUS
  <2>1. DOMAIN events = {} /\ DOMAIN summaries = {}
    BY NoServers DEF Init
  <2>2. \A j \in Job : job[j].phase = 0 /\ ~Busy(j) /\ ~job[j].looked
    BY DEF Init, NoJob, Busy
  <2>3. \A c \in Collector : incoming[c] = NoBatch
    BY DEF Init
  <2>4. OneAtATime
    BY <2>2, <2>3 DEF OneAtATime
  <2>5. RowsExact /\ LookUpsExact
    BY <2>2 DEF RowsExact, LookUpsExact
  <2> QED BY <2>1, <2>4, <2>5 DEF ExactInStep, EventsInOrder, SummariesAreOfEvents, SummariesAreUnique,
             EventsAreSummed, SummariesAreExact
<1>2. UsageShapes /\ ExactInStep /\ [Next]_vars => ExactInStep'
  <2> SUFFICES ASSUME UsageShapes, ExactInStep, [Next]_vars PROVE ExactInStep'
    OBVIOUS
  <2>1. CASE UNCHANGED vars
    BY <2>1 DEF vars, ExactInStep, OneAtATime, Busy, EventsInOrder, RowsExact, LookUpsExact, LookUpExact,
       SummariesAreOfEvents, SummariesAreUnique, EventsAreSummed, SummariesAreExact, Awaited
  <2>2. CASE Next
    <3>1. ASSUME orderly'
          PROVE  OneAtATime' /\ EventsInOrder' /\ RowsExact' /\ LookUpsExact'
                 /\ SummariesAreOfEvents' /\ SummariesAreUnique' /\ EventsAreSummed' /\ SummariesAreExact'
      <4>1. orderly
        BY <2>2, <3>1, OrderlyBefore DEF UsageShapes
      <4>2. /\ OneAtATime /\ EventsInOrder /\ RowsExact /\ LookUpsExact
            /\ SummariesAreOfEvents /\ SummariesAreUnique /\ EventsAreSummed /\ SummariesAreExact
        BY <4>1 DEF ExactInStep
      <4>3. OneAtATime' /\ EventsInOrder'
        BY <2>2, <3>1, <4>2, OneAtATimeStays, EventsInOrderStay
      <4>4. RowsExact' /\ LookUpsExact'
        BY <2>2, <3>1, <4>2, RowsStayExact, LookUpsStayExact
      <4>5. SummariesAreOfEvents' /\ SummariesAreUnique' /\ EventsAreSummed' /\ SummariesAreExact'
        <5>1. CASE \E j \in Job : \E s : Write(j, s) /\ IsWritten(job[j], s)
          BY <2>2, <4>2, <5>1, WrittenStayExact
        <5>2. CASE ~(\E j \in Job : \E s : Write(j, s) /\ IsWritten(job[j], s))
          BY <2>2, <3>1, <4>2, <5>2, UnwrittenStayExact
        <5> QED BY <5>1, <5>2
      <4> QED BY <4>3, <4>4, <4>5
    <3> QED BY <3>1 DEF ExactInStep
  <2> QED BY <2>1, <2>2
<1> QED BY <1>1, <1>2, UsageHasItsShapes, PTL DEF Spec

\* Once nothing is under way, each day with plain usage has one summary of it,
\* whose total is exact (aggregateDailySummaries, aggregatePbsAcctSummary,
\* aggregateOpenstackProjectDay).
THEOREM TotalsAreExact == Spec => []ExactInOrder
<1>1. UsageShapes /\ ExactInStep => ExactInOrder
  <2> SUFFICES ASSUME UsageShapes, ExactInStep, orderly, Idle, NEW i \in DOMAIN events,
                      events[i].slug # NoSlug, events[i].day \notin stale, IsPlain(events[i]), NEW mine,
                      mine = {k \in DOMAIN summaries : summaries[k].day = events[i].day /\ i \in About(summaries[k])}
               PROVE  /\ Cardinality(mine) = 1
                      /\ \A k \in mine :
                           LET s == summaries[k]
                               before == {n \in About(s) : events[n].day <= s.day}
                               today == {n \in About(s) : events[n].day = s.day}
                               kept == IF s.personal THEN today ELSE before
                               last == Instances(events, kept)
                           IN  s.total = CASE s.source = "pbs"     -> Counted(events, today)
                                           [] s.source = "pbsAcct" -> Counted(events, before)
                                           [] OTHER                -> Total(last, DOMAIN last)
    BY DEF ExactInOrder
  <2>1. SummariesAreOfEvents /\ SummariesAreUnique /\ EventsAreSummed /\ SummariesAreExact /\ TablesHold
    BY DEF ExactInStep, UsageShapes
  <2>2. PICK es \in Seq(EventRow) : es = events
    BY <2>1 DEF TablesHold
  <2>3. PICK e : e = es[i]
    OBVIOUS
  <2>4. IsOne(es, e)
    BY <2>2, <2>3 DEF IsPlain, IsToldApart, IsOne, IsNamed
  <2>5. \A r : ~Awaited(r)
    BY DEF Idle, Busy, Awaited, Waits
  <2>6. PICK k \in DOMAIN summaries : IsSameUse(e, summaries[k]) /\ summaries[k].day = e.day
    BY <2>1, <2>2, <2>3, <2>4, <2>5 DEF EventsAreSummed
  <2>7. PICK s : s = summaries[k] /\ SummaryHolds(s)
    BY <2>1, <2>6 DEF TablesHold
  <2>8. IsOne(es, s)
    BY <2>4, <2>6, <2>7, OneOfSameUse
  <2>9. k \in mine
    BY <2>2, <2>3, <2>6, UseOfItself DEF About
  <2>10. ASSUME NEW n \in mine PROVE n = k
    <3>1. n \in DOMAIN summaries /\ summaries[n].day = e.day /\ IsUse(e, summaries[n])
      BY <2>2, <2>3, <2>10 DEF About
    <3>2. PICK t : t = summaries[n] /\ t.personal \in BOOLEAN
      BY <2>1, <3>1 DEF TablesHold, SummaryHolds, SummaryRow
    <3>3. PICK m \in DOMAIN es : IsUse(es[m], t) /\ es[m].personal = t.personal
      BY <2>1, <2>2, <3>1, <3>2 DEF SummariesAreOfEvents, IsOf
    <3>4. IsSameUse(e, t)
      BY <2>2, <2>3, <2>4, <3>1, <3>2, <3>3, OneIsAbout
    <3>5. IsSameUse(s, t)
      BY <2>6, <2>7, <3>4, SameUses
    <3> QED BY <2>1, <2>2, <2>6, <2>7, <2>8, <3>1, <3>2, <3>5 DEF SummariesAreUnique, IsOne
  <2>11. mine = {k}
    BY <2>9, <2>10
  <2>12. Cardinality(mine) = 1
    BY <2>11, FS_Singleton
  <2>13. SummaryExact(es, s)
    BY <2>1, <2>2, <2>3, <2>5, <2>6, <2>7, <2>8 DEF SummariesAreExact
  <2>14. PICK T, F : T = Today(es, s) /\ F = SoFar(es, s)
    OBVIOUS
  <2>15. T \in SUBSET (DOMAIN es) /\ F \in SUBSET (DOMAIN es)
    BY <2>14, UsesAreEvents
  <2>16. PICK K, last : K = (IF s.personal THEN T ELSE F) /\ last = Instances(es, K)
    OBVIOUS
  <2>17. K \in SUBSET (DOMAIN es) /\ s.instances \in Servers /\ s.source \in Source
    BY <2>7, <2>15, <2>16 DEF SummaryHolds, SummaryRow
  <2>18. ASSUME s.source = "openstack" PROVE s.total = Total(last, DOMAIN last)
    <3>1. LastSeen(es, K, s.instances) /\ s.total = Total(s.instances, DOMAIN s.instances)
      BY <2>13, <2>14, <2>16, <2>18 DEF SummaryExact
    <3>2. LastSeen(es, K, last) /\ last \in Servers
      BY <2>16, <2>17, InstancesAreLast, InstancesAreServers
    <3>3. last = s.instances
      BY <2>17, <3>1, <3>2, LastSeenIsOne
    <3> QED BY <3>1, <3>3
  <2>19. s.total = CASE s.source = "pbs"     -> Counted(es, T)
                     [] s.source = "pbsAcct" -> Counted(es, F)
                     [] OTHER                -> Total(last, DOMAIN last)
    BY <2>13, <2>14, <2>17, <2>18 DEF SummaryExact, Source
  <2>20. /\ T = {n \in About(s) : events[n].day = s.day}
         /\ F = {n \in About(s) : events[n].day <= s.day}
    BY <2>2, <2>14 DEF Today, SoFar, About
  <2> QED BY <2>2, <2>7, <2>11, <2>12, <2>16, <2>19, <2>20
<1> QED BY <1>1, UsageHasItsShapes, TotalsStayExact, PTL

-----------------------------------------------------------------------------
(* What is shown: sums over disjoint events, and the last day of a series. *)

\* Numbers of which each is used by events of its own are used by all of them.
LEMMA DisjointUses ==
  ASSUME NEW es \in Seq(EventRow), NEW K, IsFiniteSet(K), NEW f, NEW E, NEW J \in SUBSET (DOMAIN es),
         \A k \in K : E[k] \subseteq J /\ f[k] \in Nat /\ f[k] <= Counted(es, E[k]),
         \A k, n \in K : k # n => E[k] \cap E[n] = {}
  PROVE  Total(f, K) <= Counted(es, J)
<1> DEFINE Bad == {T \in SUBSET K : \E I \in SUBSET J : (\A k \in T : E[k] \subseteq I)
                                                        /\ ~(Total(f, T) <= Counted(es, I))}
<1>1. SUFFICES ASSUME Bad # {} PROVE FALSE
  <2>1. K \in SUBSET K /\ J \in SUBSET J
    OBVIOUS
  <2> QED BY <2>1
<1>2. PICK T \in Bad : IsFiniteSet(T) /\ \A x \in T : T \ {x} \notin Bad
  <2>1. Bad \in SUBSET (SUBSET K)
    OBVIOUS
  <2> HIDE DEF Bad
  <2> QED BY <1>1, <2>1, SmallestSet
<1>3. PICK I \in SUBSET J : (\A k \in T : E[k] \subseteq I) /\ ~(Total(f, T) <= Counted(es, I))
  OBVIOUS
<1>4. T \in SUBSET K /\ I \in SUBSET (DOMAIN es)
  OBVIOUS
<1>5. Counted(es, I) \in Nat
  BY <1>4, CountedIsNat
<1>6. T # {}
  <2> SUFFICES ASSUME T = {} PROVE FALSE
    OBVIOUS
  <2>1. Total(f, T) = 0
    BY TotalOfNone
  <2> HIDE DEF Bad
  <2> QED BY <1>3, <1>5, <2>1
<1>7. PICK x \in T : x = First(T)
  BY <1>6, FirstIsOne
<1>8. PICK U, R : U = T \ {x} /\ R = I \ E[x]
  OBVIOUS
<1>9. Total(f, T) = f[x] + Total(f, U)
  BY <1>2, <1>6, <1>7, <1>8, TotalStep
<1>10. Total(f, U) <= Counted(es, R)
  <2>1. \A k \in U : k \in T /\ k \in K /\ x \in K /\ k # x
    BY <1>4, <1>8
  <2>2. \A k \in U : E[k] \subseteq R
    <3> SUFFICES ASSUME NEW k \in U PROVE E[k] \subseteq R
      OBVIOUS
    <3>1. E[k] \subseteq I /\ E[k] \cap E[x] = {}
      BY <1>3, <2>1
    <3> QED BY <1>8, <3>1
  <2>3. U \in SUBSET K /\ R \in SUBSET J
    BY <1>4, <1>8
  <2>4. U \notin Bad
    BY <1>2, <1>8
  <2> QED BY <2>2, <2>3, <2>4
<1>11. E[x] \in SUBSET (DOMAIN es) /\ R \in SUBSET (DOMAIN es) /\ I = E[x] \cup R /\ E[x] \cap R = {}
  BY <1>3, <1>4, <1>8
<1>12. Counted(es, I) = Counted(es, E[x]) + Counted(es, R)
  BY <1>4, <1>11, CountedTogether
<1>13. Counted(es, E[x]) \in Nat /\ Counted(es, R) \in Nat
  BY <1>11, CountedIsNat
<1>14. Total(f, U) \in Nat
  <2>1. IsFiniteSet(U) /\ \A k \in U : f[k] \in Nat
    BY <1>2, <1>4, <1>8, FS_Subset
  <2> QED BY <2>1, TotalIsNat
<1>15. f[x] \in Nat /\ f[x] <= Counted(es, E[x])
  BY <1>4
<1> HIDE DEF Bad
<1> QED BY <1>3, <1>9, <1>10, <1>12, <1>13, <1>14, <1>15

\* The servers of a summary used no more than the events that saw them.
LEMMA ServersAreAtMost ==
  ASSUME NEW es \in Seq(EventRow), NEW I \in SUBSET (DOMAIN es), NEW s \in Servers, SeenBy(es, I, s)
  PROVE  Total(s, DOMAIN s) <= Counted(es, I)
<1>1. PICK E : E = [v \in DOMAIN s |-> {i \in I : es[i].instance = v}]
  OBVIOUS
<1>2. IsFiniteSet(DOMAIN s) /\ \A v \in DOMAIN s : s[v] \in Nat
  BY DEF Servers
<1>3. \A v, w \in DOMAIN s : v # w => E[v] \cap E[w] = {}
  BY <1>1
<1>4. ASSUME NEW v \in DOMAIN s PROVE E[v] \subseteq I /\ s[v] \in Nat /\ s[v] <= Counted(es, E[v])
  <2>1. PICK i \in I : es[i].instance = v /\ es[i].used = s[v]
    BY DEF SeenBy
  <2>2. PICK J : J = E[v] /\ i \in J /\ J \in SUBSET I /\ J \in SUBSET (DOMAIN es)
    BY <1>1, <2>1
  <2>3. PICK f : f = [k \in J |-> es[k].used]
    OBVIOUS
  <2>4. \A k \in J : f[k] \in Nat
    BY <2>2, <2>3, ElementOfSeq, LenProperties, EventsHold
  <2>5. Total(f, J) = f[i] + Total(f, J \ {i}) /\ IsFiniteSet(J)
    BY <2>2, <2>4, TablesAreFinite, TotalTake
  <2>6. Total(f, J \ {i}) \in Nat
    <3>1. IsFiniteSet(J \ {i}) /\ \A k \in J \ {i} : f[k] \in Nat
      BY <2>4, <2>5, FS_Subset
    <3> QED BY <3>1, TotalIsNat
  <2>7. f[i] = s[v]
    BY <2>1, <2>2, <2>3
  <2>8. Counted(es, J) = Total(f, J)
    BY <2>3 DEF Counted
  <2> QED BY <1>2, <2>2, <2>5, <2>6, <2>7, <2>8
<1> QED BY <1>2, <1>3, <1>4, DisjointUses

\* The latest of the events I.
LEMMA LatestSumsAreAtMost ==
  ASSUME NEW es \in Seq(EventRow), NEW I \in SUBSET (DOMAIN es), NEW J \in SUBSET (DOMAIN es), I \subseteq J,
         NEW sum \in LatestSums(es, I)
  PROVE  sum <= Counted(es, J)
<1>1. Counted(es, J) \in Nat
  BY CountedIsNat
<1>2. CASE I = {}
  BY <1>1, <1>2 DEF LatestSums
<1>3. CASE I # {}
  <2>1. PICK L : L \in SUBSET Latest(es, I) /\ sum = Counted(es, L)
    BY <1>3 DEF LatestSums
  <2>2. L \in SUBSET J
    BY <2>1 DEF Latest
  <2> QED BY <2>1, <2>2, NothingGrows, CountedGrows
<1> QED BY <1>2, <1>3

-----------------------------------------------------------------------------
(* What is shown: the usage of summaries is that of their project.         *)

\* No other usage is taken for that of p.
IsApart(p) == \A i \in DOMAIN events : Owns(p, events[i]) => IsToldApart(events[i])

\* Who owns an event of a person owns the others by which the look-ups know
\* the person.
LEMMA NamesOfSamePerson ==
  ASSUME ProjectsHold, NEW e \in EventRow, NEW f \in EventRow, e.personal, f.personal, e.source = f.source,
         IF e.source = "openstack" THEN e.slug = f.slug
         ELSE Username(e.ids) = Username(f.ids) /\ Username(e.ids) # None,
         NEW p \in DOMAIN project, Owns(p, e)
  PROVE  Owns(p, f)
<1>1. PICK r \in Reported : IsReport(e, r)
  BY EventsAreReports
<1>2. PICK q \in Reported : IsReport(f, q)
  BY EventsAreReports
<1>3. r.personal /\ q.personal /\ r.source = q.source /\ r.ids = e.ids /\ q.ids = f.ids
      /\ r.source = e.source /\ r.slug = e.slug /\ q.slug = f.slug
  BY <1>1, <1>2 DEF IsReport
<1>4. SamePerson(r, q)
  <2>1. CASE e.source = "openstack"
    BY <1>3, <2>1 DEF SamePerson
  <2>2. CASE e.source # "openstack"
    <3>1. e.ids \in Identities /\ f.ids \in Identities
      BY EventsHold
    <3>2. SameUser(e, f.ids)
      BY <2>2, <3>1, NamesAreFound
    <3> QED BY <1>3, <2>2, <3>2 DEF SamePerson, SameUser
  <2> QED BY <2>1, <2>2
<1>5. project[p].personal /\ Names(e.ids, project[p].pi)
  BY DEF Owns
<1>6. project[p].pi \in User
  BY <1>5 DEF ProjectsHold, ProjectHolds
<1>7. Names(f.ids, project[p].pi)
  BY <1>3, <1>4, <1>5, <1>6, IdentityAssumption
<1> QED BY <1>5, <1>7 DEF Owns

\* The usage of a summary that is mapped to p is p's.
LEMMA UsesAreOwned ==
  ASSUME ProjectsHold, TablesHold, SummariesAreRight, SummariesAreOfEvents,
         NEW p, p # NoProject, IsApart(p), NEW k \in DOMAIN summaries, summaries[k].project = p,
         NEW i \in DOMAIN events, IsUse(events[i], summaries[k])
  PROVE  Owns(p, events[i]) /\ IsSameUse(events[i], summaries[k]) /\ IsNamed(summaries[k])
<1>1. PICK s : s = summaries[k] /\ s.personal \in BOOLEAN
  BY DEF TablesHold, SummaryHolds, SummaryRow
<1>2. p \in DOMAIN project /\ Owns(p, s)
  BY <1>1 DEF SummariesAreRight, OwnedBy
<1>3. PICK m \in DOMAIN events : IsOf(events[m], s)
  BY <1>1 DEF SummariesAreOfEvents
<1>4. PICK e \in EventRow : e = events[m] /\ IsOf(e, s)
  BY <1>3, ElementOfSeq, LenProperties DEF TablesHold
<1>5. PICK f \in EventRow : f = events[i] /\ IsUse(f, s)
  BY <1>1, ElementOfSeq, LenProperties DEF TablesHold
<1>6. e.personal = s.personal /\ e.source = s.source /\ e.ids = s.ids /\ f.source = s.source
  BY <1>4, <1>5 DEF IsOf, IsUse
<1>7. ~s.personal => e.slug = s.slug
  BY <1>4, <1>6 DEF IsOf, IsUse
<1>8. Owns(p, e)
  BY <1>2, <1>6, <1>7 DEF Owns
<1>9. IsToldApart(e)
  BY <1>3, <1>4, <1>8 DEF IsApart
<1>10. IsNamed(s)
  <2>1. CASE s.personal /\ s.source # "openstack"
    BY <1>6, <1>9, <2>1 DEF IsToldApart, IsNamed
  <2>2. CASE ~(s.personal /\ s.source # "openstack")
    BY <2>2 DEF IsNamed
  <2> QED BY <2>1, <2>2
<1>11. f.personal = s.personal
  <2>1. CASE s.source = "openstack"
    <3>1. IsUse(f, e)
      BY <1>4, <1>5, <1>6, <2>1 DEF IsOf, IsUse
    <3> QED BY <1>5, <1>6, <1>9, <3>1 DEF IsToldApart
  <2>2. CASE s.source # "openstack"
    <3>1. f.personal \in BOOLEAN
      BY EventsHold
    <3> QED BY <1>1, <1>5, <2>2, <3>1 DEF IsUse
  <2> QED BY <2>1, <2>2
<1>12. IsSameUse(f, s)
  BY <1>5, <1>11, UseOfOwn
<1>13. Owns(p, f)
  <2>1. CASE ~s.personal
    <3>1. f.slug = s.slug /\ f.source = s.source /\ ~f.personal
      BY <1>6, <1>11, <1>12, <2>1 DEF IsSameUse
    <3> QED BY <1>2, <2>1, <3>1 DEF Owns
  <2>2. CASE s.personal
    <3>1. IF e.source = "openstack" THEN e.slug = f.slug
          ELSE Username(e.ids) = Username(f.ids) /\ Username(e.ids) # None
      BY <1>4, <1>6, <1>10, <1>11, <1>12, <2>2 DEF IsSameUse, IsOf, IsUse, IsNamed
    <3> QED BY <1>2, <1>6, <1>8, <1>11, <2>2, <3>1, NamesOfSamePerson
  <2> QED BY <1>1, <2>1, <2>2
<1> QED BY <1>1, <1>5, <1>10, <1>12, <1>13

\* A summary shows no more than the events of its use up to its day.
LEMMA SummaryIsAtMost ==
  ASSUME TablesHold, SummariesCount, NEW k \in DOMAIN summaries
  PROVE  summaries[k].total \in Nat /\ summaries[k].total <= Counted(events, SoFar(events, summaries[k]))
<1>1. PICK s : s = summaries[k] /\ SummaryHolds(s) /\ SummaryCounts(events, s)
  BY DEF TablesHold, SummariesCount
<1>2. s.source \in {"pbs", "pbsAcct", "openstack"} /\ s.instances \in Servers /\ s.total \in Nat /\ s.day \in Nat
  BY <1>1, UsageAssumption DEF SummaryHolds, SummaryRow, Source
<1>3. PICK es \in Seq(EventRow) : es = events
  BY DEF TablesHold
<1>4. PICK F, T : F = SoFar(es, s) /\ T = Today(es, s)
  OBVIOUS
<1>5. F \in SUBSET (DOMAIN es) /\ T \in SUBSET (DOMAIN es)
  BY <1>4, UsesAreEvents
<1>6. CASE s.source = "pbs"
  <2>1. T \subseteq F
    BY <1>2, <1>3, <1>4 DEF Today, SoFar
  <2>2. s.total <= Counted(es, T)
    BY <1>1, <1>3, <1>4, <1>6 DEF SummaryCounts
  <2>3. s.total <= Counted(es, F)
    BY <1>2, <1>5, <2>1, <2>2, NothingGrows, AtMostGrows
  <2> QED BY <1>1, <1>2, <1>3, <1>4, <2>3
<1>7. CASE s.source = "pbsAcct"
  BY <1>1, <1>2, <1>3, <1>4, <1>7 DEF SummaryCounts
<1>8. CASE s.source = "openstack"
  <2>1. SeenBy(es, F, s.instances) /\ s.total = Total(s.instances, DOMAIN s.instances)
    BY <1>1, <1>3, <1>4, <1>8 DEF SummaryCounts
  <2>2. Total(s.instances, DOMAIN s.instances) <= Counted(es, F)
    BY <1>2, <1>5, <2>1, ServersAreAtMost
  <2> QED BY <1>1, <1>2, <1>3, <1>4, <2>1, <2>2
<1> QED BY <1>2, <1>6, <1>7, <1>8

\* The summaries of one day that are mapped to p show together no more than p
\* used.
LEMMA DayIsAtMost ==
  ASSUME ProjectsHold, TablesHold, SummariesCount, SummariesAreRight, SummariesAreOfEvents, SummariesAreUnique,
         NEW p, p # NoProject, IsApart(p), NEW K \in SUBSET (DOMAIN summaries), NEW d,
         \A k \in K : summaries[k].project = p /\ summaries[k].day = d,
         NEW f, \A k \in K : f[k] = summaries[k].total,
         NEW J, J = {i \in DOMAIN events : Owns(p, events[i])}
  PROVE  Total(f, K) <= Counted(events, J)
<1>1. PICK es \in Seq(EventRow) : es = events
  BY DEF TablesHold
<1>2. PICK ss : ss = summaries /\ K \in SUBSET (DOMAIN ss)
  OBVIOUS
<1>3. PICK E : E = [k \in K |-> SoFar(es, ss[k])]
  OBVIOUS
<1>4. \A k \in K : \A i : i \in E[k] <=> i \in DOMAIN es /\ IsUse(es[i], ss[k]) /\ es[i].day <= ss[k].day
  BY <1>3 DEF SoFar
<1>5. ASSUME NEW k \in K, NEW i \in E[k]
      PROVE  i \in J /\ IsSameUse(es[i], ss[k]) /\ IsNamed(ss[k])
  <2>1. k \in DOMAIN summaries /\ i \in DOMAIN events /\ IsUse(events[i], summaries[k]) /\ summaries[k].project = p
    BY <1>1, <1>2, <1>4, <1>5
  <2>2. Owns(p, events[i]) /\ IsSameUse(events[i], summaries[k]) /\ IsNamed(summaries[k])
    BY <2>1, UsesAreOwned
  <2> QED BY <1>1, <1>2, <2>1, <2>2
<1>6. \A k \in K : E[k] \subseteq J /\ f[k] \in Nat /\ f[k] <= Counted(es, E[k])
  <2> SUFFICES ASSUME NEW k \in K PROVE E[k] \subseteq J /\ f[k] \in Nat /\ f[k] <= Counted(es, E[k])
    OBVIOUS
  <2>1. E[k] \subseteq J
    BY <1>5
  <2>2. f[k] \in Nat /\ f[k] <= Counted(es, SoFar(es, ss[k]))
    BY <1>1, <1>2, SummaryIsAtMost
  <2> QED BY <1>3, <2>1, <2>2
<1>7. ASSUME NEW k \in K, NEW n \in K, k # n PROVE E[k] \cap E[n] = {}
  <2>1. SUFFICES ASSUME NEW i, i \in E[k], i \in E[n] PROVE FALSE
    OBVIOUS
  <2>2. IsSameUse(es[i], ss[k]) /\ IsNamed(ss[k]) /\ IsSameUse(es[i], ss[n])
    BY <1>5, <2>1
  <2>3. IsSameUse(ss[k], ss[n])
    BY <2>2, SameUses
  <2>4. ss[k].day = ss[n].day /\ k \in DOMAIN ss /\ n \in DOMAIN ss
    BY <1>2
  <2> QED BY <1>2, <1>7, <2>2, <2>3, <2>4 DEF SummariesAreUnique
<1>8. IsFiniteSet(K)
  BY TablesAreFinite DEF TablesHold
<1>9. J \in SUBSET (DOMAIN es)
  BY <1>1
<1>10. Total(f, K) <= Counted(es, J)
  BY <1>6, <1>7, <1>8, <1>9, DisjointUses
<1> QED BY <1>1, <1>10

\* And so do the latest of such summaries.
LEMMA LastSummariesAreAtMost ==
  ASSUME ProjectsHold, TablesHold, SummariesCount, SummariesAreRight, SummariesAreOfEvents, SummariesAreUnique,
         NEW p, p # NoProject, IsApart(p), NEW I \in SUBSET (DOMAIN summaries),
         \A k \in I : summaries[k].project = p,
         NEW K, K = Latest(summaries, I), NEW f, f = [k \in K |-> summaries[k].total],
         NEW J, J = {i \in DOMAIN events : Owns(p, events[i])}
  PROVE  Total(f, K) <= Counted(events, J)
<1>1. PICK ss : ss = summaries
  OBVIOUS
<1>2. K \in SUBSET I /\ \A k, n \in K : ss[k].day <= ss[n].day /\ ss[n].day <= ss[k].day
  BY <1>1 DEF Latest
<1>3. \A k \in K : ss[k].day \in Nat
  BY <1>1, <1>2, UsageAssumption DEF TablesHold, SummaryHolds, SummaryRow
<1>4. \A k, n \in K : ss[k].day = ss[n].day
  BY <1>2, <1>3
<1>5. PICK d : \A k \in K : ss[k].day = d
  BY <1>4
<1>6. K \in SUBSET (DOMAIN summaries) /\ \A k \in K : /\ summaries[k].project = p /\ summaries[k].day = d
                                                      /\ f[k] = summaries[k].total
  BY <1>1, <1>2, <1>5
<1> QED BY <1>6, DayIsAtMost

-----------------------------------------------------------------------------
(* What is shown: what is offered opens to something.                      *)

\* Rows fit the source they are offered by, and are found without one.
LEMMA ChosenAre ==
  ASSUME NEW table, NEW p, NEW source
  PROVE  \A i : i \in Chosen(table, p, source) <=>
                  i \in DOMAIN table /\ table[i].project = p /\ SourceFits(source, table[i])
BY DEF Chosen

\* There is a day for the events or the summaries that are chosen.
LEMMA ShownIfChosen ==
  ASSUME NEW es, NEW ss, NEW p, NEW source, NEW allocation
  PROVE  /\ \A i \in RawEvents(es, p, source, allocation) :
              ByEvents(ss, p, source, allocation) => DOMAIN Series(es, ss, p, source, allocation) # {}
         /\ ~ByEvents(ss, p, source, allocation) => DOMAIN Series(es, ss, p, source, allocation) # {}
<1>1. ASSUME NEW i \in RawEvents(es, p, source, allocation), ByEvents(ss, p, source, allocation)
      PROVE  DOMAIN Series(es, ss, p, source, allocation) # {}
  <2>1. PICK I : I = RawEvents(es, p, source, allocation) /\ i \in I
    OBVIOUS
  <2>2. DOMAIN EventSeries(es, I) = {es[k].day : k \in I}
    BY DEF EventSeries
  <2>3. DOMAIN EventSeries(es, I) # {}
    BY <2>1, <2>2
  <2> QED BY <1>1, <2>1, <2>3 DEF Series
<1>2. ASSUME ~ByEvents(ss, p, source, allocation) PROVE DOMAIN Series(es, ss, p, source, allocation) # {}
  <2>1. PICK I : I = Chosen(ss, p, source) /\ I # {}
    BY <1>2 DEF ByEvents
  <2>2. DOMAIN SummarySeries(ss, I) = {ss[k].day : k \in I}
    BY DEF SummarySeries
  <2>3. DOMAIN SummarySeries(ss, I) # {}
    BY <2>1, <2>2
  <2> QED BY <1>2, <2>1, <2>3 DEF Series
<1> QED BY <1>1, <1>2

\* A project that is offered has usage, and so has each of its sources.
LEMMA SourcesAreShown ==
  ASSUME NEW es, NEW ss, NEW p \in Scopes(es, ss)
  PROVE  /\ DOMAIN Series(es, ss, p, None, <<None>>) # {}
         /\ \A s \in Sources(es, ss, p) : DOMAIN Series(es, ss, p, s, <<None>>) # {}
<1>1. \A e : AllocationFits(<<None>>, e)
  BY DEF AllocationFits, None
<1>2. ASSUME NEW source PROVE \A i \in Chosen(es, p, source) : i \in RawEvents(es, p, source, <<None>>)
  BY <1>1 DEF RawEvents
<1>3. ASSUME NEW source, \E i : i \in Chosen(es, p, source) \/ i \in Chosen(ss, p, source)
      PROVE  DOMAIN Series(es, ss, p, source, <<None>>) # {}
  <2>1. CASE ByEvents(ss, p, source, <<None>>)
    <3>1. Chosen(ss, p, source) = {}
      BY <2>1 DEF ByEvents
    <3>2. PICK i : i \in Chosen(es, p, source)
      BY <1>3, <3>1
    <3> QED BY <1>2, <2>1, <3>2, ShownIfChosen
  <2>2. CASE ~ByEvents(ss, p, source, <<None>>)
    BY <2>2, ShownIfChosen
  <2> QED BY <2>1, <2>2
<1>4. \E i : i \in Chosen(es, p, None) \/ i \in Chosen(ss, p, None)
  <2>1. CASE \E i \in DOMAIN ss : ss[i].project = p
    BY <2>1, ChosenAre DEF SourceFits
  <2>2. CASE \E i \in DOMAIN es : es[i].project = p
    BY <2>2, ChosenAre DEF SourceFits
  <2> QED BY <2>1, <2>2 DEF Scopes
<1>5. ASSUME NEW s \in Sources(es, ss, p) PROVE \E i : i \in Chosen(es, p, s) \/ i \in Chosen(ss, p, s)
  <2>1. PICK K, C : K = Chosen(ss, p, None) /\ C = Chosen(es, p, None)
    OBVIOUS
  <2>2. PICK r : /\ s = (IF r = "pbsAcct" THEN "pbs" ELSE r)
                 /\ r \in (IF K # {} THEN {ss[i].source : i \in K} ELSE {es[i].source : i \in C})
    BY <2>1 DEF Sources
  <2>3. CASE K # {}
    <3>1. PICK i \in K : r = ss[i].source
      BY <2>2, <2>3
    <3>2. SourceFits(s, ss[i])
      BY <2>2, <3>1 DEF SourceFits
    <3> QED BY <2>1, <3>1, <3>2, ChosenAre
  <2>4. CASE K = {}
    <3>1. PICK i \in C : r = es[i].source
      BY <2>2, <2>4
    <3>2. SourceFits(s, es[i])
      BY <2>2, <3>1 DEF SourceFits
    <3> QED BY <2>1, <3>1, <3>2, ChosenAre
  <2> QED BY <2>3, <2>4
<1> QED BY <1>3, <1>4, <1>5

\* A job or an instance that is offered was in some event.
LEMMA AllocationsAreShown ==
  ASSUME NEW es, NEW ss, NEW p, NEW a \in Allocations(es, p)
  PROVE  DOMAIN Series(es, ss, p, None, a) # {}
<1>1. PICK i : i \in DOMAIN es /\ es[i].project = p /\ AllocationFits(a, es[i]) /\ a # <<None>>
  <2>1. PICK B, O : B = Chosen(es, p, "pbs") /\ O = Chosen(es, p, "openstack")
    OBVIOUS
  <2>2. /\ \A i \in B : i \in DOMAIN es /\ es[i].project = p
        /\ \A i \in O : i \in DOMAIN es /\ es[i].project = p
    BY <2>1, ChosenAre
  <2>3. \/ \E i \in B : a = <<"job", es[i].job>>
        \/ O # {} /\ a = <<"project">>
        \/ \E i \in O : a = <<"instance", es[i].instance>>
    BY <2>1 DEF Allocations
  <2>4. CASE \E i \in B : a = <<"job", es[i].job>>
    <3>1. PICK i \in B : a = <<"job", es[i].job>>
      BY <2>4
    <3>2. a[1] = "job" /\ a[2] = es[i].job
      BY <3>1
    <3>3. AllocationFits(a, es[i]) /\ a # <<None>>
      BY <3>2 DEF AllocationFits, None
    <3> QED BY <2>2, <3>1, <3>3
  <2>5. CASE O # {} /\ a = <<"project">>
    <3>1. PICK i : i \in O
      BY <2>5
    <3>2. a[1] = "project"
      BY <2>5
    <3>3. AllocationFits(a, es[i]) /\ a # <<None>>
      BY <3>2 DEF AllocationFits, None
    <3> QED BY <2>2, <3>1, <3>3
  <2>6. CASE \E i \in O : a = <<"instance", es[i].instance>>
    <3>1. PICK i \in O : a = <<"instance", es[i].instance>>
      BY <2>6
    <3>2. a[1] = "instance" /\ a[2] = es[i].instance
      BY <3>1
    <3>3. AllocationFits(a, es[i]) /\ a # <<None>>
      BY <3>2 DEF AllocationFits, None
    <3> QED BY <2>2, <3>1, <3>3
  <2> QED BY <2>3, <2>4, <2>5, <2>6
<1>2. i \in RawEvents(es, p, None, a)
  BY <1>1, ChosenAre DEF RawEvents, SourceFits
<1>3. ByEvents(ss, p, None, a)
  BY <1>1 DEF ByEvents
<1> QED BY <1>2, <1>3, ShownIfChosen

-----------------------------------------------------------------------------
(* What is shown: totals.                                                  *)

\* By whatever rows and source the last day is told, it is p's.
LEMMA TotalsAreAtMost ==
  ASSUME ProjectsHold, TablesHold, SummariesCount, EventsAreRight, SummariesAreRight, SummariesAreOfEvents,
         SummariesAreUnique, NEW p, p # NoProject, IsApart(p), NEW source, NEW a,
         NEW total \in Totals(events, summaries, p, source, a),
         NEW J, J = {i \in DOMAIN events : Owns(p, events[i])}
  PROVE  total <= Counted(events, J)
<1>1. PICK es \in Seq(EventRow) : es = events
  BY DEF TablesHold
<1>2. J \in SUBSET (DOMAIN es) /\ \A i \in DOMAIN es : es[i].project = p => i \in J
  BY <1>1 DEF EventsAreRight, OwnedBy
<1>3. ASSUME NEW I \in SUBSET (DOMAIN es), \A i \in I : es[i].project = p, NEW sum \in LatestSums(es, I)
      PROVE  sum <= Counted(es, J)
  <2>1. I \subseteq J
    BY <1>2, <1>3
  <2> QED BY <1>2, <1>3, <2>1, LatestSumsAreAtMost
<1>4. CASE ByEvents(summaries, p, source, a)
  <2>1. PICK I : I = RawEvents(es, p, source, a)
    OBVIOUS
  <2>2. I \in SUBSET (DOMAIN es) /\ \A i \in I : es[i].project = p
    BY <2>1, ChosenAre DEF RawEvents
  <2>3. total \in LatestSums(es, I)
    BY <1>1, <1>4, <2>1 DEF Totals
  <2> QED BY <1>1, <1>3, <2>2, <2>3
<1>5. CASE ~ByEvents(summaries, p, source, a)
  <2>1. PICK I, ss : I = Chosen(ss, p, source) /\ ss = summaries
    OBVIOUS
  <2>2. I \in SUBSET (DOMAIN ss) /\ \A k \in I : ss[k].project = p
    BY <2>1, ChosenAre
  <2>3. PICK K, f : K = Latest(ss, I) /\ f = [k \in K |-> ss[k].total]
    OBVIOUS
  <2>4. Total(f, K) <= Counted(events, J)
    BY <2>1, <2>2, <2>3, LastSummariesAreAtMost
  <2>5. PICK N : N = [s \in {ss[k].source : k \in K} |-> {i \in DOMAIN es : es[i].project = p /\ es[i].source = s}]
    OBVIOUS
  <2>6. total \in {IF now = 0 THEN Total(f, K) ELSE now : now \in UNION {LatestSums(es, N[s]) : s \in DOMAIN N}}
    <3>1. total \in SummaryTotals(es, ss, p, I)
      BY <1>1, <1>5, <2>1 DEF Totals
    <3> QED BY <2>3, <2>5, <3>1 DEF SummaryTotals
  <2>7. PICK s \in DOMAIN N : \E n \in LatestSums(es, N[s]) : total = IF n = 0 THEN Total(f, K) ELSE n
    BY <2>6
  <2>8. PICK now \in LatestSums(es, N[s]) : total = IF now = 0 THEN Total(f, K) ELSE now
    BY <2>7
  <2>9. N[s] \in SUBSET (DOMAIN es) /\ \A i \in N[s] : es[i].project = p
    BY <2>5, <2>7
  <2>10. now <= Counted(es, J)
    BY <1>3, <2>8, <2>9
  <2> QED BY <1>1, <2>4, <2>8, <2>10
<1> QED BY <1>4, <1>5

\* What the dashboard offers opens to something, and as long as days come in
\* order and one thing happens at a time it shows no more than the project used
\* (getAvailableScopes, getAvailableAllocations, calculateTotals).
THEOREM OfferedIsAlwaysShown == Spec => []OfferedIsShown
<1>1. ASSUME UsageShapes, MappingInStep, BackfillInStep, CountsInStep, ExactInStep PROVE OfferedIsShown
  <2>1. ASSUME NEW p \in Scopes(events, summaries)
        PROVE  /\ DOMAIN Series(events, summaries, p, None, <<None>>) # {}
               /\ \A s \in Sources(events, summaries, p) :
                    DOMAIN Series(events, summaries, p, s, <<None>>) # {}
               /\ \A a \in Allocations(events, p) : DOMAIN Series(events, summaries, p, None, a) # {}
    BY SourcesAreShown, AllocationsAreShown
  <2>2. ASSUME NEW p \in Scopes(events, summaries), orderly, IsApart(p), NEW s, NEW a,
               NEW total \in Totals(events, summaries, p, s, a)
        PROVE  total <= Counted(events, {i \in DOMAIN events : Owns(p, events[i])})
    <3>1. ProjectsHold /\ TablesHold /\ SummariesCount
      BY <1>1 DEF UsageShapes, CountsInStep
    <3>2. ~overtaken
      BY <1>1, <2>2 DEF BackfillInStep
    <3>3. EventsAreRight /\ SummariesAreRight
      BY <1>1, <3>2 DEF MappingInStep
    <3>4. SummariesAreOfEvents /\ SummariesAreUnique
      BY <1>1, <2>2 DEF ExactInStep
    <3>5. p # NoProject
      BY DEF Scopes
    <3>6. PICK J : J = {i \in DOMAIN events : Owns(p, events[i])}
      OBVIOUS
    <3>7. total <= Counted(events, J)
      BY <2>2, <3>1, <3>3, <3>4, <3>5, <3>6, TotalsAreAtMost
    <3> QED BY <3>6, <3>7
  <2> QED BY <2>1, <2>2 DEF OfferedIsShown, IsApart
<1> QED BY <1>1, UsageHasItsShapes, MappingsAreInStep, BackfillsAreInStep, CountsStayInStep, TotalsStayExact, PTL
=============================================================================
