--------------------------- MODULE CvMatchingProofs ---------------------------
(***************************************************************************)
(* Theorems about CvMatching, for any files, answers, jobs and limits.     *)
(***************************************************************************)
EXTENDS CvMatching, FiniteSetTheorems, SequenceTheorems, TLAPS

-----------------------------------------------------------------------------
(* Fractions and their rounding *)

Fraction == Nat \X (Nat \ {0})

\* What Near and Within say of a numerator n and a denominator d is said of
\* numbers, so that the provers see products of numbers only.
NearNumbers(r, n, d, k) == 2 * d * r - 200 * n <= k * d /\ 200 * n - 2 * d * r <= k * d

\* r hundredths are at most k half hundredths away from p.
Near(r, p, k) == NearNumbers(r, p[1], p[2], k)

\* Products with a number that is not negative keep an order.
LEMMA Scaling ==
  ASSUME NEW a \in Int, NEW b \in Int, NEW c \in Nat, a <= b
  PROVE  a * c <= b * c
OBVIOUS

\* A quotient, its divisor and its rest.
LEMMA Quotients ==
  ASSUME NEW a \in Nat, NEW b \in Nat \ {0}
  PROVE  a \div b \in Nat /\ b * (a \div b) <= a /\ a < b * (a \div b) + b
OBVIOUS

\* Of two numbers with one divisor the larger has no smaller quotient.
LEMMA QuotientsGrow ==
  ASSUME NEW a \in Nat, NEW c \in Nat, NEW b \in Nat \ {0}, a <= c
  PROVE  a \div b <= c \div b
<1> DEFINE q == a \div b
           r == c \div b
<1>1. q \in Nat /\ r \in Nat /\ b * q <= a /\ c < b * r + b
  BY Quotients
<1> HIDE DEF q, r
<1>2. SUFFICES q <= r
  BY DEF q, r
<1>3. CASE q >= r + 1
  <2>1. (r + 1) * b <= q * b
    BY <1>1, <1>3, Scaling
  <2>2. (r + 1) * b = b * r + b /\ q * b = b * q
    BY <1>1
  <2>3. b * r \in Nat /\ b * q \in Nat
    BY <1>1
  <2> QED
    BY <1>1, <2>1, <2>2, <2>3
<1> QED
  BY <1>1, <1>3

\* roundScore is at most half a hundredth off.
LEMMA RoundingIsNear ==
  ASSUME NEW p \in Fraction
  PROVE  RoundScore(p) \in Nat /\ Near(RoundScore(p), p, 1)
<1> DEFINE n == p[1]
           d == p[2]
           r == (200 * n + d) \div (2 * d)
<1>1. n \in Nat /\ d \in Nat \ {0}
  BY DEF Fraction
<1>2. r = RoundScore(p)
  BY DEF RoundScore
<1> HIDE DEF n, d, r
<1>3. r \in Nat /\ (2 * d) * r <= 200 * n + d /\ 200 * n + d < (2 * d) * r + 2 * d
  <2>1. 200 * n + d \in Nat /\ 2 * d \in Nat \ {0}
    BY <1>1
  <2> QED
    BY <2>1, Quotients DEF r
<1>4. (2 * d) * r \in Nat /\ 2 * d * r = (2 * d) * r
  BY <1>1, <1>3
<1>5. NearNumbers(r, n, d, 1)
  BY <1>1, <1>3, <1>4 DEF NearNumbers
<1> QED
  BY <1>2, <1>3, <1>5 DEF Near, n, d

\* Sums of fractions are fractions.
LEMMA SumsAreFractions ==
  ASSUME NEW p \in Fraction, NEW q \in Fraction
  PROVE  /\ Plus(p, q) \in Fraction
         /\ Plus(p, q)[1] = p[1] * q[2] + q[1] * p[2] /\ Plus(p, q)[2] = p[2] * q[2]
<1>1. p[1] \in Nat /\ q[1] \in Nat /\ p[2] \in Nat \ {0} /\ q[2] \in Nat \ {0}
  BY DEF Fraction
<1>2. \A a, b, c, d \in Nat : b # 0 /\ d # 0 => a * d + c * b \in Nat /\ b * d \in Nat \ {0}
  OBVIOUS
<1> QED
  BY <1>1, <1>2 DEF Plus, Fraction

\* Errors add up.
LEMMA ErrorsAddUp ==
  ASSUME NEW p \in Fraction, NEW q \in Fraction, NEW r \in Int, NEW s \in Int,
         NEW j \in Nat, NEW k \in Nat, Near(r, p, j), Near(s, q, k)
  PROVE  Near(r + s, Plus(p, q), j + k)
<1> SUFFICES ASSUME NEW a \in Nat, NEW b \in Nat \ {0}, NEW c \in Nat, NEW d \in Nat \ {0},
                    NearNumbers(r, a, b, j), NearNumbers(s, c, d, k)
             PROVE  NearNumbers(r + s, a * d + c * b, b * d, j + k)
  BY SumsAreFractions DEF Near, Fraction
<1> DEFINE x == 2 * b * r - 200 * a
           y == 2 * d * s - 200 * c
<1>1. /\ x \in Int /\ y \in Int /\ j * b \in Int /\ k * d \in Int
      /\ x <= j * b /\ -x <= j * b /\ y <= k * d /\ -y <= k * d
  BY DEF NearNumbers
<1>2. 2 * (b * d) * (r + s) - 200 * (a * d + c * b) = x * d + y * b
  OBVIOUS
<1>3. (j * b) * d + (k * d) * b = (j + k) * (b * d)
  OBVIOUS
<1> HIDE DEF x, y
<1>4. x * d <= (j * b) * d /\ (-x) * d <= (j * b) * d
  BY <1>1, Scaling
<1>5. y * b <= (k * d) * b /\ (-y) * b <= (k * d) * b
  BY <1>1, Scaling
<1>6. (-x) * d = -(x * d) /\ (-y) * b = -(y * b)
  BY <1>1
<1>7. /\ x * d \in Int /\ y * b \in Int /\ (j * b) * d \in Int /\ (k * d) * b \in Int
      /\ 2 * (b * d) * (r + s) \in Int /\ 200 * (a * d + c * b) \in Int
      /\ (j + k) * (b * d) \in Int
  BY <1>1
<1> QED
  BY <1>2, <1>3, <1>4, <1>5, <1>6, <1>7 DEF NearNumbers

\* Two numbers near one fraction are near each other.
LEMMA NearEachOther ==
  ASSUME NEW p \in Fraction, NEW r \in Int, NEW s \in Int, Near(r, p, 1), Near(s, p, 4)
  PROVE  r - s \in -2..2
<1> SUFFICES ASSUME NEW n \in Nat, NEW d \in Nat \ {0},
                    NearNumbers(r, n, d, 1), NearNumbers(s, n, d, 4)
             PROVE  r - s \in -2..2
  BY DEF Near, Fraction
<1>1. d * (2 * (r - s)) <= d * 5 /\ d * (2 * (s - r)) <= d * 5
  <2>1. /\ d * (2 * (r - s)) = 2 * d * r - 2 * d * s
        /\ d * (2 * (s - r)) = 2 * d * s - 2 * d * r
    OBVIOUS
  <2>2. 2 * d * r \in Int /\ 2 * d * s \in Int
    OBVIOUS
  <2> QED
    BY <2>1, <2>2 DEF NearNumbers
<1>2. \A z \in Int : d * z <= d * 5 => z <= 5
  OBVIOUS
<1> QED
  BY <1>1, <1>2

-----------------------------------------------------------------------------
(* The best of finitely many fractions *)

AtMost(p, q) == p[1] * q[2] <= q[1] * p[2]
HasBest(S) == \E p \in S : \A q \in S : AtMost(q, p)

\* The order of fractions is total and transitive.
LEMMA FractionsAreOrdered ==
  /\ \A p, q \in Fraction : AtMost(p, q) \/ AtMost(q, p)
  /\ \A p, q, r \in Fraction : AtMost(p, q) /\ AtMost(q, r) => AtMost(p, r)
<1>1. \A a, b, c, d \in Nat : a * d <= c * b \/ c * b <= a * d
  OBVIOUS
<1>2. ASSUME NEW a \in Nat, NEW b \in Nat \ {0}, NEW c \in Nat, NEW d \in Nat \ {0},
             NEW e \in Nat, NEW f \in Nat \ {0}, a * d <= c * b, c * f <= e * d
      PROVE  a * f <= e * b
  <2>1. (a * d) * f <= (c * b) * f /\ (c * f) * b <= (e * d) * b
    BY <1>2, Scaling
  <2>2. /\ (a * d) * f = d * (a * f) /\ (c * b) * f = (c * f) * b
        /\ (e * d) * b = d * (e * b)
    OBVIOUS
  <2>3. d * (a * f) <= d * (e * b)
    BY <2>1, <2>2
  <2>4. \A x, y \in Nat : d * x <= d * y => x <= y
    OBVIOUS
  <2>5. a * f \in Nat /\ e * b \in Nat
    OBVIOUS
  <2> QED
    BY <2>3, <2>4, <2>5
<1>3. \A p \in Fraction : p[1] \in Nat /\ p[2] \in Nat \ {0}
  BY DEF Fraction
<1>4. ASSUME NEW p \in Fraction, NEW q \in Fraction PROVE AtMost(p, q) \/ AtMost(q, p)
  BY <1>1, <1>3 DEF AtMost
<1>5. ASSUME NEW p \in Fraction, NEW q \in Fraction, NEW r \in Fraction,
             AtMost(p, q), AtMost(q, r)
      PROVE  AtMost(p, r)
  <2> DEFINE a == p[1]
             b == p[2]
             c == q[1]
             d == q[2]
             e == r[1]
             f == r[2]
  <2>1. a * d <= c * b /\ c * f <= e * d
    BY <1>5 DEF AtMost
  <2>2. /\ a \in Nat /\ b \in Nat \ {0} /\ c \in Nat /\ d \in Nat \ {0}
        /\ e \in Nat /\ f \in Nat \ {0}
    BY <1>3
  <2> HIDE DEF a, b, c, d, e, f
  <2>3. a * f <= e * b
    BY <1>2, <2>1, <2>2
  <2> QED
    BY <2>3 DEF AtMost, a, b, e, f
<1> QED
  BY <1>4, <1>5

\* Finitely many fractions have a largest one: otherwise a smallest set without
\* one would have one.
LEMMA BestExists ==
  ASSUME NEW S, IsFiniteSet(S), S \subseteq Fraction, S # {}
  PROVE  HasBest(S)
<1> DEFINE Bad == {U \in FiniteSubsetsOf(S) : U # {} /\ ~HasBest(U)}
<1> SUFFICES ASSUME Bad # {} PROVE FALSE
  BY DEF FiniteSubsetsOf
<1>1. PICK U \in Bad : \A V \in Bad : <<V, U>> \notin StrictSubsetOrdering(S)
  <2>1. Bad \subseteq FiniteSubsetsOf(S)
    OBVIOUS
  <2> HIDE DEF Bad
  <2> QED
    BY <2>1, FS_StrictSubsetOrderingWellFounded, WFMin
<1>2. PICK x \in U : TRUE
  OBVIOUS
<1>3. /\ U \subseteq Fraction /\ U \in FiniteSubsetsOf(S) /\ ~HasBest(U)
      /\ U \ {x} \in FiniteSubsetsOf(S) /\ <<U \ {x}, U>> \in StrictSubsetOrdering(S)
  BY <1>2, FS_RemoveElement DEF FiniteSubsetsOf, StrictSubsetOrdering
<1>4. CASE U \ {x} = {}
  <2>1. \A q \in U : AtMost(q, x)
    BY <1>2, <1>3, <1>4, FractionsAreOrdered
  <2> QED
    BY <1>2, <1>3, <2>1 DEF HasBest
<1>5. CASE U \ {x} # {}
  <2>1. HasBest(U \ {x})
    BY <1>1, <1>3, <1>5
  <2>2. PICK p \in U \ {x} : \A q \in U \ {x} : AtMost(q, p)
    BY <2>1 DEF HasBest
  <2>3. \A q \in U : AtMost(q, p) \/ q = x
    BY <2>2
  <2>4. CASE AtMost(x, p)
    BY <1>3, <2>2, <2>3, <2>4 DEF HasBest
  <2>5. CASE AtMost(p, x)
    <3>1. \A q \in U : AtMost(q, x)
      BY <1>2, <1>3, <2>2, <2>3, <2>5, FractionsAreOrdered
    <3> QED
      BY <1>2, <1>3, <3>1 DEF HasBest
  <2> QED
    BY <1>2, <1>3, <2>4, <2>5, FractionsAreOrdered
<1> QED
  BY <1>4, <1>5

-----------------------------------------------------------------------------
(* The parts of a score *)

Words == Seq(STRING)
Within(p, k) == p[1] <= k * p[2]

\* What a row of job_cache is made of.
IsJob(job) ==
  /\ \A field \in {job.required, job.preferred, job.domains} :
       field \in SUBSET DOMAIN Spelling /\ IsFiniteSet(field)
  /\ job.role \in Words /\ job.title \in Words
  /\ job.minimum \in {Missing} \union Nat

\* The values of a function on a finite set are finitely many.
LEMMA FiniteImage ==
  ASSUME NEW S, IsFiniteSet(S), NEW f
  PROVE  IsFiniteSet({f[x] : x \in S})
<1> DEFINE T == {f[x] : x \in S}
           g == [x \in S |-> f[x]]
<1>1. g \in Surjection(S, T)
  BY DEF Surjection
<1> QED
  BY <1>1, FS_Surjection

\* normalizedSet keeps lists finite.
LEMMA NormalizedIsFinite ==
  ASSUME NEW S, IsFiniteSet(S)
  PROVE  IsFiniteSet(NormalizedSet(S))
<1>1. IsFiniteSet({Spelling[v] : v \in S}) /\ IsFiniteSet({})
  BY FiniteImage, FS_EmptySet
<1>2. CASE S = Missing
  <2>1. NormalizedSet(S) = {}
    BY <1>2 DEF NormalizedSet, Items
  <2> QED
    BY <1>1, <2>1
<1>3. CASE S # Missing
  <2>1. NormalizedSet(S) \subseteq {Spelling[v] : v \in S}
    BY <1>3 DEF NormalizedSet, Items
  <2> QED
    BY <1>1, <2>1, FS_Subset
<1> QED
  BY <1>2, <1>3

\* A weighted share is a fraction of its weight, and grows with what is there.
LEMMA OverlapIsShare ==
  ASSUME NEW have, NEW more, have \subseteq more, NEW want, IsFiniteSet(want),
         NEW weight \in Nat
  PROVE  LET p == WeightedOverlap(have, want, weight)
             q == WeightedOverlap(more, want, weight)
         IN p \in Fraction /\ Within(p, weight) /\ p[1] <= q[1] /\ p[2] = q[2] /\ q \in Fraction
<1> DEFINE m == Cardinality(want \intersect have)
           n == Cardinality(want \intersect more)
           d == Cardinality(want)
<1>1. CASE want = {}
  BY <1>1 DEF WeightedOverlap, Fraction, Within
<1>2. CASE want # {}
  <2>1. m \in Nat /\ n \in Nat /\ d \in Nat \ {0} /\ m <= n /\ m <= d
    <3>1. want \intersect have \in SUBSET want /\ want \intersect more \in SUBSET want
          /\ want \intersect have \in SUBSET (want \intersect more)
      OBVIOUS
    <3>2. IsFiniteSet(want \intersect have) /\ IsFiniteSet(want \intersect more)
          /\ m <= d /\ m <= n
      BY <3>1, FS_Subset
    <3> QED
      BY <1>2, <3>2, FS_CardinalityType, FS_EmptySet
  <2>2. /\ WeightedOverlap(have, want, weight) = <<weight * m, d>>
        /\ WeightedOverlap(more, want, weight) = <<weight * n, d>>
    BY <1>2 DEF WeightedOverlap
  <2> HIDE DEF m, n, d
  <2>3. weight * m \in Nat /\ weight * n \in Nat /\ weight * m <= weight * n
        /\ weight * m <= weight * d
    BY <2>1
  <2> QED
    BY <2>1, <2>2, <2>3 DEF Fraction, Within
<1> QED
  BY <1>1, <1>2

\* A text has finitely many words, and none only if it is empty.
LEMMA WordsAreFinite ==
  ASSUME NEW s \in Words
  PROVE  IsFiniteSet(WordsOf(s))
<1>1. DOMAIN s = 1..Len(s) /\ Len(s) \in Nat
  BY LenProperties DEF Words
<1>2. IsFiniteSet(DOMAIN s)
  BY <1>1, FS_Interval
<1> QED
  BY <1>2, FiniteImage DEF WordsOf

\* The overlap of a role is at most one.
LEMMA RoleOverlapIsShare ==
  ASSUME NEW role \in Words, NEW job, IsJob(job)
  PROVE  RoleOverlap(role, job) \in Fraction /\ Within(RoleOverlap(role, job), 1)
<1> DEFINE mine == WordsOf(role)
           other == WordsOf(job.role \o job.title)
           larger == IF Cardinality(mine) >= Cardinality(other) THEN mine ELSE other
<1>1. job.role \o job.title \in Words
  BY ConcatProperties DEF IsJob, Words
<1>2. IsFiniteSet(mine) /\ IsFiniteSet(other)
  BY <1>1, WordsAreFinite
<1>3. CASE mine = {} \/ other = {}
  BY <1>3 DEF RoleOverlap, Fraction, Within
<1>4. CASE ~(mine = {} \/ other = {}) /\ (Contains(job.role, role) \/ Contains(role, job.role))
  BY <1>4 DEF RoleOverlap, Fraction, Within
<1>5. CASE ~(mine = {} \/ other = {}) /\ ~(Contains(job.role, role) \/ Contains(role, job.role))
  <2>1. RoleOverlap(role, job) = <<Cardinality(mine \intersect other), Cardinality(larger)>>
    BY <1>5 DEF RoleOverlap
  <2>2. /\ Cardinality(mine) \in Nat \ {0} /\ Cardinality(other) \in Nat \ {0}
        /\ Cardinality(mine \intersect other) \in Nat
        /\ Cardinality(mine \intersect other) <= Cardinality(mine)
        /\ Cardinality(mine \intersect other) <= Cardinality(other)
    <3>1. mine \intersect other \in SUBSET mine /\ mine \intersect other \in SUBSET other
      OBVIOUS
    <3> QED
      BY <1>2, <1>5, <3>1, FS_Subset, FS_CardinalityType, FS_EmptySet
  <2>3. Cardinality(larger) \in Nat \ {0}
        /\ Cardinality(mine \intersect other) <= Cardinality(larger)
    BY <2>2
  <2> QED
    BY <2>1, <2>2, <2>3 DEF Fraction, Within
<1> QED
  BY <1>3, <1>4, <1>5

\* What scoring needs of a profile.
IsProfile(a) == a.years \in Nat /\ Texts(a.roles) \in Seq(Words)

\* A valid answer is such a profile, with lists of skills and domains.
LEMMA AnswersAreProfiles ==
  ASSUME NEW a \in Answers, ValidProfile(a)
  PROVE  IsProfile(a)
<1>1. a.years \in Nat
  BY CvAssumption DEF ValidProfile
<1>2. a.roles = Missing \/ a.roles \in Seq(Words)
  BY CvAssumption DEF Words
<1>3. << >> \in Seq(Words)
  BY EmptySeq
<1> QED
  BY <1>1, <1>2, <1>3 DEF IsProfile, Texts

\* Rows of job_cache are such jobs.
LEMMA CandidatesAreJobs == \A job \in Candidates : IsJob(job)
BY CvAssumption DEF IsJob, Words

\* roleRelevance is a share of 25.
LEMMA RoleIsShare ==
  ASSUME NEW a, IsProfile(a), NEW job, IsJob(job)
  PROVE  RoleRelevance(a, job) \in Fraction /\ Within(RoleRelevance(a, job), 25)
<1> DEFINE roles == Texts(a.roles)
           mine == RoleFamily(JoinedRoles(roles))
           other == RoleFamily(job.role \o job.title)
           overlaps == {RoleOverlap(roles[i], job) : i \in DOMAIN roles} \union {<<0, 1>>}
           best == CHOOSE p \in overlaps : \A q \in overlaps : q[1] * p[2] <= p[1] * q[2]
           share == [i \in DOMAIN roles |-> RoleOverlap(roles[i], job)]
<1>1. roles \in Seq(Words)
  BY DEF IsProfile
<1>2. \A i \in DOMAIN roles : roles[i] \in Words
  BY <1>1, ElementOfSeq, LenProperties
<1>3. \A p \in overlaps : p \in Fraction /\ Within(p, 1)
  <2>1. <<0, 1>> \in Fraction /\ Within(<<0, 1>>, 1)
    BY DEF Fraction, Within
  <2> QED
    BY <1>2, <2>1, RoleOverlapIsShare
<1>4. IsFiniteSet(overlaps)
  <2>1. IsFiniteSet(DOMAIN roles)
    BY <1>1, LenProperties, FS_Interval
  <2>2. IsFiniteSet({share[i] : i \in DOMAIN roles})
    BY <2>1, FiniteImage
  <2>3. {share[i] : i \in DOMAIN roles} = {RoleOverlap(roles[i], job) : i \in DOMAIN roles}
    OBVIOUS
  <2> QED
    BY <2>2, <2>3, FS_AddElement
<1>5. best \in Fraction /\ Within(best, 1)
  <2>1. overlaps \subseteq Fraction /\ overlaps # {}
    BY <1>3
  <2>2. HasBest(overlaps)
    BY <1>4, <2>1, BestExists
  <2>3. best \in overlaps
    BY <2>2 DEF HasBest, AtMost
  <2> QED
    BY <1>3, <2>3
<1>6. RoleRelevance(a, job) = IF mine # 0 /\ other # 0
                              THEN IF mine = other THEN <<25, 1>> ELSE <<0, 1>>
                              ELSE <<25 * best[1], best[2]>>
  BY DEF RoleRelevance
<1> HIDE DEF mine, other, best, overlaps
<1>7. <<25 * best[1], best[2]>> \in Fraction /\ Within(<<25 * best[1], best[2]>>, 25)
  BY <1>5 DEF Fraction, Within
<1>8. /\ <<25, 1>> \in Fraction /\ Within(<<25, 1>>, 25)
      /\ <<0, 1>> \in Fraction /\ Within(<<0, 1>>, 25)
  BY DEF Fraction, Within
<1> QED
  BY <1>6, <1>7, <1>8

\* experiencePoints are a share of 15.
LEMMA ExperienceIsShare ==
  ASSUME NEW years \in Nat, NEW minimum \in {Missing} \union Nat
  PROVE  LET p == ExperiencePoints(years, minimum) IN p \in Fraction /\ Within(p, 15)
<1>1. CASE minimum \in {Missing, 0}
  BY <1>1 DEF ExperiencePoints, Fraction, Within
<1>2. CASE minimum \notin {Missing, 0}
  <2>1. minimum \in Nat \ {0} /\ Least(years, minimum) \in Nat
        /\ Least(years, minimum) <= minimum
    BY <1>2 DEF Least
  <2>2. ExperiencePoints(years, minimum) = <<15 * Least(years, minimum), minimum>>
    BY <1>2 DEF ExperiencePoints
  <2> QED
    BY <2>1, <2>2 DEF Fraction, Within
<1> QED
  BY <1>1, <1>2

\* seniorityPoints are 15 or nothing: rounding does nothing to them.
LEMMA SeniorityIsExact ==
  ASSUME NEW mine, NEW wanted
  PROVE  LET p == SeniorityPoints(mine, wanted) IN
         p \in Fraction /\ Within(p, 15) /\ RoundScore(p) \in Nat /\ Near(RoundScore(p), p, 0)
<1> SUFFICES ASSUME NEW p, p \in {<<15, 1>>, <<0, 1>>}
             PROVE  /\ p \in Fraction /\ Within(p, 15)
                    /\ RoundScore(p) \in Nat /\ Near(RoundScore(p), p, 0)
  BY DEF SeniorityPoints
<1>1. p \in Nat \X Nat /\ p[2] = 1 /\ p[1] \in {0, 15}
  OBVIOUS
<1>2. p \in Fraction /\ Within(p, 15)
  BY <1>1 DEF Fraction, Within
<1>3. RoundScore(p) = 100 * p[1]
  <2>1. \A n \in {0, 15} : (200 * n + 1) \div (2 * 1) = 100 * n
    OBVIOUS
  <2>2. RoundScore(p) = (200 * p[1] + 1) \div (2 * 1)
    BY <1>1 DEF RoundScore
  <2> QED
    BY <1>1, <2>1, <2>2
<1> QED
  BY <1>1, <1>2, <1>3 DEF Near, NearNumbers

\* Shares add up.
LEMMA SharesAddUp ==
  ASSUME NEW p \in Fraction, NEW q \in Fraction, NEW j \in Nat, NEW k \in Nat,
         Within(p, j), Within(q, k)
  PROVE  Within(Plus(p, q), j + k)
<1> SUFFICES ASSUME NEW a \in Nat, NEW b \in Nat \ {0}, NEW c \in Nat, NEW d \in Nat \ {0},
                    a <= j * b, c <= k * d
             PROVE  a * d + c * b <= (j + k) * (b * d)
  BY SumsAreFractions DEF Within, Fraction
<1>1. a * d <= (j * b) * d /\ c * b <= (k * d) * b
  BY Scaling
<1>2. (j * b) * d + (k * d) * b = (j + k) * (b * d)
  OBVIOUS
<1>3. /\ a * d \in Int /\ c * b \in Int /\ (j * b) * d \in Int /\ (k * d) * b \in Int
      /\ (j + k) * (b * d) \in Int
  OBVIOUS
<1> QED
  BY <1>1, <1>2, <1>3

-----------------------------------------------------------------------------
(* The score *)

\* The exact parts, and their sum.
Required(a, job) == WeightedOverlap(NormalizedSet(a.skills), NormalizedSet(job.required), 35)
Role(a, job) == RoleRelevance(a, job)
Experience(a, job) == ExperiencePoints(a.years, job.minimum)
Seniority(a, job) == SeniorityPoints(a.seniority, job.seniority)
Preferred(a, job) == PreferredDomainPoints(a, job)
Total(a, job) ==
  Plus(Plus(Plus(Plus(Required(a, job), Role(a, job)), Experience(a, job)),
            Seniority(a, job)), Preferred(a, job))

\* ScoreCandidate, field by field.
LEMMA ScoreFields ==
  ASSUME NEW a, NEW job
  PROVE  LET m == ScoreCandidate(a, job) IN
         /\ m.job = job /\ m.percent = RoundScore(Total(a, job))
         /\ m.required = RoundScore(Required(a, job)) /\ m.role = RoundScore(Role(a, job))
         /\ m.experience = RoundScore(Experience(a, job))
         /\ m.seniority = RoundScore(Seniority(a, job))
         /\ m.preferred = RoundScore(Preferred(a, job))
BY DEF ScoreCandidate, Total, Required, Role, Experience, Seniority, Preferred

\* Every part is a share of its weight.
LEMMA PartsAreShares ==
  ASSUME NEW a, IsProfile(a), NEW job, IsJob(job)
  PROVE  /\ Required(a, job) \in Fraction /\ Within(Required(a, job), 35)
         /\ Role(a, job) \in Fraction /\ Within(Role(a, job), 25)
         /\ Experience(a, job) \in Fraction /\ Within(Experience(a, job), 15)
         /\ Seniority(a, job) \in Fraction /\ Within(Seniority(a, job), 15)
         /\ Preferred(a, job) \in Fraction /\ Within(Preferred(a, job), 10)
<1>1. IsFiniteSet(job.required) /\ IsFiniteSet(job.preferred \union job.domains)
  BY FS_Union DEF IsJob
<1>2. /\ IsFiniteSet(NormalizedSet(job.required))
      /\ IsFiniteSet(NormalizedSet(job.preferred \union job.domains))
  BY <1>1, NormalizedIsFinite
<1>3. Required(a, job) \in Fraction /\ Within(Required(a, job), 35)
  BY <1>2, OverlapIsShare DEF Required
<1>4. Role(a, job) \in Fraction /\ Within(Role(a, job), 25)
  BY RoleIsShare DEF Role
<1>5. Experience(a, job) \in Fraction /\ Within(Experience(a, job), 15)
  BY ExperienceIsShare DEF Experience, IsProfile, IsJob
<1>6. Seniority(a, job) \in Fraction /\ Within(Seniority(a, job), 15)
  BY SeniorityIsExact DEF Seniority
<1>7. Preferred(a, job) \in Fraction /\ Within(Preferred(a, job), 10)
  BY <1>2, OverlapIsShare DEF Preferred, PreferredDomainPoints
<1> QED
  BY <1>3, <1>4, <1>5, <1>6, <1>7

\* A share of a weight has at most a hundred hundredths for each of its points.
LEMMA SharesRound ==
  ASSUME NEW p \in Fraction, NEW w \in Nat, Within(p, w)
  PROVE  RoundScore(p) \in Nat /\ RoundScore(p) <= 100 * w
<1>1. ASSUME NEW n \in Nat, NEW d \in Nat \ {0}, NEW x \in Nat, n <= w * d,
             NearNumbers(x, n, d, 1)
      PROVE  x <= 100 * w
  <2>1. w * d \in Nat /\ 200 * n <= 200 * (w * d)
    BY <1>1
  <2>2. d * (2 * x) <= d * (200 * w + 1)
    <3>1. 2 * d * x = d * (2 * x) /\ d * (2 * x) \in Int
      OBVIOUS
    <3>2. d * (200 * w + 1) = 200 * (w * d) + d
      OBVIOUS
    <3> QED
      BY <1>1, <2>1, <3>1, <3>2 DEF NearNumbers
  <2>3. 2 * x \in Int /\ 200 * w + 1 \in Int /\ \A y, z \in Int : d * z <= d * y => z <= y
    OBVIOUS
  <2>4. 2 * x <= 200 * w + 1
    BY <2>2, <2>3
  <2> QED
    BY <2>4
<1>2. /\ RoundScore(p) \in Nat /\ NearNumbers(RoundScore(p), p[1], p[2], 1)
      /\ p[1] \in Nat /\ p[2] \in Nat \ {0} /\ p[1] <= w * p[2]
  BY RoundingIsNear DEF Near, Fraction, Within
<1> QED
  BY <1>1, <1>2

\* No part is above its weight when it is rounded.
LEMMA PartsFit ==
  ASSUME NEW a, IsProfile(a), NEW job, IsJob(job)
  PROVE  LET m == ScoreCandidate(a, job) IN
         /\ m.required <= 3500 /\ m.role <= 2500 /\ m.experience <= 1500
         /\ m.seniority <= 1500 /\ m.preferred <= 1000
<1>1. /\ RoundScore(Required(a, job)) <= 100 * 35 /\ RoundScore(Role(a, job)) <= 100 * 25
      /\ RoundScore(Experience(a, job)) <= 100 * 15
      /\ RoundScore(Seniority(a, job)) <= 100 * 15
      /\ RoundScore(Preferred(a, job)) <= 100 * 10
  BY PartsAreShares, SharesRound
<1> QED
  BY <1>1, ScoreFields

\* The total is at most 100 points.
LEMMA TotalIsShare ==
  ASSUME NEW a, IsProfile(a), NEW job, IsJob(job)
  PROVE  /\ Total(a, job) \in Fraction /\ Within(Total(a, job), 100)
         /\ RoundScore(Total(a, job)) \in Nat /\ RoundScore(Total(a, job)) <= 10000
<1> DEFINE p == Required(a, job)
           q == Role(a, job)
           r == Experience(a, job)
           s == Seniority(a, job)
           t == Preferred(a, job)
<1>1. /\ p \in Fraction /\ q \in Fraction /\ r \in Fraction /\ s \in Fraction /\ t \in Fraction
      /\ Within(p, 35) /\ Within(q, 25) /\ Within(r, 15) /\ Within(s, 15) /\ Within(t, 10)
  BY PartsAreShares
<1>2. Total(a, job) = Plus(Plus(Plus(Plus(p, q), r), s), t)
  BY DEF Total
<1> HIDE DEF p, q, r, s, t
<1>3. Plus(p, q) \in Fraction /\ Within(Plus(p, q), 60)
  BY <1>1, SumsAreFractions, SharesAddUp
<1>4. Plus(Plus(p, q), r) \in Fraction /\ Within(Plus(Plus(p, q), r), 75)
  BY <1>1, <1>3, SumsAreFractions, SharesAddUp
<1>5. Plus(Plus(Plus(p, q), r), s) \in Fraction /\ Within(Plus(Plus(Plus(p, q), r), s), 90)
  BY <1>1, <1>4, SumsAreFractions, SharesAddUp
<1>6. Total(a, job) \in Fraction /\ Within(Total(a, job), 100)
  BY <1>1, <1>2, <1>5, SumsAreFractions, SharesAddUp
<1> HIDE DEF Total
<1>7. RoundScore(Total(a, job)) \in Nat /\ RoundScore(Total(a, job)) <= 100 * 100
  BY <1>6, SharesRound
<1> QED
  BY <1>6, <1>7

\* Four parts are rounded apart from their sum, and the sum once.
LEMMA TotalIsNearItsParts ==
  ASSUME NEW a, IsProfile(a), NEW job, IsJob(job)
  PROVE  ScoreCandidate(a, job).percent - SumOfParts(ScoreCandidate(a, job)) \in -2..2
<1> DEFINE p == Required(a, job)
           q == Role(a, job)
           r == Experience(a, job)
           s == Seniority(a, job)
           t == Preferred(a, job)
           m == ScoreCandidate(a, job)
<1>1. p \in Fraction /\ q \in Fraction /\ r \in Fraction /\ s \in Fraction /\ t \in Fraction
  BY PartsAreShares
<1>2. RoundScore(s) \in Nat /\ Near(RoundScore(s), s, 0)
  BY SeniorityIsExact DEF Seniority
<1>3. Total(a, job) = Plus(Plus(Plus(Plus(p, q), r), s), t) /\ Total(a, job) \in Fraction
  <2>1. Total(a, job) \in Fraction
    BY TotalIsShare
  <2> QED
    BY <2>1 DEF Total
<1>4. /\ m.percent = RoundScore(Total(a, job))
      /\ SumOfParts(m) = RoundScore(p) + RoundScore(q) + RoundScore(r) + RoundScore(s)
                         + RoundScore(t)
  BY ScoreFields DEF SumOfParts
<1> HIDE DEF p, q, r, s, t, m
<1> DEFINE x == RoundScore(p) + RoundScore(q)
           y == x + RoundScore(r)
           z == y + RoundScore(s)
<1>5. /\ RoundScore(p) \in Nat /\ Near(RoundScore(p), p, 1)
      /\ RoundScore(q) \in Nat /\ Near(RoundScore(q), q, 1)
      /\ RoundScore(r) \in Nat /\ Near(RoundScore(r), r, 1)
      /\ RoundScore(t) \in Nat /\ Near(RoundScore(t), t, 1)
  BY <1>1, RoundingIsNear
<1>6. /\ Plus(p, q) \in Fraction /\ Plus(Plus(p, q), r) \in Fraction
      /\ Plus(Plus(Plus(p, q), r), s) \in Fraction
  BY <1>1, SumsAreFractions
<1>7. x \in Int /\ Near(x, Plus(p, q), 2)
  BY <1>1, <1>5, ErrorsAddUp
<1> HIDE DEF x
<1>8. y \in Int /\ Near(y, Plus(Plus(p, q), r), 3)
  BY <1>1, <1>5, <1>6, <1>7, ErrorsAddUp
<1> HIDE DEF y
<1>9. z \in Int /\ Near(z, Plus(Plus(Plus(p, q), r), s), 3)
  BY <1>1, <1>2, <1>6, <1>8, ErrorsAddUp
<1> HIDE DEF z
<1>10. z + RoundScore(t) \in Int /\ Near(z + RoundScore(t), Total(a, job), 4)
  BY <1>1, <1>3, <1>5, <1>6, <1>9, ErrorsAddUp
<1>11. RoundScore(Total(a, job)) \in Int /\ Near(RoundScore(Total(a, job)), Total(a, job), 1)
  BY <1>3, RoundingIsNear
<1>12. m.percent - (z + RoundScore(t)) \in -2..2
  BY <1>3, <1>4, <1>10, <1>11, NearEachOther
<1>13. SumOfParts(m) = z + RoundScore(t)
  BY <1>2, <1>4, <1>5 DEF x, y, z
<1> QED
  BY <1>12, <1>13 DEF m

-----------------------------------------------------------------------------
(* More skills *)

Grows(p, q) == p[1] <= q[1] /\ p[2] = q[2]

\* Sums grow with their parts.
LEMMA SumsGrow ==
  ASSUME NEW p \in Fraction, NEW pp \in Fraction, NEW q \in Fraction, NEW qq \in Fraction,
         Grows(p, pp), Grows(q, qq)
  PROVE  Grows(Plus(p, q), Plus(pp, qq))
<1>1. \A a, b, c, d, x, y \in Nat : a <= x /\ c <= y => a * d + c * b <= x * d + y * b
  <2> TAKE a, b, c, d, x, y \in Nat
  <2> HAVE a <= x /\ c <= y
  <2>1. a * d <= x * d /\ c * b <= y * b
    BY Scaling
  <2>2. a * d \in Int /\ x * d \in Int /\ c * b \in Int /\ y * b \in Int
    OBVIOUS
  <2> QED
    BY <2>1, <2>2
<1>2. /\ p[1] \in Nat /\ p[2] \in Nat /\ q[1] \in Nat /\ q[2] \in Nat
      /\ pp[1] \in Nat /\ qq[1] \in Nat
      /\ p[1] <= pp[1] /\ q[1] <= qq[1] /\ pp[2] = p[2] /\ qq[2] = q[2]
  BY DEF Fraction, Grows
<1>3. p[1] * q[2] + q[1] * p[2] <= pp[1] * q[2] + qq[1] * p[2]
  BY <1>1, <1>2
<1>4. /\ Plus(p, q)[1] = p[1] * q[2] + q[1] * p[2] /\ Plus(p, q)[2] = p[2] * q[2]
      /\ Plus(pp, qq)[1] = pp[1] * qq[2] + qq[1] * pp[2] /\ Plus(pp, qq)[2] = pp[2] * qq[2]
  BY SumsAreFractions
<1> QED
  BY <1>2, <1>3, <1>4 DEF Grows

\* Rounding keeps the order of what has one denominator.
LEMMA RoundingGrows ==
  ASSUME NEW p \in Fraction, NEW q \in Fraction, Grows(p, q)
  PROVE  RoundScore(p) <= RoundScore(q)
<1>1. /\ p[1] \in Nat /\ q[1] \in Nat /\ p[2] \in Nat \ {0} /\ p[1] <= q[1] /\ q[2] = p[2]
  BY DEF Fraction, Grows
<1>2. /\ 200 * p[1] + p[2] \in Nat /\ 200 * q[1] + p[2] \in Nat /\ 2 * p[2] \in Nat \ {0}
      /\ 200 * p[1] + p[2] <= 200 * q[1] + p[2]
  BY <1>1
<1> QED
  BY <1>1, <1>2, QuotientsGrow DEF RoundScore

\* One more skill leaves everything else of a profile as it is.
LEMMA RicherProfile ==
  ASSUME NEW a \in Answers, NEW s \in DOMAIN Spelling
  PROVE  LET richer == [a EXCEPT !.skills = Items(@) \union {s}] IN
         /\ richer.domains = a.domains /\ richer.roles = a.roles
         /\ richer.years = a.years /\ richer.seniority = a.seniority
         /\ NormalizedSet(a.skills) \subseteq NormalizedSet(richer.skills)
<1> DEFINE more == Items(a.skills) \union {s}
           richer == [a EXCEPT !.skills = more]
<1>1. a.skills \in {Missing} \union SUBSET DOMAIN Spelling
  BY CvAssumption
<1>2. more \in SUBSET DOMAIN Spelling
  BY <1>1 DEF Items
<1>3. Items(more) = more
  BY <1>2, CvAssumption DEF Items
<1>4. NormalizedSet(a.skills) \subseteq NormalizedSet(more)
  BY <1>3 DEF NormalizedSet
<1> HIDE DEF more
<1>5. /\ richer.domains = a.domains /\ richer.roles = a.roles
      /\ richer.years = a.years /\ richer.seniority = a.seniority
      /\ richer.skills = more
  BY CvAssumption
<1> QED
  BY <1>4, <1>5 DEF more

\* So it raises two parts of a score or none, and never lowers the total.
LEMMA RicherScoresMore ==
  ASSUME NEW a \in Answers, ValidProfile(a), NEW s \in DOMAIN Spelling,
         NEW job, IsJob(job)
  PROVE  LET richer == [a EXCEPT !.skills = Items(@) \union {s}] IN
         ScoreCandidate(richer, job).percent >= ScoreCandidate(a, job).percent
<1> DEFINE e == [a EXCEPT !.skills = Items(@) \union {s}]
<1>1. /\ e.domains = a.domains /\ e.roles = a.roles
      /\ e.years = a.years /\ e.seniority = a.seniority
      /\ NormalizedSet(a.skills) \subseteq NormalizedSet(e.skills)
  BY RicherProfile
<1> HIDE DEF e
<1>2. IsProfile(a) /\ IsProfile(e)
  BY <1>1, AnswersAreProfiles DEF IsProfile
<1>3. /\ Required(a, job) \in Fraction /\ Required(e, job) \in Fraction
      /\ Role(a, job) \in Fraction /\ Experience(a, job) \in Fraction
      /\ Seniority(a, job) \in Fraction
      /\ Preferred(a, job) \in Fraction /\ Preferred(e, job) \in Fraction
  BY <1>2, PartsAreShares
<1>4. /\ Role(e, job) = Role(a, job) /\ Experience(e, job) = Experience(a, job)
      /\ Seniority(e, job) = Seniority(a, job)
  BY <1>1 DEF Role, RoleRelevance, Experience, Seniority
<1>5. /\ IsFiniteSet(NormalizedSet(job.required))
      /\ IsFiniteSet(NormalizedSet(job.preferred \union job.domains))
  <2>1. IsFiniteSet(job.required) /\ IsFiniteSet(job.preferred \union job.domains)
    BY FS_Union DEF IsJob
  <2> QED
    BY <2>1, NormalizedIsFinite
<1>6. Grows(Required(a, job), Required(e, job))
  BY <1>1, <1>5, OverlapIsShare DEF Required, Grows
<1>7. Grows(Preferred(a, job), Preferred(e, job))
  <2>1. NormalizedSet(a.skills) \union NormalizedSet(a.domains)
          \subseteq NormalizedSet(e.skills) \union NormalizedSet(e.domains)
    BY <1>1
  <2> QED
    BY <1>5, <2>1, OverlapIsShare DEF Preferred, PreferredDomainPoints, Grows
<1>8. \A p \in Fraction : Grows(p, p)
  BY DEF Grows, Fraction
<1> DEFINE r == Role(a, job)
           x == Experience(a, job)
           y == Seniority(a, job)
           p1 == Plus(Required(a, job), r)
           q1 == Plus(Required(e, job), r)
           p2 == Plus(p1, x)
           q2 == Plus(q1, x)
           p3 == Plus(p2, y)
           q3 == Plus(q2, y)
<1>9. p1 \in Fraction /\ q1 \in Fraction /\ Grows(p1, q1)
  BY <1>3, <1>6, <1>8, SumsAreFractions, SumsGrow
<1> HIDE DEF p1, q1
<1>10. p2 \in Fraction /\ q2 \in Fraction /\ Grows(p2, q2)
  BY <1>3, <1>8, <1>9, SumsAreFractions, SumsGrow
<1> HIDE DEF p2, q2
<1>11. p3 \in Fraction /\ q3 \in Fraction /\ Grows(p3, q3)
  BY <1>3, <1>8, <1>10, SumsAreFractions, SumsGrow
<1> HIDE DEF p3, q3
<1>12. Grows(Plus(p3, Preferred(a, job)), Plus(q3, Preferred(e, job)))
       /\ Plus(p3, Preferred(a, job)) \in Fraction /\ Plus(q3, Preferred(e, job)) \in Fraction
  BY <1>3, <1>7, <1>11, SumsAreFractions, SumsGrow
<1>13. Total(a, job) = Plus(p3, Preferred(a, job)) /\ Total(e, job) = Plus(q3, Preferred(e, job))
  BY <1>4 DEF Total, p1, q1, p2, q2, p3, q3
<1>14. RoundScore(Total(a, job)) <= RoundScore(Total(e, job))
  BY <1>12, <1>13, RoundingGrows
<1>15. RoundScore(Total(a, job)) \in Nat /\ RoundScore(Total(e, job)) \in Nat
  BY <1>12, <1>13, RoundingIsNear
<1>16. ScoreCandidate(e, job).percent >= ScoreCandidate(a, job).percent
  BY <1>14, <1>15, ScoreFields
<1> QED
  BY <1>16 DEF e

-----------------------------------------------------------------------------
(* Text *)

Upto(K, i) == {j \in K : j <= i}
Rank(K, i) == Cardinality(Upto(K, i))

\* The members of a finite set of numbers, counted in their order.
LEMMA Ranks ==
  ASSUME NEW n \in Nat, NEW K \in SUBSET (1..n)
  PROVE  /\ IsFiniteSet(K) /\ Cardinality(K) \in Nat
         /\ \A i \in K : Rank(K, i) \in 1..Cardinality(K)
         /\ \A i, j \in K : i < j <=> Rank(K, i) < Rank(K, j)
         /\ \A k \in 1..Cardinality(K) : \E i \in K : Rank(K, i) = k
<1>1. IsFiniteSet(K) /\ Cardinality(K) \in Nat /\ K \subseteq Nat
  <2>1. IsFiniteSet(1..n)
    BY FS_Interval
  <2>2. IsFiniteSet(K)
    BY <2>1, FS_Subset
  <2> QED
    BY <2>2, FS_CardinalityType
<1>2. \A i : /\ IsFiniteSet(Upto(K, i)) /\ Rank(K, i) \in Nat
             /\ Rank(K, i) <= Cardinality(K)
  <2> TAKE i
  <2>1. Upto(K, i) \in SUBSET K
    BY DEF Upto
  <2> QED
    BY <1>1, <2>1, FS_Subset, FS_CardinalityType DEF Rank
<1>3. ASSUME NEW i \in K PROVE Rank(K, i) \in 1..Cardinality(K)
  <2>1. i \in Upto(K, i)
    BY DEF Upto
  <2>2. Rank(K, i) # 0
    BY <1>2, <2>1, FS_EmptySet DEF Rank
  <2> QED
    BY <1>1, <1>2, <2>2
<1>4. ASSUME NEW i \in K, NEW j \in K, i < j PROVE Rank(K, i) < Rank(K, j)
  <2>1. Upto(K, i) \in SUBSET Upto(K, j) /\ j \in Upto(K, j) /\ j \notin Upto(K, i)
    <3>1. i \in Nat /\ j \in Nat /\ ~(j <= i) /\ j <= j
      BY <1>1, <1>4
    <3>2. \A m \in K : m <= i => m <= j
      BY <1>1, <1>4, <3>1
    <3> QED
      BY <3>1, <3>2 DEF Upto
  <2>2. Rank(K, i) <= Rank(K, j) /\ Rank(K, i) # Rank(K, j)
    BY <1>2, <2>1, FS_Subset DEF Rank
  <2> QED
    BY <1>2, <2>2
<1>5. ASSUME NEW k \in 1..Cardinality(K) PROVE \E i \in K : Rank(K, i) = k
  <2> DEFINE rank == [i \in K |-> Rank(K, i)]
  <2>1. rank \in [K -> 1..Cardinality(K)]
    BY <1>3
  <2>2. \A i, j \in K : rank[i] = rank[j] => i = j
    <3> TAKE i, j \in K
    <3>1. i < j \/ j < i \/ i = j
      BY <1>1
    <3>2. Rank(K, i) \in Nat /\ Rank(K, j) \in Nat
      BY <1>2
    <3> QED
      BY <1>4, <3>1, <3>2
  <2>3. \A i \in K : rank[i] = Rank(K, i)
    OBVIOUS
  <2> HIDE DEF rank
  <2>4. rank \in Injection(K, 1..Cardinality(K))
    BY <2>1, <2>2 DEF Injection, IsInjective
  <2>5. IsFiniteSet(1..Cardinality(K)) /\ Cardinality(1..Cardinality(K)) = Cardinality(K)
    BY <1>1, FS_Interval
  <2>6. rank \in Surjection(K, 1..Cardinality(K))
    BY <2>4, <2>5, FS_Injection
  <2>7. PICK i \in K : rank[i] = k
    BY <2>6 DEF Surjection
  <2> QED
    BY <2>3, <2>7
<1>6. ASSUME NEW i \in K, NEW j \in K, Rank(K, i) < Rank(K, j) PROVE i < j
  <2>1. i < j \/ j < i \/ i = j
    BY <1>1
  <2>2. Rank(K, i) \in Nat /\ Rank(K, j) \in Nat
    BY <1>2
  <2> QED
    BY <1>4, <1>6, <2>1, <2>2
<1> QED
  BY <1>1, <1>3, <1>4, <1>5, <1>6

Sanitized == Line \union {"[REDACTED]"}

\* Two texts hold the same evidence, in number and order.
SameEvidence(sent, original) ==
  \E at \in [Relevant(sent) -> Relevant(original)] :
    /\ {at[k] : k \in Relevant(sent)} = Relevant(original)
    /\ \A k \in Relevant(sent) : sent[k] = original[at[k]]
    /\ \A k, l \in Relevant(sent) : k < l => at[k] < at[l]

\* The same of a third text.
LEMMA SameEvidenceTwice ==
  ASSUME NEW a, NEW b, NEW c, SameEvidence(a, b), SameEvidence(b, c)
  PROVE  SameEvidence(a, c)
<1> DEFINE A == Relevant(a)
           B == Relevant(b)
           C == Relevant(c)
<1>1. PICK f \in [A -> B] : /\ {f[k] : k \in A} = B
                            /\ \A k \in A : a[k] = b[f[k]]
                            /\ \A k, l \in A : k < l => f[k] < f[l]
  BY DEF SameEvidence
<1>2. PICK g \in [B -> C] : /\ {g[k] : k \in B} = C
                            /\ \A k \in B : b[k] = c[g[k]]
                            /\ \A k, l \in B : k < l => g[k] < g[l]
  BY DEF SameEvidence
<1> HIDE DEF A, B, C
<1> DEFINE h == [k \in A |-> g[f[k]]]
<1>3. h \in [A -> C] /\ \A k \in A : h[k] = g[f[k]] /\ f[k] \in B
  BY <1>1, <1>2
<1>4. \A i \in C : \E k \in A : h[k] = i
  <2> TAKE i \in C
  <2>1. PICK m \in B : g[m] = i
    BY <1>2
  <2>2. PICK k \in A : f[k] = m
    BY <1>1
  <2> QED
    BY <1>3, <2>1, <2>2
<1> HIDE DEF h
<1>5. {h[k] : k \in A} = C
  BY <1>3, <1>4
<1>6. \A k \in A : a[k] = c[h[k]]
  BY <1>1, <1>2, <1>3
<1>7. \A k, l \in A : k < l => h[k] < h[l]
  BY <1>1, <1>2, <1>3
<1> QED
  BY <1>3, <1>5, <1>6, <1>7 DEF SameEvidence, A, C

\* A selection with all evidence of a text has the same evidence.
LEMMA SelectionKeeps ==
  ASSUME NEW V, NEW n \in Nat, NEW lines \in [1..n -> V], NEW keep \in SUBSET (1..n)
  PROVE  /\ Selected(lines, keep) \in Seq(V)
         /\ Relevant(lines) \subseteq keep => SameEvidence(Selected(lines, keep), lines)
<1> DEFINE nth(k) == CHOOSE i \in keep : Cardinality({j \in keep : j <= i}) = k
           short == [k \in 1..Cardinality(keep) |-> lines[nth(k)]]
<1>1. short = Selected(lines, keep)
  BY DEF Selected
<1>3. \A k : nth(k) = CHOOSE i \in keep : Rank(keep, i) = k
  BY DEF Rank, Upto
<1> HIDE DEF nth
<1>4. /\ IsFiniteSet(keep) /\ Cardinality(keep) \in Nat
      /\ \A i \in keep : Rank(keep, i) \in 1..Cardinality(keep)
      /\ \A i, j \in keep : i < j <=> Rank(keep, i) < Rank(keep, j)
      /\ \A k \in 1..Cardinality(keep) : \E i \in keep : Rank(keep, i) = k
  BY Ranks
<1>5. \A k \in 1..Cardinality(keep) : nth(k) \in keep /\ Rank(keep, nth(k)) = k
  BY <1>3, <1>4
<1>6. \A i, j \in keep : Rank(keep, i) = Rank(keep, j) => i = j
  <2>1. \A i, j \in keep : i < j \/ j < i \/ i = j
    OBVIOUS
  <2>2. \A i \in keep : Rank(keep, i) \in Nat
    BY <1>4
  <2> QED
    BY <1>4, <2>1, <2>2
<1>7. \A k, l \in 1..Cardinality(keep) : k < l => nth(k) < nth(l)
  <2> TAKE k, l \in 1..Cardinality(keep)
  <2> HAVE k < l
  <2>1. /\ nth(k) \in keep /\ Rank(keep, nth(k)) = k
        /\ nth(l) \in keep /\ Rank(keep, nth(l)) = l
    BY <1>5
  <2> QED
    BY <1>4, <2>1
<1>8. /\ DOMAIN short = 1..Cardinality(keep)
      /\ \A k \in DOMAIN short : short[k] = lines[nth(k)] /\ nth(k) \in 1..n
  BY <1>5
<1>9. short \in Seq(V)
  <2>1. short \in [1..Cardinality(keep) -> V]
    BY <1>8
  <2> QED
    BY <1>4, <2>1
<1> HIDE DEF short
<1>10. ASSUME Relevant(lines) \subseteq keep PROVE SameEvidence(short, lines)
  <2> DEFINE at == [k \in Relevant(short) |-> nth(k)]
  <2>1. Relevant(short) \subseteq 1..Cardinality(keep)
    BY <1>8 DEF Relevant, LinesOf
  <2>2. at \in [Relevant(short) -> Relevant(lines)]
    BY <1>8 DEF Relevant, LinesOf
  <2>3. ASSUME NEW i \in Relevant(lines) PROVE \E k \in Relevant(short) : at[k] = i
    <3> DEFINE k == Rank(keep, i)
    <3>1. i \in keep /\ k \in 1..Cardinality(keep)
      BY <1>4, <1>10
    <3>2. nth(k) = i
      BY <1>5, <1>6, <3>1
    <3>3. k \in Relevant(short)
      BY <1>8, <3>1, <3>2 DEF Relevant, LinesOf
    <3> QED
      BY <3>2, <3>3
  <2>4. {at[k] : k \in Relevant(short)} = Relevant(lines)
    BY <2>2, <2>3
  <2>5. \A k \in Relevant(short) : short[k] = lines[at[k]]
    BY <1>8 DEF Relevant, LinesOf
  <2>6. \A k, l \in Relevant(short) : k < l => at[k] < at[l]
    BY <1>7, <2>1
  <2> QED
    BY <2>2, <2>4, <2>5, <2>6 DEF SameEvidence
<1> QED
  BY <1>1, <1>9, <1>10

\* compactBlankLines leaves out blank lines only.
LEMMA CompactionKeeps ==
  ASSUME NEW V, NEW lines \in Seq(V)
  PROVE  /\ CompactBlankLines(lines) \in Seq(V)
         /\ SameEvidence(CompactBlankLines(lines), lines)
<1> DEFINE n == Len(lines)
           keep == {i \in DOMAIN lines : lines[i] = "blank" => i = 1 \/ lines[i-1] # "blank"}
<1>1. n \in Nat /\ lines \in [1..n -> V] /\ keep \in SUBSET (1..n)
  OBVIOUS
<1>2. Relevant(lines) \subseteq keep
  BY DEF Relevant, LinesOf, Evidence
<1>3. CompactBlankLines(lines) = Selected(lines, keep)
  BY DEF CompactBlankLines
<1> HIDE DEF n, keep
<1> QED
  BY <1>1, <1>2, <1>3, SelectionKeeps

\* So does strings.TrimSpace.
LEMMA TrimmingKeeps ==
  ASSUME NEW V, NEW lines \in Seq(V)
  PROVE  TrimSpace(lines) \in Seq(V) /\ SameEvidence(TrimSpace(lines), lines)
<1> DEFINE n == Len(lines)
           full == {i \in DOMAIN lines : lines[i] # "blank"}
           keep == {i \in DOMAIN lines : \E j, k \in full : j <= i /\ i <= k}
<1>1. n \in Nat /\ lines \in [1..n -> V] /\ keep \in SUBSET (1..n)
  OBVIOUS
<1>2. Relevant(lines) \subseteq full
  BY DEF Relevant, LinesOf, Evidence
<1>3. full \subseteq keep
  <2>1. \A i \in full : i <= i /\ i \in DOMAIN lines
    BY <1>1
  <2> QED
    BY <2>1
<1>4. TrimSpace(lines) = Selected(lines, keep)
  BY DEF TrimSpace
<1> HIDE DEF n, full, keep
<1> QED
  BY <1>1, <1>2, <1>3, <1>4, SelectionKeeps

\* redactLikelyHeaderName blanks at most the first line with text, which may be a name.
LEMMA HeaderIsNoEvidence ==
  ASSUME NEW n \in Nat, NEW lines \in [1..n -> Line]
  PROVE  /\ RedactHeader(lines) \in [1..n -> Line]
         /\ \A i \in 1..n : \/ RedactHeader(lines)[i] = lines[i]
                            \/ /\ lines[i] \in {"name", "phrase"}
                               /\ RedactHeader(lines)[i] = "blank"
                               /\ \A j \in 1..i-1 : lines[j] = "blank"
<1> DEFINE head == {i \in DOMAIN lines : i <= 10 /\ lines[i] # "blank"}
           first == CHOOSE i \in head : \A j \in head : i <= j
           bare == [lines EXCEPT ![first] = "blank"]
<1>0. CASE head = {}
  <2>1. RedactHeader(lines) = lines
    BY <1>0 DEF RedactHeader
  <2> QED
    BY <2>1
<1>1. CASE head # {}
  <2>1. head \in SUBSET (1..10)
    OBVIOUS
  <2>2. first \in head /\ \A j \in head : first <= j
    <3> HIDE DEF head
    <3>1. /\ Cardinality(head) \in Nat
          /\ \A i \in head : Rank(head, i) \in 1..Cardinality(head)
          /\ \A i, j \in head : i < j <=> Rank(head, i) < Rank(head, j)
          /\ \A k \in 1..Cardinality(head) : \E i \in head : Rank(head, i) = k
      BY <2>1, Ranks
    <3>2. 1 \in 1..Cardinality(head)
      BY <1>1, <3>1
    <3>3. PICK least \in head : Rank(head, least) = 1
      BY <3>1, <3>2
    <3>4. \A j \in head : ~(j < least)
      BY <3>1, <3>3
    <3>5. \A j \in head : least <= j
      BY <2>1, <3>4
    <3> QED
      BY <3>5
  <2>3. first \in 1..n /\ first <= 10 /\ \A j \in 1..first-1 : lines[j] = "blank"
    BY <2>2
  <2> HIDE DEF head, first
  <2>4. \/ RedactHeader(lines) = lines
        \/ LooksLikePersonName(lines[first]) /\ RedactHeader(lines) = bare
    BY DEF RedactHeader, first, head
  <2>5. bare \in [1..n -> Line]
    BY DEF Line
  <2>6. \A i \in 1..n : bare[i] = lines[i] \/ (i = first /\ bare[i] = "blank")
    OBVIOUS
  <2>7. LooksLikePersonName(lines[first]) => lines[first] \in {"name", "phrase"}
    BY DEF LooksLikePersonName
  <2> HIDE DEF bare
  <2> QED
    BY <2>3, <2>4, <2>5, <2>6, <2>7
<1> QED
  BY <1>0, <1>1

\* A line of a pair that a pattern takes is the first one, or has the first one before it.
LEMMA SpannedLines ==
  ASSUME NEW lines, NEW A, NEW B, NEW i \in Spanned(lines, A, B)
  PROVE  \/ lines[i] \in A
         \/ /\ lines[i] \in B
            /\ \E j \in DOMAIN lines : lines[j] \in A /\ Adjacent(lines, j, i)
BY DEF Spanned, LinesOf

\* The patterns of labels and addresses blank lines with identity data, and the line
\* behind a heading or a number that they take with them.
LEMMA ErasedLines ==
  ASSUME NEW n \in Nat, NEW lines \in [1..n -> Line]
  PROVE  /\ RedactIdentity(lines) \in [1..n -> Line]
         /\ RedactAddresses(lines) \in [1..n -> Line]
         /\ \A i \in 1..n :
              /\ \/ RedactIdentity(lines)[i] = lines[i]
                 \/ /\ RedactIdentity(lines)[i] = "blank"
                    /\ \/ lines[i] \in {"label", "heading"}
                       \/ /\ lines[i] = "item"
                          /\ \E j \in 1..n : lines[j] = "heading" /\ Adjacent(lines, j, i)
              /\ \/ RedactAddresses(lines)[i] = lines[i]
                 \/ /\ RedactAddresses(lines)[i] = "blank"
                    /\ \/ lines[i] \in {"address", "year"}
                       \/ /\ lines[i] = "place"
                          /\ \E j \in 1..n : lines[j] = "year" /\ Adjacent(lines, j, i)
<1>1. "blank" \in Line
  BY DEF Line
<1>2. ASSUME NEW S
      PROVE  /\ Erased(lines, S) \in [1..n -> Line]
             /\ \A i \in 1..n : \/ Erased(lines, S)[i] = lines[i]
                                \/ i \in S /\ Erased(lines, S)[i] = "blank"
  BY <1>1 DEF Erased
<1>3. \A K : LinesOf(lines, K) = {i \in 1..n : lines[i] \in K}
  BY DEF LinesOf
<1>4. ASSUME NEW i \in LinesOf(lines, {"label"}) \union Spanned(lines, {"heading"}, {"item"})
      PROVE  \/ lines[i] \in {"label", "heading"}
             \/ /\ lines[i] = "item"
                /\ \E j \in 1..n : lines[j] = "heading" /\ Adjacent(lines, j, i)
  <2>1. CASE i \in LinesOf(lines, {"label"})
    BY <1>3, <2>1
  <2>2. CASE i \in Spanned(lines, {"heading"}, {"item"})
    BY <2>2, SpannedLines
  <2> QED
    BY <1>4, <2>1, <2>2
<1>5. ASSUME NEW i \in LinesOf(lines, {"address"})
                         \union Spanned(lines, {"year"}, {"place", "address"})
      PROVE  \/ lines[i] \in {"address", "year"}
             \/ /\ lines[i] = "place"
                /\ \E j \in 1..n : lines[j] = "year" /\ Adjacent(lines, j, i)
  <2>1. CASE i \in LinesOf(lines, {"address"})
    BY <1>3, <2>1
  <2>2. CASE i \in Spanned(lines, {"year"}, {"place", "address"})
    BY <2>2, SpannedLines
  <2> QED
    BY <1>5, <2>1, <2>2
<1> QED
  BY <1>2, <1>4, <1>5 DEF RedactIdentity, RedactAddresses

\* Of the evidence only what is taken for identity data is blanked.
LEMMA AnonymousKeeps ==
  ASSUME NEW n \in Nat, NEW lines \in [1..n -> Line]
  PROVE  LET anonymous == RedactAddresses(RedactIdentity(RedactHeader(lines))) IN
         /\ anonymous \in [1..n -> Line]
         /\ \A i \in 1..n :
              /\ anonymous[i] \in {lines[i], "blank"}
              /\ lines[i] \in Evidence =>
                   anonymous[i] = lines[i] \/ TakenForIdentity(lines, i)
<1> DEFINE a == RedactHeader(lines)
           b == RedactIdentity(a)
           c == RedactAddresses(b)
<1>1. /\ a \in [1..n -> Line]
      /\ \A i \in 1..n : \/ a[i] = lines[i]
                         \/ /\ lines[i] \in {"name", "phrase"} /\ a[i] = "blank"
                            /\ \A j \in 1..i-1 : lines[j] = "blank"
  BY HeaderIsNoEvidence
<1> HIDE DEF a
<1>2. /\ b \in [1..n -> Line]
      /\ \A i \in 1..n :
           \/ b[i] = a[i]
           \/ /\ b[i] = "blank"
              /\ \/ a[i] \in {"label", "heading"}
                 \/ a[i] = "item" /\ \E j \in 1..n : a[j] = "heading" /\ Adjacent(a, j, i)
  BY <1>1, ErasedLines
<1> HIDE DEF b
<1>3. /\ c \in [1..n -> Line]
      /\ \A i \in 1..n :
           \/ c[i] = b[i]
           \/ /\ c[i] = "blank"
              /\ \/ b[i] \in {"address", "year"}
                 \/ b[i] = "place" /\ \E j \in 1..n : b[j] = "year" /\ Adjacent(b, j, i)
  BY <1>2, ErasedLines
<1> HIDE DEF c
<1>4. \A i \in 1..n : a[i] \in {lines[i], "blank"} /\ b[i] \in {a[i], "blank"}
                      /\ c[i] \in {b[i], "blank"}
  BY <1>1, <1>2, <1>3
<1>5. ASSUME NEW i \in 1..n, NEW j \in 1..n, j < i, lines[j] # "blank"
      PROVE  a[i] = lines[i]
  BY <1>1, <1>5
<1>6. ASSUME NEW i \in 1..n, a[i] = "item", NEW j \in 1..n, a[j] = "heading", Adjacent(a, j, i)
      PROVE  TakenForIdentity(lines, i)
  <2>1. lines[i] = "item" /\ lines[j] = "heading" /\ j < i
    BY <1>4, <1>6 DEF Adjacent
  <2>2. \A k \in j+1..i-1 : a[k] = "blank" /\ k \in 1..n /\ j < k
    BY <1>6 DEF Adjacent
  <2>3. \A k \in j+1..i-1 : lines[k] = "blank"
    BY <1>5, <2>1, <2>2
  <2>4. Adjacent(lines, j, i) /\ j \in LinesOf(lines, {"heading"})
    BY <2>1, <2>3 DEF Adjacent, LinesOf
  <2> QED
    BY <2>1, <2>4 DEF TakenForIdentity
<1>7. ASSUME NEW i \in 1..n, b[i] = "place", NEW j \in 1..n, b[j] = "year", Adjacent(b, j, i)
      PROVE  TakenForIdentity(lines, i)
  <2>1. lines[i] = "place" /\ lines[j] = "year" /\ j < i
    BY <1>4, <1>7 DEF Adjacent
  <2>2. ASSUME NEW k \in j+1..i-1 PROVE lines[k] \in {"blank", "label", "heading", "item"}
    <3>1. b[k] = "blank" /\ k \in 1..n /\ j < k
      BY <1>7, <2>2 DEF Adjacent
    <3>2. a[k] = lines[k]
      BY <1>5, <2>1, <3>1
    <3> QED
      BY <1>2, <3>1, <3>2
  <2>3. j \in LinesOf(lines, {"year"})
    BY <2>1 DEF LinesOf
  <2> QED
    BY <2>1, <2>2, <2>3 DEF TakenForIdentity
<1>8. ASSUME NEW i \in 1..n, lines[i] \in Evidence
      PROVE  c[i] = lines[i] \/ TakenForIdentity(lines, i)
  <2>1. a[i] = lines[i]
    BY <1>1, <1>8 DEF Evidence
  <2>2. b[i] = a[i] \/ TakenForIdentity(lines, i)
    BY <1>2, <1>6, <1>8, <2>1 DEF Evidence
  <2>3. b[i] = a[i] => c[i] = b[i] \/ TakenForIdentity(lines, i)
    BY <1>3, <1>7, <1>8, <2>1 DEF Evidence
  <2> QED
    BY <2>1, <2>2, <2>3
<1> QED
  BY <1>3, <1>4, <1>8 DEF a, b, c

\* A text has the same evidence as another, but for contact data.
Masks(plain, lines) ==
  \A i \in DOMAIN lines :
    /\ plain[i] \in Evidence <=> lines[i] \in Evidence
    /\ lines[i] \in Evidence => plain[i] = WithoutContact(lines[i])

\* The patterns of contact data leave all evidence, without contact data.
LEMMA ContactsKeep ==
  ASSUME NEW n \in Nat, NEW lines \in [1..n -> Line]
  PROVE  /\ RedactContacts(lines) \in Seq(Sanitized)
         /\ \E plain \in [1..n -> Sanitized] :
              SameEvidence(RedactContacts(lines), plain) /\ Masks(plain, lines)
<1> DEFINE number == LinesOf(lines, {"dates", "phone"}) \union Spanned(lines, Numeric, Numeric)
           inside == {k \in DOMAIN lines : \E i, j \in LinesOf(lines, Numeric) :
                        Adjacent(lines, i, j) /\ k \in i+1..j}
           plain == [i \in DOMAIN lines |->
                       IF i \in number THEN "[REDACTED]" ELSE WithoutContact(lines[i])]
           keep == DOMAIN lines \ inside
<1>1. RedactContacts(lines) = Selected(plain, keep)
  BY DEF RedactContacts
<1>2. \A K : LinesOf(lines, K) = {i \in 1..n : lines[i] \in K}
  BY DEF LinesOf
<1>3. \A i \in number : lines[i] \in Numeric
  <2>1. \A i \in LinesOf(lines, {"dates", "phone"}) : lines[i] \in Numeric
    BY <1>2 DEF Numeric
  <2>2. \A i \in Spanned(lines, Numeric, Numeric) : lines[i] \in Numeric
    BY SpannedLines
  <2> QED
    BY <2>1, <2>2
<1>4. ASSUME NEW k \in inside PROVE lines[k] \notin Evidence
  <2>1. PICK i, j \in LinesOf(lines, Numeric) : Adjacent(lines, i, j) /\ k \in i+1..j
    OBVIOUS
  <2>2. i \in 1..n /\ j \in 1..n /\ lines[j] \in Numeric
    BY <1>2
  <2>3. lines[k] = "blank" \/ k = j
    BY <2>1, <2>2 DEF Adjacent
  <2> QED
    BY <2>2, <2>3 DEF Evidence, Numeric
<1>5. \A line \in Line : /\ WithoutContact(line) \in Sanitized
                         /\ WithoutContact(line) \in Evidence <=> line \in Evidence
  BY DEF WithoutContact, Line, Evidence, Numeric, Sanitized
<1> HIDE DEF number, inside
<1>6. plain \in [1..n -> Sanitized]
  BY <1>5 DEF Sanitized
<1>7. ASSUME NEW i \in 1..n
      PROVE  /\ plain[i] \in Evidence <=> lines[i] \in Evidence
             /\ lines[i] \in Evidence => plain[i] = WithoutContact(lines[i])
  <2>1. CASE i \in number
    <3>1. plain[i] = "[REDACTED]" /\ lines[i] \in Numeric
      BY <1>3, <2>1
    <3> QED
      BY <3>1 DEF Evidence, Numeric
  <2>2. CASE i \notin number
    <3>1. plain[i] = WithoutContact(lines[i])
      BY <2>2
    <3> QED
      BY <1>5, <3>1
  <2> QED
    BY <2>1, <2>2
<1> HIDE DEF plain
<1>8. Relevant(plain) \subseteq keep /\ keep \in SUBSET (1..n)
  BY <1>4, <1>6, <1>7 DEF Relevant, LinesOf
<1> HIDE DEF keep
<1>9. Selected(plain, keep) \in Seq(Sanitized) /\ SameEvidence(Selected(plain, keep), plain)
  BY <1>6, <1>8, SelectionKeeps
<1>10. Masks(plain, lines)
  BY <1>7 DEF Masks
<1> QED
  BY <1>1, <1>6, <1>9, <1>10

\* sanitizeCVText as a whole: which evidence of a CV is sent.
LEMMA SanitizingKeeps ==
  ASSUME NEW lines \in Seq(Line)
  PROVE  Sanitize(lines) \in Seq(Sanitized) /\ EvidenceIsSent(Sanitize(lines), lines)
<1> DEFINE n == Len(lines)
           anonymous == RedactAddresses(RedactIdentity(RedactHeader(lines)))
           masked == RedactContacts(anonymous)
           full == TrimSpace(CompactBlankLines(masked))
           sent == Truncate(full)
<1>1. n \in Nat /\ lines \in [1..n -> Line]
  OBVIOUS
<1>2. Sanitize(lines) = sent
  BY DEF Sanitize
<1> HIDE DEF n
<1>3. /\ anonymous \in [1..n -> Line]
      /\ \A i \in 1..n :
           /\ anonymous[i] \in {lines[i], "blank"}
           /\ lines[i] \in Evidence => anonymous[i] = lines[i] \/ TakenForIdentity(lines, i)
  BY <1>1, AnonymousKeeps
<1> HIDE DEF anonymous
<1>4. masked \in Seq(Sanitized)
  BY <1>1, <1>3, ContactsKeep
<1>5. PICK plain \in [1..n -> Sanitized] :
        SameEvidence(masked, plain) /\ Masks(plain, anonymous)
  BY <1>1, <1>3, ContactsKeep
<1> HIDE DEF masked
<1>6. full \in Seq(Sanitized) /\ SameEvidence(full, plain)
  <2> DEFINE compact == CompactBlankLines(masked)
  <2>1. compact \in Seq(Sanitized) /\ SameEvidence(compact, masked)
    BY <1>4, CompactionKeeps
  <2> HIDE DEF compact
  <2>2. TrimSpace(compact) \in Seq(Sanitized) /\ SameEvidence(TrimSpace(compact), compact)
    BY <2>1, TrimmingKeeps
  <2>3. SameEvidence(compact, plain)
    BY <1>5, <2>1, SameEvidenceTwice
  <2>4. SameEvidence(TrimSpace(compact), plain)
    BY <2>2, <2>3, SameEvidenceTwice
  <2> QED
    BY <2>2, <2>4 DEF compact
<1> HIDE DEF full
<1> DEFINE m == Least(Len(full), MaxLines)
<1>7. Len(full) \in Nat /\ MaxLines \in Nat
  BY <1>6, CvAssumption
<1>8. m \in Nat /\ m <= Len(full) /\ (m < Len(full) => m = MaxLines)
  BY <1>7 DEF Least
<1> HIDE DEF m
<1>9. /\ sent \in Seq(Sanitized) /\ Len(sent) = m
      /\ \A k \in 1..m : sent[k] = full[k]
  <2>1. sent = SubSeq(full, 1, m)
    BY DEF Truncate, m
  <2>2. sent = [k \in 1..m |-> full[k]]
    BY <1>6, <1>8, <2>1
  <2>3. \A k \in 1..m : full[k] \in Sanitized
    BY <1>6, <1>8
  <2>4. sent \in [1..m -> Sanitized]
    BY <2>2, <2>3
  <2> HIDE DEF sent
  <2> QED
    BY <1>8, <2>2, <2>4
<1> HIDE DEF sent
<1>10. PICK f \in [Relevant(full) -> Relevant(plain)] :
         /\ {f[k] : k \in Relevant(full)} = Relevant(plain)
         /\ \A k \in Relevant(full) : full[k] = plain[f[k]]
         /\ \A k, l \in Relevant(full) : k < l => f[k] < f[l]
  BY <1>6 DEF SameEvidence
<1>11. Relevant(sent) = {k \in Relevant(full) : k <= m} /\ Relevant(full) \subseteq Nat
  <2>1. DOMAIN sent = 1..m /\ DOMAIN full = 1..Len(full)
    BY <1>6, <1>9
  <2>2. \A k : k \in 1..m <=> k \in 1..Len(full) /\ k <= m
    BY <1>7, <1>8
  <2> QED
    BY <1>9, <2>1, <2>2 DEF Relevant, LinesOf
<1>12. /\ Relevant(plain) \subseteq Relevant(lines)
       /\ \A i \in Relevant(plain) : plain[i] = WithoutContact(lines[i])
       /\ \A i \in Relevant(lines) : i \in Relevant(plain) \/ TakenForIdentity(lines, i)
  <2>1. "blank" \notin Evidence /\ DOMAIN plain = 1..n /\ DOMAIN lines = 1..n
    BY <1>1, <1>5 DEF Evidence
  <2> QED
    BY <1>3, <1>5, <2>1 DEF Relevant, LinesOf, Masks
<1> DEFINE at == [k \in Relevant(sent) |-> f[k]]
<1>13. at \in [Relevant(sent) -> Relevant(lines)]
  BY <1>10, <1>11, <1>12
<1>14. \A k \in Relevant(sent) : at[k] = f[k] /\ k \in Relevant(full) /\ k <= m
  BY <1>11
<1> HIDE DEF at
<1>15. \A k \in Relevant(sent) : sent[k] = WithoutContact(lines[at[k]])
  <2> TAKE k \in Relevant(sent)
  <2>1. sent[k] = full[k]
    BY <1>9, <1>14 DEF Relevant, LinesOf
  <2> QED
    BY <1>10, <1>12, <1>14, <2>1
<1>16. \A k, l \in Relevant(sent) : k < l => at[k] < at[l]
  BY <1>10, <1>14
<1>17. ASSUME NEW i \in Relevant(lines) \ {at[k] : k \in Relevant(sent)}
       PROVE  \/ TakenForIdentity(lines, i)
              \/ Len(sent) = MaxLines /\ \A k \in Relevant(sent) : at[k] < i
  <2>1. CASE i \in Relevant(plain)
    <3>1. PICK k \in Relevant(full) : f[k] = i
      BY <1>10, <2>1
    <3>2. k \notin Relevant(sent)
      BY <1>14, <1>17, <3>1
    <3>3. k \in Nat /\ k <= Len(full) /\ ~(k <= m)
      BY <1>6, <1>7, <1>11, <3>1, <3>2 DEF Relevant, LinesOf
    <3>4. m = MaxLines
      BY <1>7, <1>8, <3>3
    <3>5. \A l \in Relevant(sent) : l < k
      BY <1>8, <1>11, <1>14, <3>3
    <3>6. \A l \in Relevant(sent) : at[l] < i
      BY <1>10, <1>14, <3>1, <3>5
    <3> QED
      BY <1>9, <3>4, <3>6
  <2>2. CASE i \notin Relevant(plain)
    BY <1>12, <1>17, <2>2
  <2> QED
    BY <2>1, <2>2
<1>18. EvidenceIsSent(sent, lines)
  BY <1>13, <1>15, <1>16, <1>17 DEF EvidenceIsSent
<1> QED
  BY <1>2, <1>9, <1>18

-----------------------------------------------------------------------------
(* The invariant *)

\* A score that ScoreCandidate computes for a valid profile is at most a hundred
\* percent, near its parts, and not above that of a profile with another skill.
LEMMA ScoresAreSound ==
  ASSUME NEW a \in Answers, ValidProfile(a), NEW job \in Candidates
  PROVE  LET m == ScoreCandidate(a, job) IN
         /\ m.job = job /\ m.percent \in Nat /\ m.percent <= 10000
         /\ m.percent - SumOfParts(m) \in -2..2
         /\ StorableScore(m) \/ m.percent # SumOfParts(m)
         /\ \A s \in DOMAIN Spelling :
              LET richer == [a EXCEPT !.skills = Items(@) \union {s}]
              IN ScoreCandidate(richer, job).percent >= m.percent
<1>1. IsProfile(a) /\ IsJob(job)
  BY AnswersAreProfiles, CandidatesAreJobs
<1> DEFINE m == ScoreCandidate(a, job)
<1>2. m.job = job /\ m.percent = RoundScore(Total(a, job))
  BY ScoreFields
<1>3. m.percent \in Nat /\ m.percent <= 10000
  BY <1>1, <1>2, TotalIsShare
<1>4. m.percent - SumOfParts(m) \in -2..2
  BY <1>1, TotalIsNearItsParts
<1>5. \A s \in DOMAIN Spelling :
        LET richer == [a EXCEPT !.skills = Items(@) \union {s}]
        IN ScoreCandidate(richer, job).percent >= m.percent
  BY <1>1, RicherScoresMore
<1>6. StorableScore(m) \/ m.percent # SumOfParts(m)
  BY <1>1, PartsFit DEF StorableScore
<1> QED
  BY <1>2, <1>3, <1>4, <1>5, <1>6

\* The text of a file is a sequence of lines.
LEMMA ExtractedIsText == \A f \in Documents : Extracted(f) \in Seq(Line)
<1> SUFFICES ASSUME NEW f \in Documents PROVE Extracted(f) \in Seq(Line)
  OBVIOUS
<1> DEFINE raw == CASE f.format = "txt"  -> f.lines
                    [] f.format = "docx" -> DocxText(f)
                    [] f.format = "pdf"  -> PdfText(f)
                    [] OTHER             -> <<>>
<1>1. f.lines \in Seq(Line) /\ << >> \in Seq(Line)
  BY CvAssumption, EmptySeq
<1>2. raw \in Seq(Line)
  BY <1>1 DEF DocxText, PdfText
<1>3. Extracted(f) = TrimSpace(raw)
  BY DEF Extracted
<1> HIDE DEF raw
<1> QED
  BY <1>2, <1>3, TrimmingKeeps

\* Steps that leave the scores and what they are computed from alone.
LEMMA ScoresStand ==
  ASSUME CvInv, UNCHANGED <<profile, listed, scored>>
  PROVE  /\ TotalsNearSum' /\ MoreEvidenceNeverHurts' /\ OnlySumsAreRefused'
         /\ \A m \in scored' : \E job \in listed' : m = ScoreCandidate(profile', job)
         /\ \A m \in scored' : m.job \in listed' /\ m.percent \in Nat /\ m.percent <= 10000
<1>1. TotalsNearSum'
  BY DEF CvInv, TotalsNearSum
<1>2. MoreEvidenceNeverHurts'
  BY DEF CvInv, MoreEvidenceNeverHurts
<1>3. OnlySumsAreRefused'
  BY DEF CvInv, OnlySumsAreRefused
<1> QED
  BY <1>1, <1>2, <1>3 DEF CvInv, ScoresAreComputed, CvTypeOK

\* Before anything is scored there is nothing to say of scores.
LEMMA NothingIsScored ==
  ASSUME scored' = {}
  PROVE  /\ TotalsNearSum' /\ MoreEvidenceNeverHurts' /\ OnlySumsAreRefused'
         /\ \A m \in scored' : \E job \in listed' : m = ScoreCandidate(profile', job)
         /\ \A m \in scored' : m.job \in listed' /\ m.percent \in Nat /\ m.percent <= 10000
<1>1. TotalsNearSum'
  BY DEF TotalsNearSum
<1>2. MoreEvidenceNeverHurts'
  BY DEF MoreEvidenceNeverHurts
<1>3. OnlySumsAreRefused'
  BY DEF OnlySumsAreRefused
<1> QED
  BY <1>1, <1>2, <1>3

\* The invariant holds initially.
LEMMA CvStarts == CvInit => CvInv
<1> SUFFICES ASSUME CvInit PROVE CvInv
  OBVIOUS
<1>1. CvTypeOK
  BY EmptySeq DEF CvInit, CvTypeOK
<1>2. TotalsNearSum /\ MoreEvidenceNeverHurts /\ ScoresAreComputed /\ ModelIsLeft
  BY DEF CvInit, TotalsNearSum, MoreEvidenceNeverHurts, ScoresAreComputed, ModelIsLeft
<1>3. MatchingTextSurvives /\ OnlySumsAreRefused
  BY DEF CvInit, MatchingTextSurvives, OnlySumsAreRefused
<1> QED
  BY <1>1, <1>2, <1>3 DEF CvInv

\* Every step of Process keeps the invariant.
LEMMA CvStep == CvInv /\ [CvNext]_cvVars => CvInv'
<1> SUFFICES ASSUME CvInv, [CvNext]_cvVars PROVE CvInv'
  OBVIOUS
<1>1. CASE ExtractText
  <2>1. /\ cv' = cv /\ asked' = asked /\ profile' = profile /\ listed' = listed
        /\ scored' = scored /\ stage = "context" /\ stage' \in {"parse", "failed"}
        /\ \/ text' = text
           \/ text' = Sanitize(Extracted(cv))
        /\ stage' = "parse" => text' = Sanitize(Extracted(cv))
        /\ failure' \in {failure, "cv_extract_failed", "cv_text_empty"}
    BY <1>1 DEF ExtractText, Fail
  <2>2. /\ Sanitize(Extracted(cv)) \in Seq(Sanitized)
        /\ EvidenceIsSent(Sanitize(Extracted(cv)), Extracted(cv))
    BY ExtractedIsText, SanitizingKeeps DEF CvInv, CvTypeOK
  <2>3. CvTypeOK'
    BY <2>1, <2>2, ScoresStand DEF CvInv, CvTypeOK, Sanitized
  <2>4. MatchingTextSurvives'
    BY <2>1, <2>2 DEF MatchingTextSurvives
  <2>5. ScoresAreComputed' /\ ModelIsLeft'
    BY <2>1, ScoresStand DEF CvInv, ScoresAreComputed, ModelIsLeft
  <2> QED
    BY <2>1, <2>3, <2>4, <2>5, ScoresStand DEF CvInv
<1>2. CASE ParseWithModel
  <2>1. PICK a \in Answers : ValidProfile(a) /\ profile' = a
    BY <1>2 DEF ParseWithModel
  <2>2. /\ cv' = cv /\ text' = text /\ asked' = asked /\ listed' = listed
        /\ failure' = failure /\ scored' = {} /\ stage = "parse" /\ stage' = "candidates"
    BY <1>2 DEF ParseWithModel, CvInv, ScoresAreComputed
  <2>3. CvTypeOK'
    BY <2>1, <2>2, NothingIsScored DEF CvInv, CvTypeOK
  <2>4. MatchingTextSurvives'
    BY <2>2 DEF CvInv, MatchingTextSurvives
  <2>5. ScoresAreComputed' /\ ModelIsLeft'
    BY <2>1, <2>2, NothingIsScored DEF ScoresAreComputed, ModelIsLeft
  <2> QED
    BY <2>2, <2>3, <2>4, <2>5, NothingIsScored DEF CvInv
<1>3. CASE ParseFails
  <2>1. /\ cv' = cv /\ text' = text /\ profile' = profile /\ listed' = listed
        /\ scored' = {} /\ scored = {} /\ stage = "parse" /\ asked \in {0, 1}
        /\ asked' = asked + 1 /\ stage' \in {"parse", "failed"}
        /\ stage' = "parse" => asked' = 1
        /\ failure' \in {failure, "deepseek_parse_failed"}
    BY <1>3 DEF ParseFails, Fail, CvInv, CvTypeOK, ScoresAreComputed, ModelIsLeft
  <2>2. CvTypeOK'
    BY <2>1, NothingIsScored DEF CvInv, CvTypeOK
  <2>3. MatchingTextSurvives'
    BY <2>1 DEF CvInv, MatchingTextSurvives
  <2>4. ScoresAreComputed' /\ ModelIsLeft'
    BY <2>1, NothingIsScored DEF ScoresAreComputed, ModelIsLeft
  <2> QED
    BY <2>1, <2>2, <2>3, <2>4, NothingIsScored DEF CvInv
<1>4. CASE ListMatchCandidates
  <2>1. /\ cv' = cv /\ text' = text /\ asked' = asked /\ profile' = profile
        /\ failure' = failure /\ scored' = {} /\ stage = "candidates" /\ stage' = "score"
        /\ listed' \subseteq Candidates
    BY <1>4 DEF ListMatchCandidates, CvInv, ScoresAreComputed
  <2>2. CvTypeOK'
    BY <2>1, NothingIsScored DEF CvInv, CvTypeOK
  <2>3. MatchingTextSurvives'
    BY <2>1 DEF CvInv, MatchingTextSurvives
  <2>4. ScoresAreComputed' /\ ModelIsLeft'
    BY <2>1, NothingIsScored DEF CvInv, ScoresAreComputed, ModelIsLeft
  <2> QED
    BY <2>1, <2>2, <2>3, <2>4, NothingIsScored DEF CvInv
<1>5. CASE ScoreCandidates
  <2>1. /\ cv' = cv /\ text' = text /\ asked' = asked /\ profile' = profile
        /\ failure' = failure /\ listed' = listed /\ stage = "score" /\ stage' = "store"
        /\ scored' = {ScoreCandidate(profile, job) : job \in listed}
    BY <1>5 DEF ScoreCandidates
  <2>2. profile \in Answers /\ ValidProfile(profile) /\ listed \subseteq Candidates
    BY <2>1 DEF CvInv, CvTypeOK, ScoresAreComputed
  <2>3. ASSUME NEW m \in scored'
        PROVE  /\ \E job \in listed : m = ScoreCandidate(profile, job)
               /\ m.job \in listed /\ m.percent \in Nat /\ m.percent <= 10000
               /\ m.percent - SumOfParts(m) \in -2..2
               /\ StorableScore(m) \/ m.percent # SumOfParts(m)
               /\ \A s \in DOMAIN Spelling :
                    LET richer == [profile EXCEPT !.skills = Items(@) \union {s}]
                    IN ScoreCandidate(richer, m.job).percent >= m.percent
    <3>1. PICK job \in listed : m = ScoreCandidate(profile, job)
      BY <2>1
    <3> QED
      BY <2>2, <3>1, ScoresAreSound
  <2>4. CvTypeOK'
    BY <2>1, <2>3 DEF CvInv, CvTypeOK
  <2>5. TotalsNearSum'
    BY <2>3 DEF TotalsNearSum
  <2>6. MoreEvidenceNeverHurts'
    BY <2>1, <2>3 DEF MoreEvidenceNeverHurts
  <2>7. MatchingTextSurvives'
    BY <2>1 DEF CvInv, MatchingTextSurvives
  <2>8. ScoresAreComputed' /\ ModelIsLeft'
    BY <2>1, <2>2, <2>3 DEF ScoresAreComputed, ModelIsLeft
  <2>9. OnlySumsAreRefused'
    BY <2>3 DEF OnlySumsAreRefused
  <2> QED
    BY <2>4, <2>5, <2>6, <2>7, <2>8, <2>9 DEF CvInv
<1>6. CASE CompleteScan
  <2>1. /\ UNCHANGED <<cv, text, asked, profile, listed, scored>>
        /\ stage = "store" /\ stage' \in {"completed", "failed"}
        /\ failure' \in {failure, "scan_results_failed"}
    BY <1>6 DEF CompleteScan, Fail
  <2>2. CvTypeOK'
    BY <2>1, ScoresStand DEF CvInv, CvTypeOK
  <2>3. MatchingTextSurvives'
    BY <2>1 DEF CvInv, MatchingTextSurvives
  <2>4. ScoresAreComputed' /\ ModelIsLeft'
    BY <2>1, ScoresStand DEF CvInv, ScoresAreComputed, ModelIsLeft
  <2> QED
    BY <2>1, <2>2, <2>3, <2>4, ScoresStand DEF CvInv
<1>7. CASE UNCHANGED cvVars
  <2>1. /\ UNCHANGED <<profile, listed, scored>>
        /\ cv' = cv /\ text' = text /\ asked' = asked /\ stage' = stage /\ failure' = failure
    BY <1>7 DEF cvVars
  <2>2. CvTypeOK'
    BY <2>1, ScoresStand DEF CvInv, CvTypeOK
  <2>3. MatchingTextSurvives'
    BY <2>1 DEF CvInv, MatchingTextSurvives
  <2>4. ScoresAreComputed' /\ ModelIsLeft'
    BY <2>1, ScoresStand DEF CvInv, ScoresAreComputed, ModelIsLeft
  <2> QED
    BY <2>1, <2>2, <2>3, <2>4, ScoresStand DEF CvInv
<1> QED
  BY <1>1, <1>2, <1>3, <1>4, <1>5, <1>6, <1>7 DEF CvNext

\* The inductive invariant of the matching of one CV.
THEOREM CvInvariance == CvSpec => []CvInv
BY CvStarts, CvStep, PTL DEF CvSpec

\* The percentage shown for a job is at most two hundredths of a point away from
\* the sum of the parts shown with it, whatever the CV, the answer and the job.
THEOREM TotalsStayNear == CvSpec => []TotalsNearSum
<1>1. CvInv => TotalsNearSum
  BY DEF CvInv
<1> QED
  BY <1>1, CvInvariance, PTL

\* No CV scores less for a skill more, in no spelling of it.
THEOREM SkillsNeverHurt == CvSpec => []MoreEvidenceNeverHurts
<1>1. CvInv => MoreEvidenceNeverHurts
  BY DEF CvInv
<1> QED
  BY <1>1, CvInvariance, PTL

\* Whatever identity data a CV has where, its lines with roles and prose are sent to
\* the language model in their order, but for those that a pattern takes with the line
\* before and for the end of a text that reaches the limit, wherever that is.
THEOREM RelevantTextSurvives == CvSpec => []MatchingTextSurvives
<1>1. CvInv => MatchingTextSurvives
  BY DEF CvInv
<1> QED
  BY <1>1, CvInvariance, PTL

\* Of all constraints on a score, only scan_matches_score_sum_check ever refuses
\* one: no part is above its weight (scan_matches, migration 000001).
THEOREM RefusedForTheSum == CvSpec => []OnlySumsAreRefused
<1>1. CvInv => OnlySumsAreRefused
  BY DEF CvInv
<1> QED
  BY <1>1, CvInvariance, PTL
=============================================================================
