---------------------------- MODULE Page_proofs -----------------------------
(***************************************************************************)
(* What is done to a page: how fast hosts are asked, who visits which page *)
(* and what is said of it meanwhile, where a search leads, what the checks in *)
(* a live page see, and of which element a finding of the language model is, *)
(* from its answer to the outline.  For any number of workers, pages and   *)
(* steps.                                                                  *)
(***************************************************************************)
EXTENDS Pace, Visits, Searching, LiveChecks, Language, FiniteSetTheorems,
        SequenceTheorems, WellFoundedInduction, TLAPS

\* A set of numbers that is not empty has a least one.
LEMMA LeastIs ==
  ASSUME NEW S \in SUBSET Nat, S # {}
  PROVE  \E x \in S : \A y \in S : x <= y
<1> DEFINE R == {ss \in Nat \X Nat : ss[1] < ss[2]}
<1>1. IsWellFoundedOn(R, Nat)
  BY NatLessThanWellFounded DEF OpToRel
<1> HIDE DEF R
<1>2. PICK x \in S : \A y \in S : ~ (<<y, x>> \in R)
  BY <1>1, WFMin
<1>3. \A y \in S : x <= y
  <2> SUFFICES ASSUME NEW y \in S  PROVE x <= y
    OBVIOUS
  <2>1. y \in Nat /\ x \in Nat /\ ~ (<<y, x>> \in R)
    BY <1>2
  <2>2. ~ (y < x)
    BY <2>1 DEF R
  <2> QED BY <2>1, <2>2
<1> QED BY <1>3

-----------------------------------------------------------------------------
(* The rate of a host *)

\* The ticks in which k tokens regenerate.
Worth(k) == k * Cost

\* What could still begin at once, with what has begun since a fetch did: the
\* bucket's content counts as fetches that have not come yet.
BucketIsHonest ==
  /\ \A i \in 1..Len(taken) :
       Worth(Len(taken) - i + 1) + tokens <= Capacity + last - taken[i]
  /\ \A i \in 1..Len(taken) : taken[i] <= last

PaceIInv == HostIsSpared /\ BucketIsHonest

\* The capacity is a number of ticks.
LEMMA CapacityIsNat == Capacity \in Nat
BY PaceAssumption DEF Capacity

LEMMA WorthOfOneMore ==
  /\ Cost \in Nat \ {0} /\ Worth(1) = Cost
  /\ \A k \in Int : Worth(k) \in Int /\ Worth(k + 1) = Worth(k) + Cost
BY PaceAssumption DEF Worth

\* The bucket gains no more than the time that goes by.
LEMMA TimePays ==
  ASSUME NEW begun \in Int, NEW content \in Int, NEW full \in Int, NEW size \in Int,
         NEW then \in Int, NEW now \in Int, NEW start \in Int,
         begun + content <= size + then - start, full <= content + (now - then)
  PROVE  begun + full <= size + now - start
OBVIOUS

LEMMA PaceInitHolds == PaceInit => PaceIInv
<1> SUFFICES ASSUME PaceInit  PROVE PaceIInv
  OBVIOUS
<1> USE PaceAssumption, CapacityIsNat
<1>1. Throttled = {}
  BY DEF PaceInit, Throttled
<1>2. SlotsKept
  BY <1>1, FS_EmptySet DEF SlotsKept
<1>3. taken \in Seq(0..clock) /\ Len(taken) = 0
  BY DEF PaceInit
<1>4. PaceTypeOK
  BY <1>3 DEF PaceInit, PaceTypeOK, Stand
<1>. QED  BY <1>2, <1>3, <1>4 DEF PaceIInv, HostIsSpared, PaceKept, BucketIsHonest

-----------------------------------------------------------------------------
\* A fetch comes, wakes or leaves: nothing happens to the bucket, and there are
\* more under way only when there is a slot.
LEMMA StandStep ==
  ASSUME PaceIInv, NEW f \in Fetcher, Admit(f) \/ Wake(f) \/ Release(f)
  PROVE  PaceIInv'
<1> USE PaceAssumption, CapacityIsNat DEF PaceIInv, HostIsSpared
<1>1. UNCHANGED <<clock, tokens, last, taken>>
  BY DEF Admit, Wake, Release
<1>2. PaceTypeOK'
  BY <1>1 DEF PaceTypeOK, Stand, Admit, Wake, Release
<1>3. PaceKept' /\ BucketIsHonest'
  BY <1>1 DEF PaceKept, BucketIsHonest, Capacity
<1>4. IsFiniteSet(Throttled) /\ Cardinality(Throttled) \in Nat
  BY FS_Subset, FS_CardinalityType DEF Throttled
<1>5. SlotsKept'
  <2>1. CASE Admit(f)
    <3>1. Throttled' = Throttled \cup {f} /\ f \notin Throttled
      BY <2>1 DEF Admit, Throttled, PaceTypeOK
    <3>2. Cardinality(Throttled') = Cardinality(Throttled) + 1
      BY <1>4, <3>1, FS_AddElement
    <3>. QED  BY <1>4, <2>1, <3>2 DEF SlotsKept, Admit
  <2>2. CASE Wake(f) \/ Release(f)
    <3>1. Throttled' \subseteq Throttled
      BY <2>2 DEF Wake, Release, Throttled, PaceTypeOK
    <3>2. Cardinality(Throttled') <= Cardinality(Throttled) /\ IsFiniteSet(Throttled')
      BY <1>4, <3>1, FS_Subset
    <3>3. Cardinality(Throttled') \in Nat
      BY <3>2, FS_CardinalityType
    <3>. QED  BY <1>4, <3>2, <3>3 DEF SlotsKept
  <2>. QED  BY <2>1, <2>2
<1>. QED  BY <1>2, <1>3, <1>5

\* Time alone changes nothing.
LEMMA TickStep == PaceIInv /\ Tick => PaceIInv'
<1> SUFFICES ASSUME PaceIInv, Tick  PROVE PaceIInv'
  OBVIOUS
<1> USE PaceAssumption, CapacityIsNat DEF PaceIInv, HostIsSpared
<1>1. clock' = clock + 1 /\ clock < MaxClock /\ UNCHANGED <<tokens, last, stand, wakeAt, taken>>
  BY DEF Tick
<1>2. taken \in Seq(0..clock')
  <2>1. 0..clock \subseteq 0..clock'
    BY <1>1 DEF PaceTypeOK
  <2>. QED  BY <2>1, SeqMonotonic DEF PaceTypeOK
<1>3. PaceTypeOK'
  BY <1>1, <1>2 DEF PaceTypeOK, Capacity
<1>. QED  BY <1>1, <1>3 DEF PaceKept, BucketIsHonest, SlotsKept, Throttled, Capacity

-----------------------------------------------------------------------------
(* One turn of the loop in take *)

\* The bucket fills up with time, to its capacity.
LEMMA RefillBounds ==
  ASSUME PaceTypeOK
  PROVE  /\ Refill(clock - last) \in 0..Capacity
         /\ Refill(clock - last) <= tokens + (clock - last)
BY CapacityIsNat, PaceAssumption DEF PaceTypeOK, Refill, PaceMin

\* A token is taken: it is paid for by the bucket, and the bucket by the time
\* that has gone by.
LEMMA TakenStep ==
  ASSUME PaceIInv, NEW full \in 0..Capacity, full <= tokens + (clock - last), full >= Cost,
         last' = clock, clock' = clock, tokens' = full - Cost, taken' = Append(taken, clock)
  PROVE  PaceKept' /\ BucketIsHonest' /\ taken' \in Seq(0..clock) /\ Len(taken') = Len(taken) + 1
<1> DEFINE n == Len(taken)
<1>1. /\ taken \in Seq(0..clock) /\ n \in Nat /\ clock \in Nat /\ last \in Int /\ last <= clock
      /\ tokens \in Int /\ full \in Int /\ full <= Capacity /\ Capacity \in Int /\ Cost \in Int
      /\ BucketIsHonest /\ PaceKept /\ Capacity' = Capacity
  BY CapacityIsNat, WorthOfOneMore DEF PaceIInv, HostIsSpared, PaceTypeOK, Capacity
<1>2. /\ taken' \in Seq(0..clock) /\ Len(taken') = n + 1 /\ taken'[n + 1] = clock
      /\ \A i \in 1..n : taken'[i] = taken[i] /\ taken[i] \in Int
      /\ \A i \in 1..n : taken[i] <= last
  <2>1. clock \in 0..clock
    BY <1>1
  <2>2. /\ Append(taken, clock) \in Seq(0..clock) /\ Len(Append(taken, clock)) = n + 1
        /\ Append(taken, clock)[n + 1] = clock
        /\ \A i \in 1..n : Append(taken, clock)[i] = taken[i]
    BY <1>1, <2>1, AppendProperties
  <2>3. \A i \in 1..n : taken[i] \in 0..clock
    BY <1>1, ElementOfSeq
  <2>4. \A i \in 1..n : taken[i] <= last
    BY <1>1 DEF BucketIsHonest
  <2>. QED  BY <1>1, <2>2, <2>3, <2>4
<1>3. ASSUME NEW i \in 1..(n + 1)
      PROVE  Worth(n + 1 - i + 1) + (full - Cost) <= Capacity + clock - taken'[i]
  <2>1. CASE i = n + 1
    <3>1. n + 1 - i + 1 = 1
      BY <1>1, <2>1
    <3>. QED  BY <1>1, <1>2, <2>1, <3>1, WorthOfOneMore
  <2>2. CASE i \in 1..n
    <3>1. Worth(n - i + 1) + tokens <= Capacity + last - taken[i]
      BY <1>1, <2>2 DEF BucketIsHonest
    <3>2. n - i + 1 \in Int /\ n + 1 - i + 1 = (n - i + 1) + 1
      BY <1>1, <2>2
    <3>3. Worth(n - i + 1) \in Int /\ Worth(n + 1 - i + 1) = Worth(n - i + 1) + Cost
      BY <3>2, WorthOfOneMore
    <3>4. Worth(n - i + 1) + full <= Capacity + clock - taken[i]
      <4>1. taken[i] \in Int /\ clock \in Int  BY <1>1, <1>2, <2>2
      <4>. QED  BY <1>1, <3>1, <3>3, <4>1, TimePays
    <3>. QED  BY <1>1, <1>2, <2>2, <3>3, <3>4
  <2>. QED  BY <1>1, <2>1, <2>2
<1>4. BucketIsHonest'
  <2>1. \A i \in 1..(n + 1) : taken'[i] <= clock
    BY <1>1, <1>2
  <2>2. \A i \in 1..(n + 1) : Worth(n + 1 - i + 1) + tokens' <= Capacity' + last' - taken'[i]
    BY <1>1, <1>3
  <2>. QED  BY <1>2, <2>1, <2>2 DEF BucketIsHonest
<1>5. ASSUME NEW i \in 1..(n + 1), NEW j \in 1..(n + 1), i <= j
      PROVE  Worth(j - i + 1) <= Capacity + taken'[j] - taken'[i]
  <2>1. CASE j \in 1..n
    <3>1. i \in 1..n
      BY <1>1, <1>5, <2>1
    <3>. QED  BY <1>1, <1>2, <1>5, <2>1, <3>1 DEF PaceKept, Worth
  <2>2. CASE j = n + 1
    <3>1. Worth(j - i + 1) + (full - Cost) <= Capacity + clock - taken'[i]
      BY <1>3, <2>2
    <3>2. Worth(j - i + 1) \in Int
      <4>1. j - i + 1 \in Int  BY <1>1
      <4>. QED  BY <4>1, WorthOfOneMore
    <3>3. taken'[i] \in Int  BY <1>1, <1>2
    <3>. QED  BY <1>1, <1>2, <2>2, <3>1, <3>2, <3>3
  <2>. QED  BY <1>1, <2>1, <2>2
<1>6. PaceKept'
  BY <1>1, <1>2, <1>5 DEF PaceKept, Worth
<1>. QED  BY <1>2, <1>4, <1>6

\* No token is taken: the bucket has only filled up.
LEMMA NotTakenStep ==
  ASSUME PaceIInv, NEW full \in 0..Capacity, full <= tokens + (clock - last),
         last' = clock, tokens' = full, UNCHANGED taken
  PROVE  BucketIsHonest'
<1>1. /\ taken \in Seq(0..clock) /\ Len(taken) \in Nat /\ clock \in Int /\ last \in Int
      /\ last <= clock /\ tokens \in Int /\ full \in Int /\ Capacity \in Int
      /\ BucketIsHonest /\ Capacity' = Capacity
  BY CapacityIsNat DEF PaceIInv, HostIsSpared, PaceTypeOK, Capacity
<1>2. ASSUME NEW i \in 1..Len(taken)
      PROVE  /\ Worth(Len(taken) - i + 1) + full <= Capacity + clock - taken[i]
             /\ taken[i] <= clock
  <2>1. /\ Worth(Len(taken) - i + 1) + tokens <= Capacity + last - taken[i]
        /\ taken[i] <= last
    BY <1>1 DEF BucketIsHonest
  <2>2. taken[i] \in 0..clock
    BY <1>1, ElementOfSeq
  <2>3. Worth(Len(taken) - i + 1) \in Int
    <3>1. Len(taken) - i + 1 \in Int  BY <1>1
    <3>. QED  BY <3>1, WorthOfOneMore
  <2>4. taken[i] \in Int /\ taken[i] <= clock
    BY <1>1, <2>2
  <2>. QED  BY <1>1, <2>1, <2>3, <2>4, TimePays
<1>. QED  BY <1>1, <1>2 DEF BucketIsHonest

LEMMA TakeStep ==
  ASSUME PaceIInv, NEW f \in Fetcher, Take(f)
  PROVE  PaceIInv'
<1> DEFINE full == Refill(clock - last)
<1> USE PaceAssumption, CapacityIsNat DEF PaceIInv, HostIsSpared
<1>1. full \in 0..Capacity /\ full <= tokens + (clock - last)
  BY RefillBounds
<1>2. stand[f] = "taking" /\ Len(taken) < MaxTaken /\ last' = clock /\ clock' = clock
  BY DEF Take
\* Who has taken a token or sleeps is still one of those under way.
<1>3. CASE full >= Cost
  <2>1. /\ tokens' = full - Cost /\ taken' = Append(taken, clock)
        /\ stand' = [stand EXCEPT ![f] = "fetching"] /\ UNCHANGED wakeAt
    BY <1>3 DEF Take
  <2> HIDE DEF full
  <2>2. PaceKept' /\ BucketIsHonest' /\ taken' \in Seq(0..clock) /\ Len(taken') = Len(taken) + 1
    BY <1>1, <1>2, <1>3, <2>1, TakenStep
  <2>3. tokens' \in 0..Capacity' /\ Capacity' = Capacity
    BY <1>1, <1>3, <2>1 DEF Capacity
  <2>4. PaceTypeOK'
    BY <1>2, <2>1, <2>2, <2>3 DEF PaceTypeOK, Stand
  <2>5. Throttled' = Throttled
    BY <1>2, <2>1 DEF Throttled, PaceTypeOK
  <2>. QED  BY <2>2, <2>4, <2>5 DEF SlotsKept
<1>4. CASE ~(full >= Cost)
  <2>1. /\ tokens' = full /\ UNCHANGED taken
        /\ stand' = [stand EXCEPT ![f] = "asleep"]
        /\ wakeAt' = [wakeAt EXCEPT ![f] = clock + Cost - full]
    BY <1>4 DEF Take
  <2> HIDE DEF full
  <2>2. clock + Cost - full \in Nat
    BY <1>1, <1>4 DEF PaceTypeOK
  <2>3. PaceTypeOK'
    BY <1>1, <1>2, <2>1, <2>2 DEF PaceTypeOK, Stand, Capacity
  <2>4. Throttled' = Throttled
    BY <1>2, <2>1 DEF Throttled, PaceTypeOK
  <2>5. PaceKept'
    BY <2>1 DEF PaceKept, Capacity
  <2>6. BucketIsHonest'
    BY <1>1, <1>2, <2>1, NotTakenStep
  <2>. QED  BY <2>3, <2>4, <2>5, <2>6 DEF SlotsKept
<1>. QED  BY <1>3, <1>4

-----------------------------------------------------------------------------
LEMMA PaceNextHolds == PaceIInv /\ [PaceNext]_paceVars => PaceIInv'
<1> SUFFICES ASSUME PaceIInv, [PaceNext]_paceVars  PROVE PaceIInv'
  OBVIOUS
<1>1. CASE Tick  BY <1>1, TickStep
<1>2. CASE \E f \in Fetcher : Admit(f) \/ Wake(f) \/ Release(f)  BY <1>2, StandStep
<1>3. CASE \E f \in Fetcher : Take(f)  BY <1>3, TakeStep
<1>4. CASE UNCHANGED paceVars
  BY <1>4 DEF PaceIInv, HostIsSpared, PaceTypeOK, PaceKept, SlotsKept, BucketIsHonest, Throttled,
              Capacity, paceVars
<1>. QED  BY <1>1, <1>2, <1>3, <1>4 DEF PaceNext

\* In no stretch of time do more fetches of a host begin than a full bucket and
\* the time allow, and no more are under way than its slots (HostLimiter,
\* _TokenBucket), whoever waits, sleeps, wakes or gives up.
THEOREM PaceCorrect == PaceSpec => []HostIsSpared
<1>1. PaceIInv => HostIsSpared  BY DEF PaceIInv
<1>. QED  BY <1>1, PaceInitHolds, PaceNextHolds, PTL DEF PaceSpec

-----------------------------------------------------------------------------
(* Visits and live progress *)

Under == {w \in Visitor : visit[w].at # "away"}

\* Two workers are on different pages and in different pooled tabs, and a tab is
\* in the pool or with a worker.
Apart ==
  /\ \A v, w \in Under : v # w => visit[v].page # visit[w].page
  /\ \A v, w \in Under : v # w /\ visit[v].tab \in Tab => visit[v].tab # visit[w].tab
  /\ \A w \in Under : visit[w].tab \notin pool
  /\ \A t \in Tab \ pool : \E w \in Under : visit[w].tab = t

\* What is left of a visit v, and what of it is done, by how far it is, where e
\* are the checks that ended and a the tabs that were altered.
VisitFits(v, e, a) ==
  /\ v.at \in {"begun", "storing"} => v.tab = OwnTab
  /\ v.at \in {"begun", "opening", "loaded"} => e[v.page] = {}
  /\ v.at = "checking" => v.left \subseteq InBrowser /\ e[v.page] \subseteq InBrowser \ v.left
  /\ v.at = "storing" => v.left \subseteq Afterwards /\ e[v.page] \cap v.left = {}
  /\ v.under => v.at \in {"checking", "storing"} /\ v.left # {}
  /\ v.at = "loaded" => v.tab \notin a
  /\ v.at = "checking" /\ "axe" \in v.left => v.tab \notin a

\* The entries of a map t are ordered by which was put in after which.
Ordered(t) ==
  /\ \A p \in DOMAIN t : t[p].newer \subseteq DOMAIN t /\ p \notin t[p].newer
  /\ \A p, q \in DOMAIN t : p = q \/ p \in t[q].newer \/ q \in t[p].newer
  /\ \A p, q \in DOMAIN t : q \in t[p].newer => t[q].newer \subseteq t[p].newer

\* What the table says of a page is what ended.
Tells(u) == \A k \in Tracked : table[u].checks[k] = "done" <=> k \in ended[u]

TableFits ==
  /\ Visited = DOMAIN table \ Over(table)
  /\ IsFiniteSet(DOMAIN table) /\ Ordered(table)
  /\ \A u \in DOMAIN table : Tells(u)
  /\ ShownAsRun /\ Cardinality(Over(table)) <= Keep

VisitsIInv ==
  VisitsTypeOK /\ Apart /\ (\A w \in Under : VisitFits(visit[w], ended, altered)) /\ TableFits /\ ReadAsLoaded

-----------------------------------------------------------------------------
(* The ordered map *)

\* Of finitely many entries, one was put in before all others.
LEMMA OldestIs ==
  ASSUME NEW t, Ordered(t), NEW S \in SUBSET DOMAIN t, IsFiniteSet(S), S # {}
  PROVE  \E o \in S : S \ {o} \subseteq t[o].newer
<1> DEFINE before(p) == {q \in S : p \in t[q].newer}
           counts == {Cardinality(before(p)) : p \in S}
<1>1. \A p \in S : IsFiniteSet(before(p)) /\ Cardinality(before(p)) \in Nat
  BY FS_Subset, FS_CardinalityType
<1>2. counts \in SUBSET Nat /\ counts # {} BY <1>1
<1> HIDE DEF counts
<1>3. PICK n \in counts : \A m \in counts : n <= m BY <1>2, LeastIs
<1>4. PICK o \in S : n = Cardinality(before(o)) BY DEF counts
<1>5. ASSUME NEW p \in S \ {o}, p \notin t[o].newer PROVE FALSE
  <2>1. o \in t[p].newer BY <1>5 DEF Ordered
  <2>2. before(p) \subseteq before(o) BY <2>1 DEF Ordered
  <2>3. p \in before(o) /\ p \notin before(p) BY <2>1 DEF Ordered
  <2>4. Cardinality(before(p)) <= Cardinality(before(o))
        /\ (Cardinality(before(p)) = Cardinality(before(o)) => before(p) = before(o))
    BY <1>1, <2>2, FS_Subset
  <2>5. Cardinality(before(p)) < Cardinality(before(o)) BY <1>1, <2>3, <2>4
  <2>6. Cardinality(before(p)) \in counts BY DEF counts
  <2>7. n <= Cardinality(before(p)) BY <1>3, <2>6
  <2>8. Cardinality(before(p)) \in Nat /\ Cardinality(before(o)) \in Nat BY <1>1
  <2> HIDE DEF before
  <2> QED BY <1>4, <2>5, <2>7, <2>8
<1> QED BY <1>5

LEMMA KeepNat == Keep \in Nat /\ OwnTab \notin Tab
BY VisitsAssumption

\* What trimming leaves of a map.
LEMMA TrimmedIs ==
  ASSUME NEW t, Ordered(t), IsFiniteSet(DOMAIN t),
         \A p \in DOMAIN t : t[p] \in PageEntry
  PROVE  /\ DOMAIN Trimmed(t) \subseteq DOMAIN t
         /\ \A p \in DOMAIN Trimmed(t) : /\ Trimmed(t)[p] \in PageEntry
                                        /\ Trimmed(t)[p].checks = t[p].checks
                                        /\ Trimmed(t)[p].finished = t[p].finished
         /\ Over(Trimmed(t)) \subseteq Over(t)
         /\ DOMAIN Trimmed(t) \ Over(Trimmed(t)) = DOMAIN t \ Over(t)
         /\ Ordered(Trimmed(t)) /\ IsFiniteSet(DOMAIN Trimmed(t))
         /\ Cardinality(Over(Trimmed(t))) <= Keep
<1> DEFINE r == Trimmed(t)
<1>1. DOMAIN r = Remaining(t) /\ Remaining(t) \subseteq DOMAIN t BY DEF Trimmed, Remaining
<1>2. \A p \in Remaining(t) : r[p] = [t[p] EXCEPT !.newer = @ \cap Remaining(t)] BY DEF Trimmed
<1>3. \A p \in Remaining(t) : /\ r[p] \in PageEntry /\ r[p].checks = t[p].checks
                             /\ r[p].finished = t[p].finished
                             /\ r[p].newer = t[p].newer \cap Remaining(t)
  BY <1>1, <1>2 DEF PageEntry
<1> HIDE DEF r
<1>4. Over(r) \subseteq Over(t) BY <1>1, <1>3 DEF Over
<1>5. \A p \in DOMAIN t \ Over(t) : p \in Remaining(t) BY DEF Remaining, Over
<1>6. \A p : p \in DOMAIN r \ Over(r) <=> p \in DOMAIN t \ Over(t) BY <1>1, <1>3, <1>5 DEF Over
<1>7. Ordered(r) BY <1>1, <1>3 DEF Ordered
<1>8. IsFiniteSet(DOMAIN r) BY <1>1, FS_Subset
<1>9. Cardinality(Over(r)) <= Keep
  <2>1. Over(r) \subseteq DOMAIN r /\ Over(r) \subseteq DOMAIN t BY <1>1 DEF Over
  <2>2. IsFiniteSet(Over(r)) BY <1>8, <2>1, FS_Subset
  <2>3. CASE Over(r) = {}
    <3>1. Cardinality(Over(r)) = 0 BY <2>3, FS_EmptySet
    <3> QED BY <3>1, KeepNat
  <2>4. CASE Over(r) # {}
    <3>1. PICK o \in Over(r) : Over(r) \ {o} \subseteq r[o].newer
      BY <1>7, <2>1, <2>2, <2>4, OldestIs
    <3>2. o \in Remaining(t) /\ t[o].finished BY <1>1, <1>3 DEF Over
    <3>3. Over(r) \ {o} \subseteq t[o].newer \cap Over(t) BY <1>3, <1>4, <3>1, <3>2
    <3>4. IsFiniteSet(t[o].newer \cap Over(t))
      <4>1. t[o].newer \cap Over(t) \subseteq DOMAIN t BY DEF Over
      <4> QED BY <4>1, FS_Subset
    <3>5. Cardinality(Over(r) \ {o}) <= Cardinality(t[o].newer \cap Over(t))
      BY <3>3, <3>4, FS_Subset
    <3>6. Cardinality(t[o].newer \cap Over(t)) < Keep BY <3>2 DEF Remaining
    <3>7. Cardinality(Over(r) \ {o}) = Cardinality(Over(r)) - 1 BY <2>2, <3>1, FS_RemoveElement
    <3>8. Cardinality(Over(r)) \in Nat /\ Cardinality(t[o].newer \cap Over(t)) \in Nat
      BY <2>2, <3>4, FS_CardinalityType
    <3> QED BY <3>5, <3>6, <3>7, <3>8, KeepNat
  <2> QED BY <2>3, <2>4
<1> QED BY <1>1, <1>3, <1>4, <1>6, <1>7, <1>8, <1>9 DEF r

-----------------------------------------------------------------------------
(* The workers *)

LEMMA UnderIs ==
  ASSUME VisitsTypeOK
  PROVE  \A w \in Visitor : (w \in Under <=> visit[w] \in Visit) /\ (w \notin Under <=> visit[w] = Away)
BY DEF VisitsTypeOK, Under, Visit, Away

LEMMA VisitedIs == \A u : u \in Visited <=> \E w \in Under : visit[w].page = u
BY DEF Visited, Under

\* A visit goes on as v, in the same tab or another.
Goes(w, v) ==
  /\ visit' = [visit EXCEPT ![w] = v] /\ v \in Visit /\ v.page = visit[w].page
  /\ \/ v.tab = visit[w].tab /\ pool' = pool
     \/ v.tab = OwnTab /\ visit[w].tab \in Tab /\ pool' = pool \cup {visit[w].tab}
     \/ visit[w].tab = OwnTab /\ v.tab \in pool /\ pool' = pool \ {v.tab}

LEMMA VisitGoes ==
  ASSUME VisitsIInv, NEW w \in Under, NEW v, Goes(w, v)
  PROVE  /\ Under' = Under /\ visit'[w] = v /\ (\A x \in Under \ {w} : visit'[x] = visit[x])
         /\ visit' \in [Visitor -> Visit \cup {Away}] /\ pool' \in SUBSET Tab
         /\ Visited' = Visited /\ Apart'
<1> USE DEF VisitsIInv, Goes
<1>1. w \in Visitor /\ visit[w] \in Visit BY UnderIs DEF Under
<1>2. visit \in [Visitor -> Visit \cup {Away}] /\ pool \in SUBSET Tab BY DEF VisitsTypeOK
<1>3. visit' \in [Visitor -> Visit \cup {Away}] /\ visit'[w] = v
      /\ \A x \in Visitor \ {w} : visit'[x] = visit[x] BY <1>1, <1>2
<1>4. v.at # "away" BY DEF Visit
<1>5. \A x : x \in Under' <=> x \in Under BY <1>1, <1>3, <1>4 DEF Under
<1>6. Under' = Under BY <1>5
<1>7. \A x \in Under \ {w} : visit'[x] = visit[x] BY <1>3 DEF Under
<1>8. pool' \in SUBSET Tab BY <1>1, <1>2 DEF Visit
<1>9. \A u : u \in Visited' <=> u \in Visited
  <2>1. \A u : u \in Visited' <=> \E x \in Under : visit'[x].page = u BY <1>6 DEF Visited, Under
  <2> QED BY <1>3, <1>7, <2>1, VisitedIs
<1>10. Visited' = Visited BY <1>9
<1>11. \A x, y \in Under : x # y => visit'[x].page # visit'[y].page BY <1>3, <1>7 DEF Apart
<1>12. \A x, y \in Under : x # y /\ visit'[x].tab \in Tab => visit'[x].tab # visit'[y].tab
  <2>1. \A y \in Under \ {w} : v.tab \in Tab => v.tab # visit[y].tab BY KeepNat DEF Apart
  <2>2. \A y \in Under \ {w} : visit[y].tab \in Tab => v.tab # visit[y].tab BY KeepNat DEF Apart
  <2>3. \A x, y \in Under \ {w} : x # y /\ visit[x].tab \in Tab => visit[x].tab # visit[y].tab BY DEF Apart
  <2> QED BY <1>3, <1>7, <2>1, <2>2, <2>3
<1>13. \A x \in Under : visit'[x].tab \notin pool'
  <2>1. v.tab \notin pool' BY <1>2, KeepNat DEF Apart
  <2>2. \A x \in Under \ {w} : visit[x].tab \notin pool' BY DEF Apart
  <2> QED BY <1>3, <1>7, <2>1, <2>2
<1>14. \A t \in Tab \ pool' : \E x \in Under : visit'[x].tab = t
  <2> SUFFICES ASSUME NEW t \in Tab \ pool' PROVE \E x \in Under : visit'[x].tab = t OBVIOUS
  <2>1. CASE t = v.tab BY <1>3, <2>1
  <2>2. CASE t # v.tab
    <3>1. t \notin pool /\ t # visit[w].tab BY <2>2, KeepNat
    <3>2. PICK x \in Under : visit[x].tab = t BY <3>1 DEF Apart
    <3> QED BY <1>7, <3>1, <3>2
  <2> QED BY <2>1, <2>2
<1>15. Apart' BY <1>6, <1>11, <1>12, <1>13, <1>14 DEF Apart
<1> QED BY <1>3, <1>6, <1>7, <1>8, <1>10, <1>15

\* What VisitFits says of a visit depends on its page and its tab only.
LEMMA OthersFit ==
  ASSUME VisitsIInv, NEW w \in Under, NEW x \in Under \ {w}, visit'[x] = visit[x],
         \A u \in Address \ {visit[w].page} : ended'[u] = ended[u],
         \A t \in altered' : t \in altered \/ (t = visit[w].tab /\ t \in Tab)
  PROVE  VisitFits(visit[x], ended, altered)'
<1> USE DEF VisitsIInv
<1>1. visit[x] \in Visit /\ visit[w] \in Visit BY UnderIs DEF Under
<1>2. visit[x].page # visit[w].page /\ visit[x].page \in Address BY <1>1 DEF Apart, Visit
<1>3. ended'[visit[x].page] = ended[visit[x].page] BY <1>2
<1>4. visit[x].tab \notin altered => visit[x].tab \notin altered' BY DEF Apart
<1> QED BY <1>3, <1>4 DEF VisitFits

\* A step that leaves the table alone and ends no check.
LEMMA TableStays ==
  ASSUME TableFits, table' = table, ended' = ended, Visited' = Visited
  PROVE  TableFits'
BY DEF TableFits, Over, Ordered, Tells, ShownAsRun

LEMMA TypeStays ==
  ASSUME VisitsTypeOK, visit' \in [Visitor -> Visit \cup {Away}], pool' \in SUBSET Tab,
         altered' \in SUBSET Tab, table' = table, ended' = ended, visits' = visits, astray' \in BOOLEAN
  PROVE  VisitsTypeOK'
BY DEF VisitsTypeOK

\* A step of a visit that neither touches the table nor ends a check, and reads
\* nothing.
LEMMA PlainStep ==
  ASSUME VisitsIInv, NEW w \in Under, NEW v, Goes(w, v),
         altered' \in SUBSET Tab, altered' \subseteq altered, VisitFits(v, ended', altered'),
         UNCHANGED <<table, ended, visits>>, astray' = FALSE
  PROVE  VisitsIInv'
<1> USE DEF VisitsIInv
<1>1. /\ Under' = Under /\ visit'[w] = v /\ (\A x \in Under \ {w} : visit'[x] = visit[x])
      /\ visit' \in [Visitor -> Visit \cup {Away}] /\ pool' \in SUBSET Tab
      /\ Visited' = Visited /\ Apart' BY VisitGoes
<1>2. VisitsTypeOK' BY <1>1, TypeStays
<1>3. TableFits' BY <1>1, TableStays
<1>4. \A x \in Under \ {w} : VisitFits(visit[x], ended, altered)' BY <1>1, OthersFit
<1>5. \A x \in Under' : VisitFits(visit[x], ended, altered)'
  <2>1. VisitFits(visit[w], ended, altered)' BY <1>1 DEF VisitFits
  <2> QED BY <1>1, <1>4, <2>1
<1>6. ReadAsLoaded' BY DEF ReadAsLoaded
<1> QED BY <1>1, <1>2, <1>3, <1>5, <1>6

LEMMA VisitsInitHolds == VisitsInit => VisitsIInv
<1> SUFFICES ASSUME VisitsInit PROVE VisitsIInv OBVIOUS
<1> USE DEF VisitsInit
<1>0. DOMAIN table = {} BY DEF NoPages
<1>1. VisitsTypeOK
  <2>1. 0 \in 0..MaxVisits BY VisitsAssumption
  <2> QED BY <1>0, <2>1 DEF VisitsTypeOK
<1>2. Under = {} BY DEF Under, Away
<1>3. Apart BY <1>2 DEF Apart
<1>4. Visited = {} /\ Over(table) = {} BY <1>0, <1>2, VisitedIs DEF Over
<1>5. IsFiniteSet(DOMAIN table) /\ Cardinality(Over(table)) = 0 BY <1>0, <1>4, FS_EmptySet
<1>6. Ordered(table) /\ ShownAsRun BY <1>0, <1>4 DEF Ordered, ShownAsRun
<1>7. TableFits BY <1>0, <1>4, <1>5, <1>6, KeepNat DEF TableFits
<1> QED BY <1>1, <1>2, <1>3, <1>7 DEF VisitsIInv, ReadAsLoaded

LEMMA FirstIs ==
  ASSUME NEW left \in SUBSET AllChecks, left # {}
  PROVE  First(left) \in left /\ ("axe" \in left => First(left) = "axe")
<1> DEFINE S == {i \in DOMAIN Order : Order[i] \in left}
<1>1. DOMAIN Order = 1..11 /\ Order[1] = "axe" BY DEF Order
<1>2. S \in SUBSET Nat /\ S # {} BY <1>1 DEF AllChecks
<1>3. PICK i \in S : \A j \in S : i <= j BY <1>2, LeastIs
<1>4. \A j \in 1..(i - 1) : Order[j] \notin left BY <1>1, <1>2, <1>3
<1> DEFINE c == CHOOSE k \in DOMAIN Order : Order[k] \in left /\ \A j \in 1..(k - 1) : Order[j] \notin left
<1>5. c \in DOMAIN Order /\ Order[c] \in left /\ \A j \in 1..(c - 1) : Order[j] \notin left
  BY <1>3, <1>4
<1> HIDE DEF c
<1>6. First(left) = Order[c] BY DEF First, c
<1>7. "axe" \in left => c = 1 BY <1>1, <1>5
<1> QED BY <1>1, <1>5, <1>6, <1>7

\* The checks come in two groups.
LEMMA ChecksAre ==
  /\ Afterwards \subseteq AllChecks /\ InBrowser \subseteq AllChecks /\ "axe" \notin Afterwards
  /\ InBrowser \cap Afterwards = {} /\ "axe" \notin Altering
<1>1. Afterwards \subseteq AllChecks
  <2>1. DOMAIN Order = 1..11 BY DEF Order
  <2>2. Order[9] = "image" /\ Order[10] = "alfa" /\ Order[11] = "semantic" BY DEF Order
  <2> QED BY <2>1, <2>2 DEF AllChecks, Afterwards
<1>2. InBrowser \subseteq AllChecks /\ InBrowser \cap Afterwards = {} BY DEF InBrowser
<1> QED BY <1>1, <1>2 DEF Afterwards, Altering

\* Enter: a page that no worker is on.
LEMMA EnterTable ==
  ASSUME VisitsTypeOK, TableFits, NEW u \in Address \ Visited, table' = Entered(u),
         ended' = [ended EXCEPT ![u] = {}], Visited' = Visited \cup {u}
  PROVE  TableFits' /\ DOMAIN table' \subseteq Address /\ \A p \in DOMAIN table' : table'[p] \in PageEntry
<1> USE DEF TableFits
<1>1. DOMAIN table' = DOMAIN table \cup {u} BY DEF Entered
<1>2. table'[u] = [finished |-> FALSE, checks |-> [k \in Tracked |-> "waiting"], newer |-> {}]
      /\ \A p \in DOMAIN table \ {u} : table'[p] = [table[p] EXCEPT !.newer = @ \cup {u}]
  BY DEF Entered
<1>3. \A p \in DOMAIN table : table[p] \in PageEntry BY DEF VisitsTypeOK
<1>4. ASSUME NEW p \in DOMAIN table \ {u}
      PROVE  /\ table'[p] \in PageEntry /\ table'[p].checks = table[p].checks
             /\ table'[p].finished = table[p].finished /\ table'[p].newer = table[p].newer \cup {u}
  <2>1. table'[p] = [table[p] EXCEPT !.newer = @ \cup {u}] BY <1>2
  <2>2. table[p] \in PageEntry BY <1>3
  <2>3. table[p].newer \cup {u} \in SUBSET Address BY <2>2 DEF PageEntry
  <2> QED BY <2>1, <2>2, <2>3 DEF PageEntry
<1>5. /\ ~table'[u].finished /\ table'[u].newer = {} /\ table'[u] \in PageEntry
      /\ \A k \in Tracked : table'[u].checks[k] = "waiting"
  BY <1>2 DEF PageEntry, CheckState
<1>6. ended' \in [Address -> SUBSET AllChecks] /\ ended'[u] = {}
      /\ \A p \in Address \ {u} : ended'[p] = ended[p]
  BY DEF VisitsTypeOK
<1>7. DOMAIN table \subseteq Address BY DEF VisitsTypeOK
<1>8. Over(table') \subseteq Over(table) /\ u \notin Over(table') /\ Over(table) \ {u} \subseteq Over(table')
  BY <1>1, <1>4, <1>5 DEF Over
<1>9. Visited' = DOMAIN table' \ Over(table') BY <1>1, <1>8
<1>10. IsFiniteSet(DOMAIN table') BY <1>1, FS_AddElement
<1>11. Ordered(table')
  <2>1. \A p \in DOMAIN table' : table'[p].newer \subseteq DOMAIN table' /\ p \notin table'[p].newer
    BY <1>1, <1>4, <1>5 DEF Ordered
  <2>2. \A p, q \in DOMAIN table' : p = q \/ p \in table'[q].newer \/ q \in table'[p].newer
    BY <1>1, <1>4, <1>5 DEF Ordered
  <2>3. \A p, q \in DOMAIN table' : q \in table'[p].newer => table'[q].newer \subseteq table'[p].newer
    BY <1>1, <1>4, <1>5 DEF Ordered
  <2> QED BY <2>1, <2>2, <2>3 DEF Ordered
<1>12. \A p \in DOMAIN table' : Tells(p)' BY <1>1, <1>4, <1>5, <1>6, <1>7 DEF Tells
<1>13. ShownAsRun' BY <1>1, <1>4, <1>6, <1>7, <1>8 DEF ShownAsRun, Over
<1>14. Cardinality(Over(table')) <= Keep
  <2>1. IsFiniteSet(Over(table)) BY FS_Subset DEF Over
  <2>2. Cardinality(Over(table')) <= Cardinality(Over(table)) /\ IsFiniteSet(Over(table'))
    BY <1>8, <2>1, FS_Subset
  <2>3. Cardinality(Over(table')) \in Nat /\ Cardinality(Over(table)) \in Nat
    BY <2>1, <2>2, FS_CardinalityType
  <2> QED BY <2>2, <2>3, KeepNat
<1> QED BY <1>1, <1>4, <1>5, <1>7, <1>9, <1>10, <1>11, <1>12, <1>13, <1>14

LEMMA EnterHolds == ASSUME VisitsIInv, NEW w \in Visitor, Enter(w) PROVE VisitsIInv'
<1> USE DEF VisitsIInv
<1>1. PICK u \in Address \ Visited :
        /\ visits[u] < MaxVisits /\ visits' = [visits EXCEPT ![u] = @ + 1]
        /\ visit' = [visit EXCEPT ![w] = [at |-> "begun", page |-> u, tab |-> OwnTab,
                                          left |-> {}, under |-> FALSE]]
        /\ table' = Entered(u)
        /\ ended' = [ended EXCEPT ![u] = {}]
  BY DEF Enter
<1> DEFINE v == [at |-> "begun", page |-> u, tab |-> OwnTab, left |-> {}, under |-> FALSE]
<1>2. v \in Visit /\ v.at = "begun" /\ v.page = u /\ v.tab = OwnTab /\ v.under = FALSE BY DEF Visit
<1>3. visit' = [visit EXCEPT ![w] = v] BY <1>1
<1> HIDE DEF v
<1>4. visit \in [Visitor -> Visit \cup {Away}] BY DEF VisitsTypeOK
<1>5. visit'[w] = v /\ (\A x \in Visitor \ {w} : visit'[x] = visit[x])
      /\ visit' \in [Visitor -> Visit \cup {Away}] BY <1>2, <1>3, <1>4
<1>6. w \notin Under BY DEF Enter, Under, Away
<1>7. Under' = Under \cup {w} BY <1>2, <1>5 DEF Under
<1>8. \A x \in Under : visit'[x] = visit[x] /\ visit[x].page # u
  BY <1>5, <1>6, VisitedIs DEF Under
<1>9. Visited' = Visited \cup {u}
  <2>1. \A p : p \in Visited' <=> \E x \in Under' : visit'[x].page = p BY DEF Visited, Under
  <2>2. \A p : p \in Visited' <=> p \in Visited \cup {u} BY <1>2, <1>5, <1>7, <1>8, <2>1, VisitedIs
  <2> QED BY <2>2
<1>10. UNCHANGED <<pool, altered, astray>> BY DEF Enter
<1>11. TableFits' /\ DOMAIN table' \subseteq Address /\ \A p \in DOMAIN table' : table'[p] \in PageEntry
  BY <1>1, <1>9, EnterTable
<1>12. VisitsTypeOK'
  <2>1. visits' \in [Address -> 0..MaxVisits]
    <3>1. MaxVisits \in Nat BY VisitsAssumption
    <3>2. visits[u] \in 0..MaxVisits /\ visits[u] + 1 \in 0..MaxVisits BY <1>1, <3>1 DEF VisitsTypeOK
    <3> QED BY <1>1, <3>2 DEF VisitsTypeOK
  <2>2. ended' \in [Address -> SUBSET AllChecks] BY <1>1 DEF VisitsTypeOK
  <2> QED BY <1>5, <1>10, <1>11, <2>1, <2>2 DEF VisitsTypeOK
<1>13. Apart'
  <2>1. \A x, y \in Under' : x # y => visit'[x].page # visit'[y].page BY <1>2, <1>5, <1>7, <1>8 DEF Apart
  <2>2. \A x, y \in Under' : x # y /\ visit'[x].tab \in Tab => visit'[x].tab # visit'[y].tab
    BY <1>2, <1>5, <1>7, <1>8, KeepNat DEF Apart
  <2>3. pool \in SUBSET Tab BY DEF VisitsTypeOK
  <2>4. \A x \in Under' : visit'[x].tab \notin pool' BY <1>2, <1>5, <1>7, <1>8, <1>10, <2>3, KeepNat DEF Apart
  <2>5. \A t \in Tab \ pool' : \E x \in Under' : visit'[x].tab = t BY <1>7, <1>8, <1>10 DEF Apart
  <2> QED BY <2>1, <2>2, <2>4, <2>5 DEF Apart
<1>14. \A p \in Address \ {u} : ended'[p] = ended[p] BY <1>1 DEF VisitsTypeOK
<1>15. ended'[u] = {} BY <1>1 DEF VisitsTypeOK
<1>16. ASSUME NEW x \in Under' PROVE VisitFits(visit[x], ended, altered)'
  <2>1. CASE x = w BY <1>2, <1>5, <1>15, <2>1 DEF VisitFits
  <2>2. CASE x # w
    <3>1. x \in Under /\ visit'[x] = visit[x] /\ visit[x].page # u /\ visit[x].page \in Address
      BY <1>7, <1>8, <2>2, UnderIs DEF Under, Visit
    <3>2. ended'[visit[x].page] = ended[visit[x].page] BY <1>14, <3>1
    <3> QED BY <1>10, <3>1, <3>2 DEF VisitFits
  <2> QED BY <2>1, <2>2
<1> QED BY <1>10, <1>11, <1>12, <1>13, <1>16 DEF ReadAsLoaded

-----------------------------------------------------------------------------
(* The fetch *)

\* A visit that goes on to the checks without a browser, or with none left.
LEMMA StoreStep ==
  ASSUME VisitsIInv, NEW w \in Under, visit[w].at \in {"begun", "opening", "checking"}, ~visit[w].under,
         NEW left \in SUBSET Afterwards,
         Proceed(w, [visit[w] EXCEPT !.at = "storing", !.tab = OwnTab, !.left = left]),
         UNCHANGED <<altered, table, ended, visits, astray>>
  PROVE  VisitsIInv'
<1> USE DEF VisitsIInv
<1> DEFINE v == [visit[w] EXCEPT !.at = "storing", !.tab = OwnTab, !.left = left]
<1>1. visit[w] \in Visit BY UnderIs DEF Under
<1>2. v \in Visit /\ v.at = "storing" /\ v.page = visit[w].page /\ v.tab = OwnTab /\ v.left = left
      /\ v.under = visit[w].under
  BY <1>1, ChecksAre DEF Visit
<1>3. visit' = [visit EXCEPT ![w] = v]
      /\ pool' = IF visit[w].tab \in Tab /\ (v = Away \/ v.tab = OwnTab)
                 THEN pool \cup {visit[w].tab} ELSE pool
  BY DEF Proceed
<1> HIDE DEF v
<1>4. visit[w].tab \in Tab \cup {OwnTab} BY <1>1 DEF Visit
<1>5. Goes(w, v) BY <1>2, <1>3, <1>4 DEF Goes
<1>6. ended[v.page] \cap left = {}
  <2>1. ended[visit[w].page] \cap Afterwards = {} BY ChecksAre DEF VisitFits
  <2> QED BY <1>2, <2>1
<1>7. VisitFits(v, ended', altered') BY <1>2, <1>6 DEF VisitFits
<1> QED BY <1>5, <1>7, PlainStep DEF ReadAsLoaded, VisitsTypeOK

LEMMA PlainFetchHolds ==
  ASSUME VisitsIInv, NEW w \in Visitor, FetchPlain(w) \/ OpenFails(w) \/ Fetched(w) PROVE VisitsIInv'
<1> USE DEF FetchPlain, OpenFails, Fetched, ThenStore
<1>1. w \in Under BY DEF Under
<1>2. ~visit[w].under /\ visit[w].at \in {"begun", "opening", "checking"}
  BY <1>1 DEF VisitsIInv, VisitFits
<1>3. PICK left \in {{}, Afterwards \cap Enabled} :
        Proceed(w, [visit[w] EXCEPT !.at = "storing", !.tab = OwnTab, !.left = left])
  OBVIOUS
<1>4. left \in SUBSET Afterwards OBVIOUS
<1> QED BY <1>1, <1>2, <1>3, <1>4, StoreStep

LEMMA OpenHolds == ASSUME VisitsIInv, NEW w \in Visitor, Open(w) PROVE VisitsIInv'
<1> USE DEF VisitsIInv
<1>1. w \in Under /\ visit[w] \in Visit BY UnderIs DEF Open, Under
<1>2. PICK t \in IF Tab = {} THEN {OwnTab} ELSE pool :
        visit' = [visit EXCEPT ![w].at = "opening", ![w].tab = t] /\ pool' = pool \ {t}
  BY DEF Open
<1> DEFINE v == [visit[w] EXCEPT !.at = "opening", !.tab = t]
<1>3. pool \in SUBSET Tab /\ visit \in [Visitor -> Visit \cup {Away}] BY DEF VisitsTypeOK
<1>4. t \in Tab \cup {OwnTab} /\ (t \in pool \/ (t = OwnTab /\ pool' = pool)) BY <1>2, <1>3
<1>5. v \in Visit /\ v.at = "opening" /\ v.page = visit[w].page /\ v.tab = t /\ v.under = visit[w].under
      /\ v.left = visit[w].left
  BY <1>1, <1>4 DEF Visit
<1>6. visit' = [visit EXCEPT ![w] = v] BY <1>1, <1>2, <1>3
<1> HIDE DEF v
<1>7. visit[w].tab = OwnTab /\ ~visit[w].under /\ ended[visit[w].page] = {}
  BY <1>1 DEF Open, VisitFits
<1>8. Goes(w, v) BY <1>2, <1>4, <1>5, <1>6, <1>7 DEF Goes
<1>9. UNCHANGED <<altered, table, ended, visits, astray>> BY DEF Open
<1>10. VisitFits(v, ended', altered') BY <1>5, <1>7, <1>9 DEF VisitFits
<1> QED BY <1>1, <1>8, <1>9, <1>10, PlainStep DEF ReadAsLoaded, VisitsTypeOK

LEMMA LoadPageHolds == ASSUME VisitsIInv, NEW w \in Visitor, LoadPage(w) PROVE VisitsIInv'
<1> USE DEF VisitsIInv
<1>1. w \in Under /\ visit[w] \in Visit BY UnderIs DEF LoadPage, Under
<1> DEFINE v == [visit[w] EXCEPT !.at = "loaded"]
<1>2. v \in Visit /\ v.at = "loaded" /\ v.page = visit[w].page /\ v.tab = visit[w].tab
      /\ v.under = visit[w].under /\ v.left = visit[w].left
  BY <1>1 DEF Visit
<1>3. visit \in [Visitor -> Visit \cup {Away}] BY DEF VisitsTypeOK
<1>4. visit' = [visit EXCEPT ![w] = v] /\ UNCHANGED <<pool, table, ended, visits, astray>>
      /\ altered' = altered \ {visit[w].tab}
  BY <1>1, <1>3 DEF LoadPage, LoadedAnew
<1> HIDE DEF v
<1>5. ~visit[w].under /\ ended[visit[w].page] = {} BY <1>1 DEF LoadPage, VisitFits
<1>6. Goes(w, v) BY <1>2, <1>4 DEF Goes
<1>7. VisitFits(v, ended', altered') BY <1>2, <1>4, <1>5 DEF VisitFits
<1>8. altered' \in SUBSET Tab /\ altered' \subseteq altered BY <1>4 DEF VisitsTypeOK
<1>9. astray' = FALSE BY <1>4 DEF ReadAsLoaded
<1>10. UNCHANGED <<table, ended, visits>> BY <1>4
<1> QED BY <1>1, <1>6, <1>7, <1>8, <1>9, <1>10, PlainStep

LEMMA ReadHolds == ASSUME VisitsIInv, NEW w \in Visitor, Read(w) PROVE VisitsIInv'
<1> USE DEF VisitsIInv
<1>1. w \in Under /\ visit[w] \in Visit BY UnderIs DEF Read, Under
<1>2. PICK left \in {{}, InBrowser \cap Enabled} :
        visit' = [visit EXCEPT ![w].at = "checking", ![w].left = left] BY DEF Read
<1> DEFINE v == [visit[w] EXCEPT !.at = "checking", !.left = left]
<1>3. left \subseteq InBrowser /\ left \in SUBSET AllChecks BY ChecksAre
<1>4. v \in Visit /\ v.at = "checking" /\ v.page = visit[w].page /\ v.tab = visit[w].tab
      /\ v.under = visit[w].under /\ v.left = left
  BY <1>1, <1>3 DEF Visit
<1>5. visit \in [Visitor -> Visit \cup {Away}] BY DEF VisitsTypeOK
<1>6. visit' = [visit EXCEPT ![w] = v] BY <1>1, <1>2, <1>5
<1> HIDE DEF v
<1>7. ~visit[w].under /\ ended[visit[w].page] = {} /\ visit[w].tab \notin altered
  BY <1>1 DEF Read, VisitFits
<1>8. UNCHANGED <<pool, altered, table, ended, visits>> /\ astray' = FALSE
  BY <1>7 DEF Read, ReadAsLoaded
<1>9. Goes(w, v) BY <1>4, <1>6, <1>8 DEF Goes
<1>10. VisitFits(v, ended', altered') BY <1>3, <1>4, <1>7, <1>8 DEF VisitFits
<1>11. altered' \in SUBSET Tab /\ altered' \subseteq altered BY <1>8 DEF VisitsTypeOK
<1> QED BY <1>1, <1>8, <1>9, <1>10, <1>11, PlainStep

-----------------------------------------------------------------------------
(* The checks *)

\* Marking a check of page u that has not ended, as running, or as done when it
\* ends.
LEMMA MarkTable ==
  ASSUME VisitsTypeOK, TableFits, NEW u \in Visited, NEW k \in AllChecks, Visited' = Visited,
         NEW state \in {"running", "done"}, table' = Marked(u, k, state),
         state = "running" => k \notin ended[u] /\ ended' = ended,
         state = "done" => ended' = [ended EXCEPT ![u] = @ \cup {k}]
  PROVE  TableFits' /\ DOMAIN table' \subseteq Address /\ \A p \in DOMAIN table' : table'[p] \in PageEntry
<1> USE DEF TableFits
<1>1. DOMAIN table' = DOMAIN table /\ DOMAIN table \subseteq Address BY DEF Marked, VisitsTypeOK
<1>2. \A p \in DOMAIN table : table[p] \in PageEntry BY DEF VisitsTypeOK
<1>3. u \in DOMAIN table \ Over(table) /\ u \in Address BY <1>1
<1>4. \A p \in DOMAIN table \ {u} : table'[p] = table[p] BY DEF Marked
<1>5. k \in Tracked => table'[u] = [table[u] EXCEPT !.checks[k] = state] BY <1>3 DEF Marked
<1>6. k \notin Tracked => table'[u] = table[u] BY <1>3 DEF Marked
<1>7. /\ table'[u] \in PageEntry /\ table'[u].finished = table[u].finished
      /\ table'[u].newer = table[u].newer
      /\ \A j \in Tracked : table'[u].checks[j] = IF j = k THEN state ELSE table[u].checks[j]
  <2>1. table[u] \in PageEntry BY <1>2, <1>3
  <2>2. CASE k \in Tracked BY <1>5, <2>1, <2>2 DEF PageEntry, CheckState
  <2>3. CASE k \notin Tracked BY <1>6, <2>1, <2>3
  <2> QED BY <2>2, <2>3
<1>8. \A p : p \in Over(table') <=> p \in Over(table) BY <1>1, <1>3, <1>4, <1>7 DEF Over
<1>9. Over(table') = Over(table) BY <1>8
<1>10. Ordered(table')
  <2>1. \A p \in DOMAIN table : table'[p].newer = table[p].newer BY <1>4, <1>7
  <2> QED BY <1>1, <2>1 DEF Ordered
<1>11. ended \in [Address -> SUBSET AllChecks] BY DEF VisitsTypeOK
<1>12. \A p \in Address \ {u} : ended'[p] = ended[p] BY <1>11
<1>13. \A j \in Tracked : j \in ended'[u] <=> (IF j = k THEN state = "done" ELSE j \in ended[u])
  BY <1>3, <1>11
<1>14. \A p \in DOMAIN table' : Tells(p)'
  <2>1. \A p \in DOMAIN table \ {u} : Tells(p)' BY <1>1, <1>4, <1>12 DEF Tells
  <2>2. Tells(u)' BY <1>3, <1>7, <1>13 DEF Tells
  <2> QED BY <1>1, <2>1, <2>2
<1>15. ShownAsRun' BY <1>1, <1>3, <1>4, <1>9, <1>12 DEF ShownAsRun, Over
<1> QED BY <1>1, <1>2, <1>4, <1>7, <1>9, <1>10, <1>14, <1>15

LEMMA StartCheckHolds == ASSUME VisitsIInv, NEW w \in Visitor, StartCheck(w) PROVE VisitsIInv'
<1> USE DEF VisitsIInv
<1> DEFINE k == First(visit[w].left)
           v == [visit[w] EXCEPT !.under = TRUE]
<1>1. w \in Under /\ visit[w] \in Visit BY UnderIs DEF StartCheck, Under
<1>2. /\ table' = Marked(visit[w].page, k, "running")
      /\ astray' = (astray \/ (k = "axe" /\ visit[w].tab \in altered))
      /\ altered' = IF k \in Altering /\ visit[w].tab \in Tab THEN altered \cup {visit[w].tab} ELSE altered
      /\ visit' = [visit EXCEPT ![w].under = TRUE]
      /\ UNCHANGED <<pool, ended, visits>>
      /\ visit[w].at \in {"checking", "storing"} /\ visit[w].left # {} /\ ~visit[w].under
  BY DEF StartCheck
<1>3. visit[w].left \in SUBSET AllChecks /\ visit[w].page \in Address BY <1>1 DEF Visit
<1>4. k \in visit[w].left /\ ("axe" \in visit[w].left => k = "axe") BY <1>2, <1>3, FirstIs
<1>5. visit \in [Visitor -> Visit \cup {Away}] BY DEF VisitsTypeOK
<1>6. v \in Visit /\ v.at = visit[w].at /\ v.page = visit[w].page /\ v.tab = visit[w].tab
      /\ v.left = visit[w].left
  BY <1>1 DEF Visit
<1>7. visit' = [visit EXCEPT ![w] = v] BY <1>1, <1>2, <1>5
<1> HIDE DEF v, k
<1>8. Goes(w, v) BY <1>2, <1>6, <1>7 DEF Goes
<1>9. /\ Under' = Under /\ visit'[w] = v /\ (\A x \in Under \ {w} : visit'[x] = visit[x])
      /\ visit' \in [Visitor -> Visit \cup {Away}] /\ pool' \in SUBSET Tab
      /\ Visited' = Visited /\ Apart' BY <1>1, <1>8, VisitGoes
<1>10. k \notin ended[visit[w].page] BY <1>1, <1>2, <1>4 DEF VisitFits
<1>11. visit[w].page \in Visited BY <1>1, VisitedIs
<1>12. TableFits' /\ DOMAIN table' \subseteq Address /\ \A p \in DOMAIN table' : table'[p] \in PageEntry
  BY <1>2, <1>3, <1>4, <1>9, <1>10, <1>11, MarkTable
<1>13. altered' \in SUBSET Tab /\ \A t \in altered' : t \in altered \/ (t = visit[w].tab /\ t \in Tab)
  BY <1>2 DEF VisitsTypeOK
<1>14. k = "axe" => visit[w].tab \notin altered
  <2>1. CASE visit[w].at = "checking" BY <1>1, <1>4, <2>1 DEF VisitFits
  <2>2. CASE visit[w].at = "storing" BY <1>1, <1>4, <2>2, ChecksAre DEF VisitFits
  <2> QED BY <1>2, <2>1, <2>2
<1>15. astray' = FALSE BY <1>2, <1>14 DEF ReadAsLoaded
<1>16. VisitsTypeOK' BY <1>2, <1>9, <1>12, <1>13, <1>15 DEF VisitsTypeOK
<1>17. \A x \in Under \ {w} : VisitFits(visit[x], ended, altered)' BY <1>1, <1>2, <1>9, <1>13, OthersFit
<1>18. VisitFits(visit[w], ended, altered)'
  <2>1. v.at = "checking" /\ "axe" \in v.left => v.tab \notin altered'
    BY <1>1, <1>2, <1>4, <1>6, ChecksAre DEF VisitFits
  <2> QED BY <1>1, <1>2, <1>6, <1>9, <2>1 DEF VisitFits
<1> QED BY <1>9, <1>12, <1>15, <1>16, <1>17, <1>18 DEF ReadAsLoaded

LEMMA EndCheckHolds == ASSUME VisitsIInv, NEW w \in Visitor, EndCheck(w) PROVE VisitsIInv'
<1> USE DEF VisitsIInv
<1> DEFINE k == First(visit[w].left)
           v == [visit[w] EXCEPT !.under = FALSE, !.left = @ \ {k}]
<1>1. w \in Under /\ visit[w] \in Visit BY UnderIs DEF EndCheck, Under
<1>2. /\ table' = Marked(visit[w].page, k, "done")
      /\ ended' = [ended EXCEPT ![visit[w].page] = @ \cup {k}]
      /\ visit' = [visit EXCEPT ![w].under = FALSE, ![w].left = @ \ {k}]
      /\ UNCHANGED <<pool, altered, visits, astray>>
      /\ visit[w].at \in {"checking", "storing"} /\ visit[w].under
  BY DEF EndCheck
<1>3. visit[w].left \in SUBSET AllChecks /\ visit[w].page \in Address /\ visit[w].left # {}
  BY <1>1, <1>2 DEF Visit, VisitFits
<1>4. k \in visit[w].left /\ ("axe" \in visit[w].left => k = "axe") BY <1>3, FirstIs
<1>5. visit \in [Visitor -> Visit \cup {Away}] BY DEF VisitsTypeOK
<1>6. v \in Visit /\ v.at = visit[w].at /\ v.page = visit[w].page /\ v.tab = visit[w].tab
      /\ v.left = visit[w].left \ {k} /\ ~v.under
  BY <1>1, <1>3 DEF Visit
<1>7. visit' = [visit EXCEPT ![w] = v] BY <1>1, <1>2, <1>5
<1> HIDE DEF v, k
<1>8. Goes(w, v) BY <1>2, <1>6, <1>7 DEF Goes
<1>9. /\ Under' = Under /\ visit'[w] = v /\ (\A x \in Under \ {w} : visit'[x] = visit[x])
      /\ visit' \in [Visitor -> Visit \cup {Away}] /\ pool' \in SUBSET Tab
      /\ Visited' = Visited /\ Apart' BY <1>1, <1>8, VisitGoes
<1>11. visit[w].page \in Visited BY <1>1, VisitedIs
<1>12. TableFits' /\ DOMAIN table' \subseteq Address /\ \A p \in DOMAIN table' : table'[p] \in PageEntry
  BY <1>2, <1>3, <1>4, <1>9, <1>11, MarkTable
<1>13. ended \in [Address -> SUBSET AllChecks] BY DEF VisitsTypeOK
<1>14. ended' \in [Address -> SUBSET AllChecks]
       /\ ended'[visit[w].page] = ended[visit[w].page] \cup {k}
       /\ \A u \in Address \ {visit[w].page} : ended'[u] = ended[u]
  BY <1>2, <1>3, <1>4, <1>13
<1>16. VisitsTypeOK' BY <1>2, <1>9, <1>12, <1>14 DEF VisitsTypeOK
<1>17. \A x \in Under \ {w} : VisitFits(visit[x], ended, altered)' BY <1>1, <1>2, <1>9, <1>14, OthersFit
<1>18. VisitFits(visit[w], ended, altered)'
  BY <1>1, <1>2, <1>4, <1>6, <1>9, <1>14 DEF VisitFits
<1>19. ReadAsLoaded' BY <1>2 DEF ReadAsLoaded
<1> QED BY <1>9, <1>12, <1>16, <1>17, <1>18, <1>19

-----------------------------------------------------------------------------
(* The end of a visit *)

LEMMA ClosedTable ==
  ASSUME VisitsTypeOK, TableFits, NEW u \in Visited, table' = Closed(u), ended' = ended,
         Visited' = Visited \ {u}
  PROVE  TableFits' /\ DOMAIN table' \subseteq Address /\ \A p \in DOMAIN table' : table'[p] \in PageEntry
<1> USE DEF TableFits
<1> DEFINE t == [p \in DOMAIN table |->
             IF p = u THEN [finished |-> TRUE, newer |-> table[p].newer,
                            checks |-> [k \in Tracked |-> Settled(table[p].checks[k])]]
             ELSE table[p]]
<1>1. DOMAIN t = DOMAIN table /\ DOMAIN table \subseteq Address /\ u \in DOMAIN table
  BY DEF VisitsTypeOK
<1>2. \A p \in DOMAIN table : table[p] \in PageEntry BY DEF VisitsTypeOK
<1>3. \A p \in DOMAIN table \ {u} : t[p] = table[p] OBVIOUS
<1>4. t[u] = [finished |-> TRUE, newer |-> table[u].newer,
              checks |-> [k \in Tracked |-> Settled(table[u].checks[k])]]
  BY <1>1
<1>5. table' = Trimmed(t) BY DEF Closed
<1> HIDE DEF t
<1>6. t[u] \in PageEntry /\ t[u].finished /\ t[u].newer = table[u].newer
      /\ t[u].checks = [k \in Tracked |-> Settled(table[u].checks[k])]
  <2>1. table[u].newer \in SUBSET Address BY <1>1, <1>2 DEF PageEntry
  <2>2. [k \in Tracked |-> Settled(table[u].checks[k])] \in [Tracked -> CheckState]
    BY DEF Settled, CheckState
  <2> QED BY <1>4, <2>1, <2>2 DEF PageEntry
<1>7. \A p \in DOMAIN t : t[p] \in PageEntry BY <1>1, <1>2, <1>3, <1>6
<1>8. \A p \in DOMAIN table : t[p].newer = table[p].newer BY <1>3, <1>6
<1>9. Ordered(t) BY <1>1, <1>8 DEF Ordered
<1>10. Over(t) = Over(table) \cup {u} BY <1>1, <1>3, <1>6 DEF Over
<1>11. /\ DOMAIN table' \subseteq DOMAIN t
       /\ \A p \in DOMAIN table' : /\ table'[p] \in PageEntry /\ table'[p].checks = t[p].checks
                                  /\ table'[p].finished = t[p].finished
       /\ Over(table') \subseteq Over(t)
       /\ DOMAIN table' \ Over(table') = DOMAIN t \ Over(t)
       /\ Ordered(table') /\ IsFiniteSet(DOMAIN table') /\ Cardinality(Over(table')) <= Keep
  BY <1>1, <1>5, <1>7, <1>9, TrimmedIs
<1>12. Visited' = DOMAIN table' \ Over(table') BY <1>1, <1>10, <1>11
<1>13. t[u].checks = [k \in Tracked |-> IF k \in ended[u] THEN "done" ELSE "not_run"]
  <2>1. \A k \in Tracked : Settled(table[u].checks[k]) = IF k \in ended[u] THEN "done" ELSE "not_run"
    BY <1>1 DEF Tells, Settled
  <2> QED BY <1>6, <2>1
<1>14. \A p \in Over(t) : t[p].checks = [k \in Tracked |-> IF k \in ended[p] THEN "done" ELSE "not_run"]
  BY <1>3, <1>10, <1>13 DEF ShownAsRun, Over
<1>15. ShownAsRun'
  <2>1. \A p \in Over(table') : p \in DOMAIN table' BY DEF Over
  <2> QED BY <1>11, <1>14, <2>1 DEF ShownAsRun
<1>16. \A p \in DOMAIN t : \A k \in Tracked : t[p].checks[k] = "done" <=> k \in ended[p]
  <2>1. \A k \in Tracked : t[u].checks[k] = "done" <=> k \in ended[u] BY <1>13
  <2> QED BY <1>1, <1>3, <2>1 DEF Tells
<1>17. \A p \in DOMAIN table' : Tells(p)' BY <1>11, <1>16 DEF Tells
<1> QED BY <1>1, <1>11, <1>12, <1>15, <1>17

LEMMA LeaveHolds == ASSUME VisitsIInv, NEW w \in Under, Leave(w) PROVE VisitsIInv'
<1> USE DEF VisitsIInv
<1>1. w \in Visitor /\ visit[w] \in Visit BY UnderIs DEF Under
<1>2. visit' = [visit EXCEPT ![w] = Away] /\ table' = Closed(visit[w].page)
      /\ pool' = (IF visit[w].tab \in Tab THEN pool \cup {visit[w].tab} ELSE pool)
      /\ UNCHANGED <<altered, ended, visits, astray>>
  BY DEF Leave, Proceed
<1>3. visit \in [Visitor -> Visit \cup {Away}] /\ pool \in SUBSET Tab BY DEF VisitsTypeOK
<1>4. visit' \in [Visitor -> Visit \cup {Away}] /\ visit'[w] = Away
      /\ (\A x \in Visitor \ {w} : visit'[x] = visit[x]) /\ pool' \in SUBSET Tab
  BY <1>1, <1>2, <1>3
<1>5. Under' = Under \ {w} /\ \A x \in Under \ {w} : visit'[x] = visit[x]
  BY <1>4 DEF Under, Away
<1>6. Visited' = Visited \ {visit[w].page}
  <2>1. \A p : p \in Visited' <=> \E x \in Under' : visit'[x].page = p BY DEF Visited, Under
  <2>2. \A x \in Under \ {w} : visit[x].page # visit[w].page BY DEF Apart
  <2>3. \A p : p \in Visited' <=> p \in Visited \ {visit[w].page} BY <1>5, <2>1, <2>2, VisitedIs
  <2> QED BY <2>3
<1>7. visit[w].page \in Visited BY VisitedIs
<1>8. TableFits' /\ DOMAIN table' \subseteq Address /\ \A p \in DOMAIN table' : table'[p] \in PageEntry
  BY <1>2, <1>6, <1>7, ClosedTable
<1>9. Apart'
  <2>1. \A x, y \in Under' : x # y => visit'[x].page # visit'[y].page BY <1>5 DEF Apart
  <2>2. \A x, y \in Under' : x # y /\ visit'[x].tab \in Tab => visit'[x].tab # visit'[y].tab
    BY <1>5 DEF Apart
  <2>3. \A x \in Under' : visit'[x].tab \notin pool' BY <1>2, <1>5 DEF Apart
  <2>4. \A t \in Tab \ pool' : \E x \in Under' : visit'[x].tab = t BY <1>2, <1>5 DEF Apart
  <2> QED BY <2>1, <2>2, <2>3, <2>4 DEF Apart
<1>10. VisitsTypeOK' BY <1>2, <1>4, <1>8 DEF VisitsTypeOK
<1>11. \A x \in Under' : VisitFits(visit[x], ended, altered)' BY <1>2, <1>5, OthersFit
<1> QED BY <1>2, <1>8, <1>9, <1>10, <1>11 DEF ReadAsLoaded

LEMMA ForgetHolds == ASSUME VisitsIInv, Forget PROVE VisitsIInv'
<1> USE DEF VisitsIInv, Forget
<1>1. Under = {} BY DEF Under, Away
<1>2. DOMAIN table' = {} BY DEF NoPages
<1>3. Visited' = {} /\ Over(table') = {} BY <1>1, <1>2 DEF Visited, Over, Under
<1>4. IsFiniteSet(DOMAIN table') /\ Cardinality(Over(table')) = 0 BY <1>2, <1>3, FS_EmptySet
<1>5. Ordered(table') /\ ShownAsRun' BY <1>2, <1>3 DEF Ordered, ShownAsRun
<1>6. TableFits' BY <1>2, <1>3, <1>4, <1>5, KeepNat DEF TableFits
<1>7. VisitsTypeOK' BY <1>2 DEF VisitsTypeOK
<1>8. Under' = Under /\ Apart' BY <1>1 DEF Under, Apart
<1> QED BY <1>1, <1>6, <1>7, <1>8 DEF ReadAsLoaded

LEMMA VisitsNextHolds == VisitsIInv /\ [VisitsNext]_visitVars => VisitsIInv'
<1> SUFFICES ASSUME VisitsIInv, [VisitsNext]_visitVars PROVE VisitsIInv' OBVIOUS
<1>1. CASE UNCHANGED visitVars
  BY <1>1 DEF visitVars, VisitsIInv, VisitsTypeOK, Apart, Under, VisitFits, TableFits, Visited, Over,
              Ordered, Tells, ShownAsRun, ReadAsLoaded
<1>2. CASE Forget BY <1>2, ForgetHolds
<1>3. ASSUME NEW w \in Visitor, Raise(w) \/ Complete(w) PROVE VisitsIInv'
  <2>1. w \in Under /\ Leave(w) BY <1>3 DEF Raise, Complete, Under
  <2> QED BY <2>1, LeaveHolds
<1> QED BY <1>1, <1>2, <1>3, EnterHolds, PlainFetchHolds, OpenHolds, LoadPageHolds, ReadHolds,
           StartCheckHolds, EndCheckHolds DEF VisitsNext

-----------------------------------------------------------------------------
(* What the reader sees *)

LEMMA TabsAre == ASSUME VisitsIInv PROVE TabsAccounted
<1> SUFFICES ASSUME NEW t \in Tab
             PROVE  Cardinality({w \in Visitor : visit[w].at # "away" /\ visit[w].tab = t})
                      = IF t \in pool THEN 0 ELSE 1
  BY DEF TabsAccounted
<1> DEFINE S == {w \in Visitor : visit[w].at # "away" /\ visit[w].tab = t}
<1>1. \A w : w \in S <=> w \in Under /\ visit[w].tab = t BY DEF Under
<1> HIDE DEF S
<1>2. CASE t \in pool
  <2>1. S = {} BY <1>1, <1>2 DEF VisitsIInv, Apart
  <2>2. Cardinality(S) = 0 BY <2>1, FS_EmptySet
  <2> QED BY <1>2, <2>2 DEF S
<1>3. CASE t \notin pool
  <2>1. PICK w \in Under : visit[w].tab = t BY <1>3 DEF VisitsIInv, Apart
  <2>2. S = {w} BY <1>1, <2>1 DEF VisitsIInv, Apart
  <2>3. Cardinality(S) = 1 BY <2>2, FS_Singleton
  <2> QED BY <1>3, <2>3 DEF S
<1> QED BY <1>2, <1>3

LEMMA RowsAre == ASSUME VisitsIInv PROVE RowsAreTrue
<1> USE DEF VisitsIInv, TableFits
<1> SUFFICES ASSUME NEW checking \in SUBSET Address, NEW recent \in SUBSET Address
             PROVE  /\ \A q, r \in PageChecks(checking, {}, recent) : q.page = r.page => q = r
                    /\ \A r \in PageChecks(checking, {}, recent) : \A c \in r.checks : \A k \in Tracked :
                         /\ c[k] = "done" => k \in ended[r.page]
                         /\ c[k] \in {"waiting", "running"} => r.page \in Visited
  BY DEF RowsAreTrue
<1> DEFINE rest == Over(table) \ checking
           newest == {u \in rest : Cardinality(table[u].newer \cap rest) < CheckedRows}
           others == IF Over(table) = {} THEN recent \ checking ELSE {}
           now(u) == {table[x].checks : x \in {u} \cap (DOMAIN table \ Over(table))}
           rows == PageChecks(checking, {}, recent)
<1>1. \A r \in rows :
        \/ \E u \in checking : r = RowOf(u, "checking", now(u))
        \/ \E u \in newest : r = RowOf(u, "checked", {table[u].checks})
        \/ \E u \in others : r = RowOf(u, "checked", {})
  BY DEF PageChecks
<1>2. newest \subseteq Over(table) \ checking /\ others \cap checking = {} OBVIOUS
<1>3. newest # {} => others = {} OBVIOUS
<1>4. \A u \in newest : u \in Over(table) OBVIOUS
<1>5. \A u, c : c \in now(u) => u \in DOMAIN table \ Over(table) /\ c = table[u].checks OBVIOUS
<1> HIDE DEF rest, newest, others, now, rows
<1>6. \A u, s, c : RowOf(u, s, c).page = u /\ RowOf(u, s, c).checks = c BY DEF RowOf
<1>7. ASSUME NEW q \in rows, NEW r \in rows, q.page = r.page PROVE q = r
  <2>1. \A r1 \in rows :
          \/ r1.page \in checking /\ r1 = RowOf(r1.page, "checking", now(r1.page))
          \/ r1.page \in newest /\ r1 = RowOf(r1.page, "checked", {table[r1.page].checks})
          \/ r1.page \in others /\ r1 = RowOf(r1.page, "checked", {})
    <3> SUFFICES ASSUME NEW r1 \in rows
                 PROVE  \/ r1.page \in checking /\ r1 = RowOf(r1.page, "checking", now(r1.page))
                        \/ r1.page \in newest /\ r1 = RowOf(r1.page, "checked", {table[r1.page].checks})
                        \/ r1.page \in others /\ r1 = RowOf(r1.page, "checked", {})
      OBVIOUS
    <3>1. ASSUME NEW u \in checking, r1 = RowOf(u, "checking", now(u))
          PROVE  r1.page \in checking /\ r1 = RowOf(r1.page, "checking", now(r1.page))
      <4>1. r1.page = u BY <1>6, <3>1
      <4> QED BY <3>1, <4>1, Zenon
    <3>2. ASSUME NEW u \in newest, r1 = RowOf(u, "checked", {table[u].checks})
          PROVE  r1.page \in newest /\ r1 = RowOf(r1.page, "checked", {table[r1.page].checks})
      <4>1. r1.page = u BY <1>6, <3>2
      <4> QED BY <3>2, <4>1, Zenon
    <3>3. ASSUME NEW u \in others, r1 = RowOf(u, "checked", {})
          PROVE  r1.page \in others /\ r1 = RowOf(r1.page, "checked", {})
      <4>1. r1.page = u BY <1>6, <3>3
      <4> QED BY <3>3, <4>1, Zenon
    <3> QED BY <1>1, <3>1, <3>2, <3>3
  <2>2. q.page \in checking => q.page \notin newest /\ q.page \notin others BY <1>2
  <2>3. q.page \in newest => q.page \notin others BY <1>3
  <2> DEFINE p == q.page
  <2>4. r.page = p BY <1>7
  <2> HIDE DEF p
  <2> QED BY <1>7, <2>1, <2>2, <2>3, <2>4 DEF p
<1>8. ASSUME NEW r \in rows, NEW c \in r.checks, NEW k \in Tracked
      PROVE  /\ c[k] = "done" => k \in ended[r.page]
             /\ c[k] \in {"waiting", "running"} => r.page \in Visited
  <2>1. CASE \E u \in checking : r = RowOf(u, "checking", now(u))
    <3>1. r.page \in DOMAIN table \ Over(table) /\ c = table[r.page].checks BY <1>5, <1>6, <2>1
    <3> QED BY <3>1 DEF Tells
  <2>2. CASE \E u \in newest : r = RowOf(u, "checked", {table[u].checks})
    <3>1. r.page \in Over(table) /\ c = table[r.page].checks BY <1>4, <1>6, <2>2
    <3>2. c[k] = IF k \in ended[r.page] THEN "done" ELSE "not_run" BY <3>1 DEF ShownAsRun
    <3> QED BY <3>2
  <2>3. CASE \E u \in others : r = RowOf(u, "checked", {}) BY <1>6, <2>3
  <2> QED BY <1>1, <2>1, <2>2, <2>3
<1> QED BY <1>7, <1>8 DEF rows

\* What the progress of a scan shows of a page is what was done to it: each check
\* told as done has ended, each page is shown once, and the table keeps within
\* its bound (web/live_progress.py).
THEOREM VisitsCorrect == VisitsSpec => []VisitsAreTrue
<1>1. VisitsIInv => VisitsAreTrue
  BY TabsAre, RowsAre DEF VisitsIInv, TableFits, VisitsAreTrue, TableIsBounded
<1> QED BY <1>1, VisitsInitHolds, VisitsNextHolds, PTL DEF VisitsSpec

-----------------------------------------------------------------------------
(* Searching *)

\* Every address a result leads to, as far as the scan may visit it, is handed over.
Covered(h) == results[h].opens \cap Visitable \subseteq known

\* The results that are still ahead fit in the limit.
AheadFits == search = "following" => clicked + Cardinality(ahead) <= config.limit

\* While the search can still become a completed one, what its results on the
\* pages behind it lead to is handed over; on the page it is on, also a result
\* that is neither followed nor ahead may be left, when the limit left it out.
FollowedIsKnown ==
  search # "over" /\ verdict = "completed" =>
    /\ \A h \in Hit : results[h].on < resultPage => Covered(h)
    /\ search = "following" =>
         \A h \in Hit : results[h].on = resultPage =>
           Covered(h) \/ h \in ahead \/ clicked + Cardinality(ahead) = config.limit

\* Without a button the search stays on its first page.
TurnsByButton == config.next # "one" => resultPage = 1

SearchIInv == SearchIsHonest /\ AheadFits /\ FollowedIsKnown /\ TurnsByButton

\* What a step of a search reads of its settings and results.
LEMMA SearchFields ==
  ASSUME SearchTypeOK
  PROVE  /\ config.limit \in 1..MostResults /\ config.pages \in 1..MostPages /\ config.next \in NextButton
         /\ config.limit \in Nat /\ config.pages \in Nat /\ resultPage \in Nat /\ clicked \in Nat
         /\ \A h \in Hit : results[h].on \in Nat /\ results[h].on >= 1 /\ results[h].opens \subseteq Place
         /\ IsFiniteSet(ahead) /\ Cardinality(ahead) \in Nat
         /\ IsFiniteSet(known) /\ Cardinality(known) \in Nat
<1>1. /\ config.limit \in 1..MostResults /\ config.pages \in 1..MostPages /\ config.next \in NextButton
      /\ MostResults \in Nat /\ MostPages \in Nat /\ LastPage \in Nat
  BY SearchingAssumption DEF SearchTypeOK
<1>2. /\ config.limit \in Nat /\ config.pages \in Nat /\ resultPage \in Nat /\ clicked \in Nat
  BY <1>1 DEF SearchTypeOK
<1>3. ASSUME NEW h \in Hit
      PROVE  results[h].on \in Nat /\ results[h].on >= 1 /\ results[h].opens \subseteq Place
  <2>1. results[h] \in ResultOf
    BY DEF SearchTypeOK
  <2>. QED  BY <2>1, <1>1 DEF ResultOf
<1>4. /\ IsFiniteSet(ahead) /\ Cardinality(ahead) \in Nat
      /\ IsFiniteSet(known) /\ Cardinality(known) \in Nat
  BY SearchingAssumption, FS_Subset, FS_CardinalityType DEF SearchTypeOK
<1>. QED  BY <1>1, <1>2, <1>3, <1>4

LEMMA SearchInitHolds == SearchInit => SearchIInv
<1> SUFFICES ASSUME SearchInit  PROVE SearchIInv
  OBVIOUS
<1>1. config.limit \in 1..MostResults /\ config.pages \in 1..MostPages
      /\ MostResults \in Nat /\ MostPages \in Nat
  BY SearchingAssumption DEF SearchInit
<1>2. SearchTypeOK
  BY <1>1 DEF SearchInit, SearchTypeOK
<1>3. Cardinality(known) <= config.limit
  BY <1>1, FS_EmptySet DEF SearchInit
<1>4. \A h \in Hit : results[h].on >= 1
  BY <1>2, SearchFields
<1>5. AheadFits /\ TurnsByButton /\ SearchIsHonest
  BY <1>2, <1>3 DEF SearchInit, AheadFits, TurnsByButton, SearchIsHonest
<1>6. FollowedIsKnown
  BY <1>2, <1>4, SearchFields DEF SearchInit, FollowedIsKnown
<1>. QED  BY <1>5, <1>6 DEF SearchIInv

\* The end of a search: a completed one left nothing out.
LEMMA EndHolds ==
  ASSUME SearchIInv, NEW v \in {"completed", "limited", "no_results", "failed"}, EndWith(v),
         v = "completed" => \A h \in Hit : (config.next = "one" \/ results[h].on = 1) => Covered(h)
  PROVE  SearchIInv'
BY DEF SearchIInv, SearchIsHonest, SearchTypeOK, AheadFits, FollowedIsKnown, TurnsByButton, EndWith,
       searchConstants, Covered

\* Whatever the order of the addresses, the known ones stay, the limit is kept,
\* and unless the search becomes a limited one all that may be visited are known.
LEMMA RememberHolds ==
  ASSUME SearchTypeOK, known \subseteq Visitable, Cardinality(known) <= config.limit,
         NEW U \in SUBSET Place, Remember(U)
  PROVE  /\ known \subseteq known' /\ known' \in SUBSET Place /\ known' \subseteq Visitable
         /\ Cardinality(known') <= config.limit
         /\ verdict' \in {verdict, "limited"}
         /\ verdict' = "completed" => U \cap Visitable \subseteq known'
<1>1. config.limit \in Nat /\ Visitable \subseteq Place
  BY SearchFields, SearchingAssumption
<1> DEFINE allowed == U \cap Visitable
<1>2. CASE /\ Cardinality(known \cup allowed) <= config.limit /\ known' = known \cup allowed
           /\ verdict' \in {verdict, "limited"}
  BY <1>1, <1>2 DEF SearchTypeOK
<1>3. CASE \E N \in SUBSET allowed :
             /\ N # allowed /\ Cardinality(known \cup N) = config.limit
             /\ known' = known \cup N /\ verdict' = "limited"
  <2>1. PICK N \in SUBSET allowed : /\ Cardinality(known \cup N) = config.limit
                                   /\ known' = known \cup N /\ verdict' = "limited"
    BY <1>3
  <2>2. Cardinality(known') <= config.limit
    BY <1>1, <2>1
  <2>. QED  BY <1>1, <2>1, <2>2 DEF SearchTypeOK
<1>. QED  BY <1>2, <1>3 DEF Remember

LEMMA AppearStep == ASSUME SearchIInv, ResultsAppear  PROVE SearchIInv'
<1> USE DEF SearchIInv, SearchIsHonest
<1> DEFINE shown == {h \in Hit : results[h].on = resultPage}
<1>1. /\ search = "opening" /\ search' = "following"
      /\ UNCHANGED <<results, config, resultPage, clicked, known, verdict>>
      /\ ahead' \subseteq shown /\ (ahead' = shown \/ Cardinality(ahead') = config.limit - clicked)
      /\ Cardinality(ahead') <= config.limit - clicked
  BY DEF ResultsAppear, searchConstants
<1>2. SearchTypeOK'
  BY <1>1 DEF SearchTypeOK
<1>3. config.limit \in Nat /\ clicked \in Nat /\ Cardinality(ahead') \in Nat
  <2>1. config.limit \in Nat /\ clicked \in Nat
    BY SearchFields
  <2>2. Cardinality(ahead') \in Nat
    BY <1>1, SearchingAssumption, FS_Subset, FS_CardinalityType
  <2>. QED  BY <2>1, <2>2
<1>4. AheadFits'
  BY <1>1, <1>3 DEF AheadFits
<1>5. FollowedIsKnown'
  BY <1>1, <1>3 DEF FollowedIsKnown, Covered
<1>. QED  BY <1>1, <1>2, <1>4, <1>5 DEF TurnsByButton

\* One result less is ahead.
LEMMA OneLess ==
  ASSUME SearchTypeOK, NEW h \in ahead
  PROVE  /\ Cardinality(ahead \ {h}) = Cardinality(ahead) - 1
         /\ Cardinality(ahead) \in Nat /\ Cardinality(ahead \ {h}) \in Nat
<1>1. IsFiniteSet(ahead) /\ IsFiniteSet(ahead \ {h})
  BY SearchFields, FS_Subset
<1>. QED  BY <1>1, FS_RemoveElement, FS_CardinalityType

LEMMA FollowStep == ASSUME SearchIInv, Follow  PROVE SearchIInv'
<1> USE DEF SearchIInv, SearchIsHonest
<1>1. PICK h \in ahead : /\ Remember(results[h].opens) /\ ahead' = ahead \ {h} /\ clicked' = clicked + 1
  BY DEF Follow
<1>2. search = "following" /\ UNCHANGED <<results, config, search, resultPage>>
  BY DEF Follow, searchConstants
<1>3. h \in Hit /\ results[h].opens \in SUBSET Place
  BY SearchFields DEF SearchTypeOK
<1>4. /\ known \subseteq known' /\ known' \in SUBSET Place /\ known' \subseteq Visitable
      /\ Cardinality(known') <= config.limit
      /\ verdict' \in {verdict, "limited"}
      /\ verdict' = "completed" => results[h].opens \cap Visitable \subseteq known'
  BY <1>1, <1>3, RememberHolds
<1>5. /\ Cardinality(ahead') = Cardinality(ahead) - 1 /\ Cardinality(ahead) \in Nat
      /\ Cardinality(ahead') \in Nat /\ config.limit \in Nat /\ clicked \in Nat
      /\ clicked' + Cardinality(ahead') = clicked + Cardinality(ahead)
  BY <1>1, OneLess, SearchFields
<1>6. AheadFits'
  BY <1>2, <1>5 DEF AheadFits
<1>7. clicked' \in 0..config.limit
  BY <1>1, <1>2, <1>5 DEF AheadFits
<1>8. SearchTypeOK'
  BY <1>1, <1>2, <1>4, <1>7 DEF SearchTypeOK
<1>9. FollowedIsKnown'
  BY <1>1, <1>2, <1>4, <1>5 DEF FollowedIsKnown, Covered
<1>. QED  BY <1>2, <1>4, <1>6, <1>8, <1>9 DEF TurnsByButton

\* A result that is skipped makes the search a limited one.
LEMMA SkipStep == ASSUME SearchIInv, SkipResult  PROVE SearchIInv'
<1> USE DEF SearchIInv, SearchIsHonest
<1>1. PICK h \in ahead : ahead' = ahead \ {h} /\ verdict' = "limited"
  BY DEF SkipResult, Skipped
<1>2. search = "following" /\ UNCHANGED <<results, config, search, resultPage, clicked, known>>
  BY DEF SkipResult, searchConstants
<1>3. AheadFits'
  BY <1>1, <1>2, OneLess, SearchFields DEF AheadFits
<1>. QED  BY <1>1, <1>2, <1>3 DEF SearchTypeOK, FollowedIsKnown, TurnsByButton

\* The results of a page are done with: the limit left none of them out if it
\* is not reached, and there is no page to turn to, or the next one comes.
LEMMA PageDoneStep == ASSUME SearchIInv, ResultPageDone  PROVE SearchIInv'
<1> USE DEF SearchIInv, SearchIsHonest
<1>1. search = "following" /\ ahead = {} /\ verdict \in {"completed", "limited", "no_results", "failed"}
  BY DEF ResultPageDone, SearchTypeOK
<1>2. /\ config.limit \in Nat /\ config.pages \in Nat /\ clicked \in Nat /\ resultPage \in Nat
      /\ \A h \in Hit : results[h].on \in Nat /\ results[h].on >= 1
      /\ Cardinality(ahead) = 0
  BY <1>1, SearchFields, FS_EmptySet
<1>3. CASE clicked >= config.limit
  BY <1>3, EndHolds DEF ResultPageDone
<1>4. CASE clicked < config.limit
  <2>1. verdict = "completed" => \A h \in Hit : results[h].on <= resultPage => Covered(h)
    BY <1>1, <1>2, <1>4 DEF FollowedIsKnown
  <2>2. CASE ~CanTurn
    <3>1. EndWith(verdict)
      BY <1>2, <1>4, <2>2 DEF ResultPageDone
    <3>2. \A h \in Hit : (config.next = "one" \/ results[h].on = 1) => results[h].on <= resultPage
      BY <1>2, <2>2 DEF CanTurn, TurnsByButton
    <3>. QED  BY <1>1, <2>1, <3>1, <3>2, EndHolds
  <2>3. CASE CanTurn /\ resultPage = config.pages
    BY <1>2, <1>4, <2>3, EndHolds DEF ResultPageDone
  <2>4. CASE CanTurn /\ resultPage # config.pages
    <3>1. /\ search' = "opening" /\ resultPage' = resultPage + 1
          /\ UNCHANGED <<results, config, ahead, clicked, known, verdict>>
      BY <1>2, <1>4, <2>4 DEF ResultPageDone, searchConstants
    <3>2. SearchTypeOK'
      BY <1>2, <2>4, <3>1 DEF SearchTypeOK
    <3>3. FollowedIsKnown'
      BY <1>2, <2>1, <3>1 DEF FollowedIsKnown, Covered
    <3>. QED  BY <2>4, <3>1, <3>2, <3>3 DEF CanTurn, AheadFits, TurnsByButton
  <2>. QED  BY <2>2, <2>3, <2>4
<1>. QED  BY <1>2, <1>3, <1>4

LEMMA SearchNextHolds == SearchIInv /\ [SearchNext]_searchVars => SearchIInv'
<1> SUFFICES ASSUME SearchIInv, [SearchNext]_searchVars  PROVE SearchIInv'
  OBVIOUS
<1>1. CASE UNCHANGED searchVars
  BY <1>1 DEF searchVars, searchConstants, SearchIInv, SearchIsHonest, SearchTypeOK, AheadFits,
              FollowedIsKnown, TurnsByButton, Covered
<1>2. CASE NoResults \/ TimeUp \/ SearchFails
  BY <1>2, EndHolds DEF NoResults, TimeUp, SearchFails
<1>. QED  BY <1>1, <1>2, AppearStep, FollowStep, SkipStep, PageDoneStep DEF SearchNext

\* A search follows as many results as it may, and every page that one opens and
\* that is part of the scan is handed to it (crawler/search.py).
THEOREM SearchCorrect == SearchSpec => []SearchIsHonest
<1>1. SearchIInv => SearchIsHonest  BY DEF SearchIInv
<1>. QED  BY <1>1, SearchInitHolds, SearchNextHolds, PTL DEF SearchSpec

-----------------------------------------------------------------------------
(* Checks in a live page *)

\* The walk: while Tab is pressed, the last stop it counts is where the focus is;
\* while Shift+Tab is, Tab has left the focus there.
Walking == {"tab", "back"}
WalkFits ==
  /\ step \in Walking /\ walk.last # NoStop => walk.last = focus /\ focus \in Focusable \ Outer
  /\ step \in Walking => walk.stuck < Stuck \/ step = "back"
  /\ step \in Walking => walk.backs < Stuck
  /\ step = "back" => walk.last # NoStop /\ hop.tab[focus] = focus

\* The window and the sheet that each step finds.
WindowFits ==
  /\ ~gone => view = CASE step = "zoom" -> 320 [] step = "inject" -> 640 [] OTHER -> Wide
  /\ ~gone => (sheet <=> step = "spacing")

ChecksIInv == LiveChecksTypeOK /\ WalkFits /\ WindowFits /\ TrapIsReal /\ FoundAsMeant

AsMeant(f) == /\ f.rule = "trap" => Traps(f.on)
              /\ f.rule \in Rule /\ f.on # Document =>
                   \E e \in Shows(f.rule, Meant[f.rule]) : Named[e] = f.on

LEMMA AllAsMeant == (TrapIsReal /\ FoundAsMeant) <=>
  /\ \A f \in noted : AsMeant(f)
  /\ \A p \in pictures : p.view = Wide /\ ~p.sheet
BY DEF TrapIsReal, FoundAsMeant, AsMeant

\* What a check sees in the window its rule is about is as meant.
LEMMA SeenAsMeant ==
  ASSUME NEW rule \in Rule, NEW S \in SUBSET Shows(rule, Meant[rule]), NEW f \in Findings(rule, S)
  PROVE  AsMeant(f)
<1>1. PICK e \in S : f = [rule |-> rule, on |-> Named[e]] BY DEF Findings
<1>2. f.rule = rule /\ f.on = Named[e] BY <1>1
<1>3. rule # "trap" BY DEF Rule
<1> QED BY <1>2, <1>3 DEF AsMeant

LEMMA Bounds ==
  /\ Stuck \in Nat /\ Stuck > 0 /\ MaxLoads \in Nat /\ TabKept \in BOOLEAN
  /\ NoStop \notin Stop /\ 0 \in 0..Stuck /\ 0 \in 0..MaxLoads
<1>1. Stuck \in Nat /\ MaxLoads \in Nat /\ Stuck > 0 BY LiveChecksAssumption
<1> QED BY <1>1, LiveChecksAssumption

WalkType == [from : Stop, presses : Nat, last : Stop \cup {NoStop}, stuck : 0..Stuck,
             backs : 0..Stuck, cut : BOOLEAN]

LEMMA WalkGoes ==
  ASSUME NEW w \in WalkType, NEW f \in Stop, NEW n \in 0..Stuck
  PROVE  /\ [w EXCEPT !.stuck = 0, !.last = NoStop, !.presses = @ + 1] \in WalkType
         /\ [w EXCEPT !.stuck = n, !.last = f, !.presses = @ + 1, !.backs = 0] \in WalkType
<1>1. w.presses + 1 \in Nat BY DEF WalkType
<1>4. 0 \in 0..Stuck BY Bounds
<1>2. \A n1 \in 0..Stuck, l \in Stop \cup {NoStop}, p \in Nat :
        [w EXCEPT !.stuck = n1, !.last = l, !.presses = p] \in WalkType BY DEF WalkType
<1>3. \A n1, n2 \in 0..Stuck, l \in Stop \cup {NoStop}, p \in Nat :
        [w EXCEPT !.stuck = n1, !.last = l, !.presses = p, !.backs = n2] \in WalkType BY DEF WalkType
<1>5. [w EXCEPT !.stuck = 0, !.last = NoStop, !.presses = @ + 1]
        = [w EXCEPT !.stuck = 0, !.last = NoStop, !.presses = w.presses + 1] BY DEF WalkType
<1>6. [w EXCEPT !.stuck = n, !.last = f, !.presses = @ + 1, !.backs = 0]
        = [w EXCEPT !.stuck = n, !.last = f, !.presses = w.presses + 1, !.backs = 0] BY DEF WalkType
<1>7. [w EXCEPT !.stuck = 0, !.last = NoStop, !.presses = w.presses + 1] \in WalkType BY <1>1, <1>2, <1>4
<1>8. [w EXCEPT !.stuck = n, !.last = f, !.presses = w.presses + 1, !.backs = 0] \in WalkType
  BY <1>1, <1>3, <1>4
<1> QED BY <1>5, <1>6, <1>7, <1>8

LEMMA NoWalkTyped ==
  ASSUME NEW p \in Stop
  PROVE  [NoWalk EXCEPT !.from = p] \in
           [from : Stop, presses : Nat, last : Stop \cup {NoStop}, stuck : 0..Stuck, backs : 0..Stuck, cut : BOOLEAN]
         /\ NoWalk \in
           [from : Stop, presses : Nat, last : Stop \cup {NoStop}, stuck : 0..Stuck, backs : 0..Stuck, cut : BOOLEAN]
         /\ [NoWalk EXCEPT !.from = p].last = NoStop
         /\ [NoWalk EXCEPT !.from = p].stuck = 0 /\ [NoWalk EXCEPT !.from = p].backs = 0
BY Bounds DEF NoWalk, Stop

LEMMA ChecksInitHolds == LiveChecksInit => ChecksIInv
<1> SUFFICES ASSUME LiveChecksInit PROVE ChecksIInv OBVIOUS
<1> USE DEF LiveChecksInit
<1>0. Nowhere \in Stop BY DEF Stop
<1>1. LiveChecksTypeOK
  <2>1. step \in Step /\ view \in View BY DEF Step, View
  <2>2. sheet \in BOOLEAN /\ gone \in BOOLEAN OBVIOUS
  <2>3. focus \in Stop /\ loads \in 0..MaxLoads BY <1>0, Bounds
  <2>4. walk \in WalkType BY <1>0, NoWalkTyped DEF WalkType
  <2> QED BY <2>1, <2>2, <2>3, <2>4 DEF LiveChecksTypeOK, WalkType
<1>2. WalkFits BY DEF WalkFits, Walking
<1>3. WindowFits BY DEF WindowFits
<1> QED BY <1>1, <1>2, <1>3 DEF ChecksIInv, TrapIsReal, FoundAsMeant

\* What a step adds to the findings is as meant, and it keeps the way of the keys.
LEMMA KeepsAsMeant ==
  ASSUME ChecksIInv, hop' = hop, \A f \in noted' : f \in noted \/ AsMeant(f),
         \A p \in pictures' : p.view = Wide /\ ~p.sheet
  PROVE  TrapIsReal' /\ FoundAsMeant'
<1>1. \A f \in noted' : AsMeant(f) BY AllAsMeant DEF ChecksIInv
<1> QED BY <1>1 DEF TrapIsReal, FoundAsMeant, AsMeant, Traps

LEMMA LoadNextHolds == ChecksIInv /\ LoadNext => ChecksIInv'
<1> SUFFICES ASSUME ChecksIInv, LoadNext PROVE ChecksIInv' OBVIOUS
<1> USE DEF ChecksIInv, LoadNext
<1>0. Nowhere \in Stop BY DEF Stop
<1>1. LiveChecksTypeOK'
  <2>1. step' \in Step /\ view' \in View BY DEF Step, View, LiveChecksTypeOK
  <2>2. sheet' \in BOOLEAN /\ gone' \in BOOLEAN OBVIOUS
  <2>3. focus' \in Stop /\ loads' \in 0..MaxLoads BY Bounds DEF LiveChecksTypeOK
  <2>4. walk' \in WalkType BY <1>0, NoWalkTyped DEF WalkType
  <2> QED BY <2>1, <2>2, <2>3, <2>4 DEF LiveChecksTypeOK, WalkType
<1>2. WalkFits' BY DEF WalkFits, Walking
<1>3. WindowFits' BY LiveChecksAssumption DEF WindowFits
<1>4. TrapIsReal' /\ FoundAsMeant' BY DEF TrapIsReal, FoundAsMeant
<1> QED BY <1>1, <1>2, <1>3, <1>4

LEMMA RunAxeHolds == ChecksIInv /\ RunAxe => ChecksIInv'
<1> SUFFICES ASSUME ChecksIInv, RunAxe PROVE ChecksIInv' OBVIOUS
<1> USE DEF ChecksIInv, RunAxe, onPage
<1>1. LiveChecksTypeOK' BY DEF LiveChecksTypeOK, Step
<1>2. WalkFits' BY DEF WalkFits, Walking
<1>3. WindowFits' BY DEF WindowFits
<1>4. ASSUME NEW f \in noted' PROVE AsMeant(f)
  <2>1. ~gone /\ f \in Findings("axe", Seen("axe")) BY <1>4
  <2>2. <<view, sheet>> = Meant["axe"] BY <2>1 DEF WindowFits, Meant, LiveChecksTypeOK
  <2>3. Seen("axe") = Shows("axe", Meant["axe"]) BY <2>2 DEF Seen
  <2> QED BY <2>1, <2>3, SeenAsMeant DEF Rule
<1>5. TrapIsReal' /\ FoundAsMeant' BY <1>4, KeepsAsMeant DEF FoundAsMeant
<1> QED BY <1>1, <1>2, <1>3, <1>5

-----------------------------------------------------------------------------
(* The walk *)

LEMMA StartWalkHolds == ChecksIInv /\ StartWalk => ChecksIInv'
<1> SUFFICES ASSUME ChecksIInv, StartWalk PROVE ChecksIInv' OBVIOUS
<1> USE DEF ChecksIInv, StartWalk, onPage
<1>1. focus' \in Stop BY DEF LiveChecksTypeOK, Stop
<1>2. walk'.last = NoStop /\ walk'.stuck = 0 /\ walk'.backs = 0 BY <1>1, NoWalkTyped
<1>3. LiveChecksTypeOK' BY <1>1, NoWalkTyped DEF LiveChecksTypeOK, Step
<1>4. WalkFits' BY <1>2, LiveChecksAssumption DEF WalkFits, Walking
<1>5. WindowFits' BY DEF WindowFits
<1>6. TrapIsReal' /\ FoundAsMeant' BY KeepsAsMeant DEF FoundAsMeant
<1> QED BY <1>3, <1>4, <1>5, <1>6

LEMMA KeysMove ==
  ASSUME LiveChecksTypeOK, NEW keys \in [Stop -> Stop], NEW f \in Moves(keys)
  PROVE  f \in Stop /\ (focus \notin Outer => f = keys[focus])
BY DEF LiveChecksTypeOK, Moves

LEMMA HopTyped == LiveChecksTypeOK => hop.tab \in [Stop -> Stop] /\ hop.back \in [Stop -> Stop]
BY LiveChecksAssumption DEF LiveChecksTypeOK

LEMMA PressTabHolds == ChecksIInv /\ PressTab => ChecksIInv'
<1> SUFFICES ASSUME ChecksIInv, PressTab PROVE ChecksIInv' OBVIOUS
<1> USE DEF ChecksIInv, PressTab, onPage
<1> DEFINE again == IF focus' = walk.last THEN walk.stuck + 1 ELSE 0
<1>1. focus' \in Stop /\ (focus \notin Outer => focus' = hop.tab[focus]) BY KeysMove, HopTyped
<1>2. walk.stuck \in 0..Stuck /\ walk.stuck < Stuck /\ walk.backs \in 0..Stuck /\ walk.backs < Stuck
      /\ walk.presses \in Nat /\ walk.from \in Stop /\ walk.cut \in BOOLEAN
  BY DEF LiveChecksTypeOK, WalkFits, Walking
<1>3. focus' = walk.last => focus' = focus /\ focus \in Focusable \ Outer /\ hop.tab[focus] = focus
  BY <1>1, LiveChecksAssumption DEF WalkFits, Walking
<1>4. again \in 0..Stuck BY <1>2, LiveChecksAssumption
<1>w. walk \in [from : Stop, presses : Nat, last : Stop \cup {NoStop}, stuck : 0..Stuck,
               backs : 0..Stuck, cut : BOOLEAN] BY DEF LiveChecksTypeOK
<1>a. CASE focus' \in Outer \cup {Nowhere}
  <2>1. walk' = [walk EXCEPT !.stuck = 0, !.last = NoStop, !.presses = @ + 1] /\ step' = step
    BY <1>a DEF StartAfresh
  <2>2. walk'.last = NoStop /\ walk'.stuck = 0 /\ walk'.backs = walk.backs BY <2>1, <1>w
  <2>3. walk' \in WalkType BY <2>1, <1>w, <1>1, <1>4, WalkGoes DEF WalkType
  <2>4. LiveChecksTypeOK' BY <1>1, <2>1, <2>3 DEF WalkType, LiveChecksTypeOK
  <2>5. WalkFits' BY <2>1, <2>2, <1>2, LiveChecksAssumption DEF WalkFits, Walking
  <2>6. WindowFits' BY <2>1 DEF WindowFits
  <2>7. TrapIsReal' /\ FoundAsMeant' BY KeepsAsMeant DEF FoundAsMeant
  <2> QED BY <2>4, <2>5, <2>6, <2>7
<1>b. CASE focus' \notin Outer \cup {Nowhere}
  <2>1. walk' = [walk EXCEPT !.stuck = again, !.last = focus', !.presses = @ + 1, !.backs = 0]
        /\ step' = IF focus' = walk.last /\ again >= Stuck THEN "back" ELSE step
    BY <1>b
  <2>2. walk'.last = focus' /\ walk'.stuck = again /\ walk'.backs = 0 BY <2>1, <1>w
  <2>3. walk' \in WalkType BY <2>1, <1>w, <1>1, <1>4, WalkGoes DEF WalkType
  <2>4. LiveChecksTypeOK' BY <1>1, <2>1, <2>3 DEF WalkType, LiveChecksTypeOK, Step
  <2>0. focus' \in Focusable \ Outer /\ focus' # NoStop BY <1>b, <1>1, LiveChecksAssumption DEF Stop
  <2>8. step' = "back" => focus' = focus /\ hop.tab[focus] = focus BY <2>1, <1>3
  <2>9. step' = "back" \/ again < Stuck BY <2>1, <1>2, LiveChecksAssumption
  <2>5. WalkFits' BY <2>1, <2>2, <2>0, <2>8, <2>9, LiveChecksAssumption DEF WalkFits, Walking
  <2>6. WindowFits' BY <2>1 DEF WindowFits
  <2>7. TrapIsReal' /\ FoundAsMeant' BY KeepsAsMeant DEF FoundAsMeant
  <2> QED BY <2>4, <2>5, <2>6, <2>7
<1> QED BY <1>a, <1>b

LEMMA PressBackHolds == ChecksIInv /\ PressBack => ChecksIInv'
<1> SUFFICES ASSUME ChecksIInv, PressBack PROVE ChecksIInv' OBVIOUS
<1> USE DEF ChecksIInv, PressBack, onPage
<1>1. focus' \in Stop /\ (focus \notin Outer => focus' = hop.back[focus]) BY KeysMove, HopTyped
<1>2. walk.last = focus /\ focus \in Focusable \ Outer /\ hop.tab[focus] = focus
  BY DEF WalkFits, Walking
<1>3. walk.backs \in 0..Stuck /\ walk.backs < Stuck BY DEF WalkFits, Walking, LiveChecksTypeOK
<1>w. walk \in [from : Stop, presses : Nat, last : Stop \cup {NoStop}, stuck : 0..Stuck,
               backs : 0..Stuck, cut : BOOLEAN] BY DEF LiveChecksTypeOK
<1>6. WindowFits' BY DEF WindowFits
<1>a. CASE focus' # walk.last
  <2>1. walk' = [walk EXCEPT !.stuck = 0, !.last = NoStop] /\ step' = "tab" /\ noted' = noted BY <1>a
  <2>2. LiveChecksTypeOK' BY <2>1, <1>1, <1>w, Bounds DEF LiveChecksTypeOK, Step
  <2>3. walk'.last = NoStop /\ walk'.stuck = 0 /\ walk'.backs = walk.backs BY <2>1, <1>w
  <2>4. WalkFits' BY <2>1, <2>3, <1>3, LiveChecksAssumption DEF WalkFits, Walking
  <2>5. TrapIsReal' /\ FoundAsMeant' BY <2>1, KeepsAsMeant DEF FoundAsMeant
  <2> QED BY <2>2, <2>4, <2>5, <1>6
<1>b. CASE focus' = walk.last
  <2>1. walk' = [walk EXCEPT !.backs = @ + 1]
        /\ step' = (IF walk.backs + 1 >= Stuck THEN "focus" ELSE step)
        /\ noted' = (IF walk.backs + 1 >= Stuck
                     THEN noted \cup {[rule |-> "trap", on |-> focus']} ELSE noted) BY <1>b
  <2>2. LiveChecksTypeOK' BY <2>1, <1>1, <1>3, <1>w, Bounds DEF LiveChecksTypeOK, Step
  <2>3. walk'.last = walk.last /\ walk'.stuck = walk.stuck /\ walk'.backs = walk.backs + 1 BY <2>1, <1>w
  <2>4. WalkFits' BY <2>1, <2>3, <1>3, <1>2, <1>b, LiveChecksAssumption DEF WalkFits, Walking
  <2>5. Traps(focus') BY <1>1, <1>2, <1>b DEF Traps
  <2>6. AsMeant([rule |-> "trap", on |-> focus']) BY <2>5 DEF AsMeant, Rule
  <2>7. \A f \in noted' : f \in noted \/ AsMeant(f) BY <2>1, <2>6
  <2>8. TrapIsReal' /\ FoundAsMeant' BY <2>7, KeepsAsMeant DEF FoundAsMeant
  <2> QED BY <2>2, <2>4, <2>8, <1>6
<1> QED BY <1>a, <1>b

LEMMA EndWalkHolds == ChecksIInv /\ EndWalk => ChecksIInv'
<1> SUFFICES ASSUME ChecksIInv, EndWalk PROVE ChecksIInv' OBVIOUS
<1> USE DEF ChecksIInv, EndWalk, onPage
<1>w. walk \in [from : Stop, presses : Nat, last : Stop \cup {NoStop}, stuck : 0..Stuck,
               backs : 0..Stuck, cut : BOOLEAN] BY DEF LiveChecksTypeOK
<1>1. TrapIsReal' /\ FoundAsMeant' BY KeepsAsMeant DEF FoundAsMeant
<1>2. WindowFits' BY DEF WindowFits
<1>a. CASE step = "tab" /\ step' = "focus" /\ walk' = [walk EXCEPT !.cut = @ \/ walk.presses < MaxTabs]
  <2>1. LiveChecksTypeOK' BY <1>a, <1>w DEF LiveChecksTypeOK, Step
  <2>2. WalkFits' BY <1>a DEF WalkFits, Walking
  <2> QED BY <1>1, <1>2, <2>1, <2>2
<1>b. CASE step = "back" /\ step' = "tab"
           /\ walk' = [walk EXCEPT !.stuck = 0, !.last = NoStop, !.cut = TRUE]
  <2>1. LiveChecksTypeOK' BY <1>b, <1>w, Bounds DEF LiveChecksTypeOK, Step
  <2>2. walk'.last = NoStop /\ walk'.stuck = 0 /\ walk'.backs = walk.backs BY <1>b, <1>w
  <2>3. WalkFits' BY <1>b, <2>2, LiveChecksAssumption DEF WalkFits, Walking
  <2> QED BY <1>1, <1>2, <2>1, <2>3
<1> QED BY <1>a, <1>b

-----------------------------------------------------------------------------
(* The other probes *)

LEMMA FindsAsMeant ==
  ASSUME NEW S, Finds(S), ~gone => \A F \in S : \A f \in F : AsMeant(f)
  PROVE  \A f \in noted' : f \in noted \/ AsMeant(f)
BY DEF Finds

LEMMA CheckFocusHolds == ChecksIInv /\ CheckFocus => ChecksIInv'
<1> SUFFICES ASSUME ChecksIInv, CheckFocus PROVE ChecksIInv' OBVIOUS
<1> USE DEF ChecksIInv, CheckFocus, onPage
<1>1. focus' \in Stop BY DEF LiveChecksTypeOK, Stop, Seen, Shows, Obscured
<1>2. LiveChecksTypeOK' BY <1>1, NoWalkTyped, Bounds DEF LiveChecksTypeOK, Step
<1>3. WalkFits' BY DEF WalkFits, Walking
<1>4. WindowFits' BY DEF WindowFits
<1>5. PICK R \in SUBSET {"obscured", "tabindex"} : Finds({UNION {Findings(r, Seen(r)) : r \in R}})
  OBVIOUS
<1>6. ASSUME ~gone, NEW f \in UNION {Findings(r, Seen(r)) : r \in R} PROVE AsMeant(f)
  <2>1. PICK r \in R : f \in Findings(r, Seen(r)) BY <1>6
  <2>2. r \in {"obscured", "tabindex"} OBVIOUS
  <2>3. <<view, sheet>> = Meant["axe"]
    BY <1>6 DEF WindowFits, Meant, LiveChecksTypeOK
  <2>6. Meant["obscured"] = Meant["axe"] /\ Meant["tabindex"] = Meant["axe"] BY DEF Meant
  <2>5. Meant[r] = Meant["axe"] BY <2>2, <2>6
  <2>4. Seen(r) = Shows(r, Meant[r]) BY <2>3, <2>5 DEF Seen
  <2> QED BY <2>1, <2>2, <2>4, SeenAsMeant DEF Rule
<1>7. \A f \in noted' : f \in noted \/ AsMeant(f) BY <1>5, <1>6, FindsAsMeant
<1>8. TrapIsReal' /\ FoundAsMeant' BY <1>7, KeepsAsMeant DEF FoundAsMeant
<1> QED BY <1>2, <1>3, <1>4, <1>8

LEMMA LookAroundHolds == ChecksIInv /\ LookAround => ChecksIInv'
<1> SUFFICES ASSUME ChecksIInv, LookAround PROVE ChecksIInv' OBVIOUS
<1> USE DEF ChecksIInv, LookAround, onPage
<1>2. LiveChecksTypeOK' BY DEF LiveChecksTypeOK, Step
<1>3. WalkFits' BY DEF WalkFits, Walking
<1>4. WindowFits' BY DEF WindowFits
<1>5. PICK F \in SUBSET {Motion, Sequence} : Finds({UNION F}) OBVIOUS
<1>6. ASSUME NEW f \in UNION F PROVE AsMeant(f)
  <2>1. f.rule \in {"motion", "sequence"} BY DEF Motion, Sequence
  <2> QED BY <2>1 DEF AsMeant, Rule
<1>7. \A f \in noted' : f \in noted \/ AsMeant(f) BY <1>5, <1>6, FindsAsMeant
<1>8. TrapIsReal' /\ FoundAsMeant' BY <1>7, KeepsAsMeant DEF FoundAsMeant
<1> QED BY <1>2, <1>3, <1>4, <1>8

LEMMA OperateHolds == ChecksIInv /\ Operate => ChecksIInv'
<1> SUFFICES ASSUME ChecksIInv, Operate PROVE ChecksIInv' OBVIOUS
<1> USE DEF ChecksIInv, Operate, onPage
<1>2. LiveChecksTypeOK' BY DEF LiveChecksTypeOK, Step, Stop
<1>3. WalkFits' BY DEF WalkFits, Walking
<1>4. WindowFits' BY DEF WindowFits
<1>8. TrapIsReal' /\ FoundAsMeant' BY KeepsAsMeant DEF FoundAsMeant
<1> QED BY <1>2, <1>3, <1>4, <1>8

LEMMA FewAre == ASSUME NEW S, NEW T \in Few(S) PROVE T \in SUBSET S
BY DEF Few

LEMMA CheckReflowHolds == ChecksIInv /\ CheckReflow => ChecksIInv'
<1> SUFFICES ASSUME ChecksIInv, CheckReflow PROVE ChecksIInv' OBVIOUS
<1> USE DEF ChecksIInv, CheckReflow, Resized
<1>2. LiveChecksTypeOK' BY DEF LiveChecksTypeOK, Step, View
<1>3. WalkFits' BY DEF WalkFits, Walking
<1>4. WindowFits' BY DEF WindowFits
<1> DEFINE wide == Shows("reflow", <<view', sheet>>)
           found == IF view' \notin Overflows THEN {{}}
                    ELSE IF wide = {} THEN {{[rule |-> "reflow", on |-> Document]}}
                    ELSE {Findings("reflow", T) : T \in Few(wide)}
<1>5. Finds(found) OBVIOUS
<1>6. ASSUME ~gone, NEW F \in found, NEW f \in F PROVE AsMeant(f)
  <2>0. <<view', sheet>> = Meant["reflow"] BY <1>6 DEF WindowFits, Meant, LiveChecksTypeOK
  <2>1. wide = Shows("reflow", Meant["reflow"]) BY <2>0
  <2>2. CASE F \in {Findings("reflow", T) : T \in Few(wide)}
    <3>1. PICK T \in Few(wide) : F = Findings("reflow", T) BY <2>2
    <3>2. T \in SUBSET Shows("reflow", Meant["reflow"]) BY <2>1, FewAre
    <3> QED BY <3>1, <3>2, SeenAsMeant DEF Rule
  <2>3. CASE F = {[rule |-> "reflow", on |-> Document]}
    BY <2>3 DEF AsMeant
  <2> QED BY <1>6, <2>2, <2>3
<1>7. \A f \in noted' : f \in noted \/ AsMeant(f)
  <2> HIDE DEF found
  <2> QED BY <1>5, <1>6, FindsAsMeant
<1>8. TrapIsReal' /\ FoundAsMeant' BY <1>7, KeepsAsMeant DEF FoundAsMeant
<1> QED BY <1>2, <1>3, <1>4, <1>8

LEMMA FewAsMeant ==
  ASSUME NEW rule \in Rule, NEW w, ~gone => w = Meant[rule],
         Finds({Findings(rule, T) : T \in Few(Shows(rule, w))})
  PROVE  \A f \in noted' : f \in noted \/ AsMeant(f)
<1> DEFINE found == {Findings(rule, T) : T \in Few(Shows(rule, w))}
<1>1. ASSUME ~gone, NEW F \in found, NEW f \in F PROVE AsMeant(f)
  <2>1. PICK T \in Few(Shows(rule, w)) : F = Findings(rule, T) OBVIOUS
  <2>2. T \in SUBSET Shows(rule, Meant[rule]) BY <1>1, FewAre
  <2> QED BY <2>1, <2>2, SeenAsMeant
<1>2. Finds(found) OBVIOUS
<1> HIDE DEF found
<1> QED BY <1>1, <1>2, FindsAsMeant

LEMMA CheckZoomHolds == ChecksIInv /\ CheckZoom => ChecksIInv'
<1> SUFFICES ASSUME ChecksIInv, CheckZoom PROVE ChecksIInv' OBVIOUS
<1> USE DEF ChecksIInv, CheckZoom, Resized
<1>2. LiveChecksTypeOK' BY DEF LiveChecksTypeOK, Step, View
<1>3. WalkFits' BY DEF WalkFits, Walking
<1>4. WindowFits' BY DEF WindowFits
<1>6. ~gone => <<view', sheet>> = Meant["zoom"] BY DEF WindowFits, Meant, LiveChecksTypeOK
<1>7. \A f \in noted' : f \in noted \/ AsMeant(f) BY <1>6, FewAsMeant DEF Rule
<1>8. TrapIsReal' /\ FoundAsMeant' BY <1>7, KeepsAsMeant DEF FoundAsMeant
<1> QED BY <1>2, <1>3, <1>4, <1>8

LEMMA InjectSpacingHolds == ChecksIInv /\ InjectSpacing => ChecksIInv'
<1> SUFFICES ASSUME ChecksIInv, InjectSpacing PROVE ChecksIInv' OBVIOUS
<1> USE DEF ChecksIInv, InjectSpacing, Resized
<1>1. view' \in View /\ sheet' \in BOOLEAN BY DEF LiveChecksTypeOK, View
<1>2. LiveChecksTypeOK' BY <1>1 DEF LiveChecksTypeOK, Step
<1>3. WalkFits' BY DEF WalkFits, Walking
<1>4. WindowFits' BY DEF WindowFits
<1>8. TrapIsReal' /\ FoundAsMeant' BY KeepsAsMeant DEF FoundAsMeant
<1> QED BY <1>2, <1>3, <1>4, <1>8

LEMMA CheckSpacingHolds == ChecksIInv /\ CheckSpacing => ChecksIInv'
<1> SUFFICES ASSUME ChecksIInv, CheckSpacing PROVE ChecksIInv' OBVIOUS
<1> USE DEF ChecksIInv, CheckSpacing
<1>2. LiveChecksTypeOK' BY DEF LiveChecksTypeOK, Step
<1>3. WalkFits' BY DEF WalkFits, Walking
<1>4. WindowFits' BY DEF WindowFits, LiveChecksTypeOK
<1>6. ~gone => <<view, sheet>> = Meant["spacing"] BY DEF WindowFits, Meant, LiveChecksTypeOK
<1>7. \A f \in noted' : f \in noted \/ AsMeant(f) BY <1>6, FewAsMeant DEF Rule, Seen
<1>8. TrapIsReal' /\ FoundAsMeant' BY <1>7, KeepsAsMeant DEF FoundAsMeant
<1> QED BY <1>2, <1>3, <1>4, <1>8

LEMMA RestoreHolds == ChecksIInv /\ Restore => ChecksIInv'
<1> SUFFICES ASSUME ChecksIInv, Restore PROVE ChecksIInv' OBVIOUS
<1> USE DEF ChecksIInv, Restore, Resized
<1>2. LiveChecksTypeOK' BY DEF LiveChecksTypeOK, Step, View, Wide
<1>3. WalkFits' BY DEF WalkFits, Walking
<1>4. WindowFits' BY DEF WindowFits
<1>8. TrapIsReal' /\ FoundAsMeant' BY KeepsAsMeant DEF FoundAsMeant
<1> QED BY <1>2, <1>3, <1>4, <1>8

LEMMA TakePicturesHolds == ChecksIInv /\ TakePictures => ChecksIInv'
<1> SUFFICES ASSUME ChecksIInv, TakePictures PROVE ChecksIInv' OBVIOUS
<1> USE DEF ChecksIInv, TakePictures
<1>2. LiveChecksTypeOK' BY DEF LiveChecksTypeOK, Step
<1>3. WalkFits' BY DEF WalkFits, Walking
<1>4. WindowFits' BY DEF WindowFits
<1>5. \A p \in pictures' : p.view = Wide /\ ~p.sheet BY DEF WindowFits
<1>8. TrapIsReal' /\ FoundAsMeant' BY <1>5, KeepsAsMeant DEF FoundAsMeant
<1> QED BY <1>2, <1>3, <1>4, <1>8

LEMMA TabGoesHolds == ChecksIInv /\ TabGoes => ChecksIInv'
<1> SUFFICES ASSUME ChecksIInv, TabGoes PROVE ChecksIInv' OBVIOUS
<1> USE DEF ChecksIInv, TabGoes
<1>2. LiveChecksTypeOK' BY DEF LiveChecksTypeOK
<1>3. WalkFits' BY DEF WalkFits, Walking
<1>4. WindowFits' BY DEF WindowFits
<1>8. TrapIsReal' /\ FoundAsMeant' BY KeepsAsMeant DEF FoundAsMeant
<1> QED BY <1>2, <1>3, <1>4, <1>8

LEMMA ChecksNextHolds == ChecksIInv /\ [LiveChecksNext]_checkVars => ChecksIInv'
<1> SUFFICES ASSUME ChecksIInv, [LiveChecksNext]_checkVars PROVE ChecksIInv' OBVIOUS
<1>1. CASE UNCHANGED checkVars
  BY <1>1 DEF checkVars, ChecksIInv, LiveChecksTypeOK, WalkFits, Walking, WindowFits, TrapIsReal,
              FoundAsMeant, Traps
<1>2. CASE LiveChecksNext
  BY <1>2, LoadNextHolds, RunAxeHolds, StartWalkHolds, PressTabHolds, PressBackHolds, EndWalkHolds,
     CheckFocusHolds, LookAroundHolds, OperateHolds, CheckReflowHolds, CheckZoomHolds,
     InjectSpacingHolds, CheckSpacingHolds, RestoreHolds, TakePicturesHolds, TabGoesHolds
     DEF LiveChecksNext
<1> QED BY <1>1, <1>2

-----------------------------------------------------------------------------
(* No trap is missed *)

\* As long as nothing cut the walk short, a walk that Tab leads to a trap is on
\* its way there, or has been held there for all presses since.
TrackFits ==
  /\ step \in Walking => walk.presses <= MaxTabs
  /\ step \in Walking /\ ~walk.cut =>
       \A k \in 1..(MaxTabs - Stuck) : \A path \in TabPaths(k) : Traps(path[k]) =>
         /\ walk.presses < k => focus = path[walk.presses]
         /\ walk.presses >= k => /\ focus = path[k] /\ walk.last = path[k]
                                 /\ step = "tab" => walk.stuck >= walk.presses - k

FoundIInv == ChecksIInv /\ TrackFits /\ TrapIsFound

LEMMA MaxTabsNat == MaxTabs \in Nat
<1>1. MaxFocusable \in Nat BY LiveChecksAssumption
<1> QED BY <1>1 DEF MaxTabs

\* A way of Tab does not leave a stop that Tab stays at.
LEMMA FixedStays ==
  ASSUME NEW k \in Nat, NEW path \in TabPaths(k), NEW p \in 0..k, hop.tab[path[p]] = path[p]
  PROVE  path[k] = path[p]
<1>1. SUFFICES ASSUME path[k] # path[p] PROVE FALSE OBVIOUS
<1> DEFINE S == {j \in p..k : path[j] # path[p]}
<1>2. S \in SUBSET Nat /\ k \in S BY <1>1
<1> HIDE DEF S
<1>3. PICK j \in S : \A i \in S : j <= i BY <1>2, LeastIs
<1>4. j \in p..k /\ path[j] # path[p] BY DEF S
<1>5. j \in (p+1)..k /\ j - 1 \in p..k /\ j \in 1..k BY <1>4
<1>6. j - 1 \notin S BY <1>3, <1>5
<1>7. path[j - 1] = path[p] BY <1>5, <1>6 DEF S
<1>8. path[j] = hop.tab[path[j - 1]] BY <1>5 DEF TabPaths
<1> QED BY <1>4, <1>7, <1>8

\* A stop on such a way is past no frame, and the next one is where Tab goes.
LEMMA OnTheWay ==
  ASSUME NEW k \in Nat \ {0}, NEW path \in TabPaths(k), NEW i \in 0..k
  PROVE  path[i] \in Stop \ Outer /\ (i < k => path[i + 1] = hop.tab[path[i]])
<1>1. path \in [0..k -> Stop \ Outer] /\ \A j \in 1..k : path[j] = hop.tab[path[j - 1]] BY DEF TabPaths
<1>2. i < k => i + 1 \in 1..k /\ (i + 1) - 1 = i OBVIOUS
<1> QED BY <1>1, <1>2

LEMMA FoundInitHolds == LiveChecksInit => FoundIInv
<1> SUFFICES ASSUME LiveChecksInit PROVE FoundIInv OBVIOUS
<1>1. TrackFits /\ TrapIsFound BY DEF LiveChecksInit, TrackFits, TrapIsFound, Walking
<1> QED BY <1>1, ChecksInitHolds DEF FoundIInv

LEMMA StartWalkTracks == FoundIInv /\ StartWalk => TrackFits' /\ TrapIsFound'
<1> SUFFICES ASSUME FoundIInv, StartWalk PROVE TrackFits' /\ TrapIsFound' OBVIOUS
<1> USE DEF StartWalk
<1>1. focus' \in Stop BY DEF FoundIInv, ChecksIInv, LiveChecksTypeOK, Stop
<1>2. walk'.presses = 0 /\ walk'.from = focus' /\ step' = "tab" BY <1>1 DEF NoWalk
<1>3. TrapIsFound' BY <1>2 DEF TrapIsFound
<1>4. ASSUME NEW k \in 1..(MaxTabs - Stuck), NEW path \in TabPaths(k)' PROVE focus' = path[0] /\ 0 < k
  BY <1>2 DEF TabPaths
<1>5. 0 <= MaxTabs BY MaxTabsNat
<1>6. \A k \in 1..(MaxTabs - Stuck) : 0 < k /\ ~(0 >= k) BY MaxTabsNat, Bounds
<1>7. TrackFits' BY <1>2, <1>4, <1>5, <1>6 DEF TrackFits
<1> QED BY <1>3, <1>7

LEMMA PressTabTracks == FoundIInv /\ PressTab => TrackFits' /\ TrapIsFound'
<1> SUFFICES ASSUME FoundIInv, PressTab PROVE TrackFits' /\ TrapIsFound' OBVIOUS
<1> USE DEF FoundIInv, ChecksIInv
<1> DEFINE again == IF focus' = walk.last THEN walk.stuck + 1 ELSE 0
<1>1. focus' \in Stop /\ (focus \notin Outer => focus' = hop.tab[focus]) BY KeysMove, HopTyped DEF PressTab
<1>2. walk \in WalkType /\ walk.presses \in Nat /\ walk.presses < MaxTabs /\ walk.stuck \in Nat /\ step = "tab"
  BY Bounds DEF LiveChecksTypeOK, WalkType, PressTab
<1>3. IF focus' \in Outer \cup {Nowhere}
      THEN walk' = [walk EXCEPT !.stuck = 0, !.last = NoStop, !.presses = @ + 1]
      ELSE walk' = [walk EXCEPT !.stuck = again, !.last = focus', !.presses = @ + 1, !.backs = 0]
  BY DEF PressTab, StartAfresh
<1>4. step' \in Walking /\ hop' = hop BY <1>2 DEF PressTab, onPage, Walking
<1> HIDE DEF again
<1>5. walk'.presses = walk.presses + 1 /\ walk'.from = walk.from /\ walk'.cut = walk.cut
  BY <1>2, <1>3 DEF WalkType
<1>6. focus' \notin Outer \cup {Nowhere} => walk'.last = focus' /\ walk'.stuck = again
  BY <1>2, <1>3 DEF WalkType
<1>7. TrapIsFound' BY <1>4 DEF TrapIsFound, Walking
<1>8. walk'.presses <= MaxTabs BY <1>2, <1>5, MaxTabsNat
<1>9. ASSUME ~walk.cut, NEW k \in 1..(MaxTabs - Stuck), NEW path \in TabPaths(k)', Traps(path[k])'
      PROVE  /\ walk'.presses < k => focus' = path[walk'.presses]
             /\ walk'.presses >= k => /\ focus' = path[k] /\ walk'.last = path[k]
                                      /\ walk'.stuck >= walk'.presses - k
  <2>1. path \in TabPaths(k) BY <1>4, <1>5 DEF TabPaths
  <2>2. Traps(path[k]) BY <1>4, <1>9 DEF Traps
  <2>3. k \in Nat \ {0} /\ k \in 1..(MaxTabs - Stuck) BY MaxTabsNat, Bounds
  <2>4. /\ walk.presses < k => focus = path[walk.presses]
        /\ walk.presses >= k => focus = path[k] /\ walk.last = path[k] /\ walk.stuck >= walk.presses - k
    BY <1>2, <1>9, <2>1, <2>2 DEF TrackFits, Walking
  <2>5. path[k] \in Focusable \ Outer /\ hop.tab[path[k]] = path[k] BY <2>2 DEF Traps
  <2>6. Nowhere \notin Focusable BY LiveChecksAssumption
  <2>7. CASE walk.presses < k
    <3>1. walk.presses \in 0..k /\ walk.presses + 1 <= k BY <1>2, <2>3, <2>7
    <3>2. focus \in Stop \ Outer /\ path[walk.presses + 1] = hop.tab[focus]
      BY <2>1, <2>3, <2>4, <2>7, <3>1, OnTheWay
    <3>3. focus' = path[walk'.presses] BY <1>1, <1>5, <3>2
    <3>4. walk'.presses >= k => walk'.presses = k BY <1>2, <1>5, <2>3, <3>1
    <3>5. walk'.presses = k => focus' = path[k] /\ walk'.last = path[k] /\ walk'.stuck = again
      BY <1>6, <2>5, <2>6, <3>3
    <3>6. again \in Nat BY <1>2 DEF again
    <3>7. walk'.presses = k => walk'.stuck >= walk'.presses - k BY <3>5, <3>6, <2>3
    <3> QED BY <3>3, <3>4, <3>5, <3>7
  <2>8. CASE walk.presses >= k
    <3>1. focus' = path[k] /\ focus' = walk.last BY <1>1, <2>4, <2>5, <2>8
    <3>2. again = walk.stuck + 1 BY <3>1 DEF again
    <3>3. walk'.last = path[k] /\ walk'.stuck = walk.stuck + 1 BY <1>6, <2>5, <2>6, <3>1, <3>2
    <3>4. walk'.stuck >= walk'.presses - k BY <1>2, <1>5, <2>3, <2>4, <2>8, <3>3
    <3>5. ~(walk'.presses < k) BY <1>2, <1>5, <2>3, <2>8
    <3> QED BY <3>1, <3>3, <3>4, <3>5
  <2> QED BY <1>2, <2>3, <2>7, <2>8
<1>10. TrackFits' BY <1>5, <1>8, <1>9 DEF TrackFits
<1> QED BY <1>7, <1>10

LEMMA BackAtTrap ==
  ASSUME FoundIInv, step = "back", ~walk.cut,
         NEW k \in 1..(MaxTabs - Stuck), NEW path \in TabPaths(k), Traps(path[k])
  PROVE  focus = path[k] /\ walk.last = path[k]
<1> USE DEF FoundIInv, ChecksIInv
<1>1. /\ walk.presses < k => focus = path[walk.presses]
      /\ walk.presses >= k => focus = path[k]
  BY DEF TrackFits, Walking
<1>2. walk.last = focus /\ hop.tab[focus] = focus BY DEF WalkFits, Walking
<1>3. k \in Nat /\ walk.presses \in Nat BY MaxTabsNat, Bounds DEF LiveChecksTypeOK
<1>4. CASE walk.presses < k
  <2>1. walk.presses \in 0..k BY <1>3, <1>4
  <2> QED BY <1>1, <1>2, <1>3, <1>4, <2>1, FixedStays
<1>5. CASE walk.presses >= k BY <1>1, <1>2, <1>5
<1> QED BY <1>3, <1>4, <1>5

LEMMA PressBackTracks == FoundIInv /\ PressBack => TrackFits' /\ TrapIsFound'
<1> SUFFICES ASSUME FoundIInv, PressBack PROVE TrackFits' /\ TrapIsFound' OBVIOUS
<1> USE DEF FoundIInv, ChecksIInv
<1>1. focus' \in Stop /\ (focus \notin Outer => focus' = hop.back[focus]) BY KeysMove, HopTyped DEF PressBack
<1>2. walk \in WalkType /\ walk.presses \in Nat /\ step = "back" /\ hop' = hop
  BY DEF LiveChecksTypeOK, WalkType, PressBack, onPage
<1>3. walk' = IF focus' # walk.last THEN [walk EXCEPT !.stuck = 0, !.last = NoStop]
                                    ELSE [walk EXCEPT !.backs = @ + 1]
  BY DEF PressBack
<1>4. walk'.presses = walk.presses /\ walk'.from = walk.from /\ walk'.cut = walk.cut
      /\ (focus' = walk.last => walk'.last = walk.last /\ walk'.stuck = walk.stuck)
  BY <1>2, <1>3 DEF WalkType
<1>5. walk'.presses <= MaxTabs BY <1>2, <1>4 DEF TrackFits, Walking
<1>6. ASSUME ~walk.cut, NEW k \in 1..(MaxTabs - Stuck), NEW path \in TabPaths(k)', Traps(path[k])'
      PROVE  focus' = path[k] /\ focus' = walk.last /\ path \in TabPaths(k) /\ Traps(path[k])
  <2>1. path \in TabPaths(k) /\ Traps(path[k]) BY <1>2, <1>4, <1>6 DEF TabPaths, Traps
  <2>2. focus = path[k] /\ walk.last = path[k] BY <1>2, <1>6, <2>1, BackAtTrap
  <2>3. focus' = path[k] BY <1>1, <2>1, <2>2 DEF Traps
  <2> QED BY <2>1, <2>2, <2>3
<1>7. TrackFits'
  <2> SUFFICES ASSUME step' \in Walking, ~walk'.cut, NEW k \in 1..(MaxTabs - Stuck),
                      NEW path \in TabPaths(k)', Traps(path[k])'
               PROVE  /\ walk'.presses < k => focus' = path[walk'.presses]
                      /\ walk'.presses >= k => /\ focus' = path[k] /\ walk'.last = path[k]
                                               /\ step' = "tab" => walk'.stuck >= walk'.presses - k
    BY <1>5 DEF TrackFits
  <2>1. focus' = path[k] /\ focus' = walk.last /\ path \in TabPaths(k) /\ Traps(path[k])
    BY <1>4, <1>6
  <2>2. walk'.last = path[k] /\ focus = path[k] BY <1>2, <1>4, <2>1 DEF WalkFits, Walking
  <2>3. step' # "tab" BY <1>2, <2>1 DEF PressBack
  <2>4. walk.presses < k => focus = path[walk.presses]
    BY <1>2, <1>4, <2>1 DEF TrackFits, Walking
  <2> QED BY <1>4, <2>1, <2>2, <2>3, <2>4
<1>8. TrapIsFound'
  <2> SUFFICES ASSUME step' = "focus", ~walk'.cut, NEW k \in 1..(MaxTabs - Stuck),
                      NEW path \in TabPaths(k)', Traps(path[k])'
               PROVE  [rule |-> "trap", on |-> path[k]] \in noted'
    BY DEF TrapIsFound
  <2>1. focus' = path[k] /\ focus' = walk.last BY <1>4, <1>6
  <2>2. walk.backs + 1 >= Stuck BY <1>2, <2>1 DEF PressBack
  <2> QED BY <2>1, <2>2 DEF PressBack
<1> QED BY <1>7, <1>8

LEMMA EndWalkTracks == FoundIInv /\ EndWalk => TrackFits' /\ TrapIsFound'
<1> SUFFICES ASSUME FoundIInv, EndWalk PROVE TrackFits' /\ TrapIsFound' OBVIOUS
<1> USE DEF FoundIInv, ChecksIInv
<1>1. walk \in WalkType /\ walk.presses \in Nat /\ walk.cut \in BOOLEAN /\ hop' = hop
  BY DEF LiveChecksTypeOK, WalkType, EndWalk, onPage
<1>a. CASE step = "tab" /\ step' = "focus" /\ walk' = [walk EXCEPT !.cut = @ \/ walk.presses < MaxTabs]
  <2>1. walk'.from = walk.from /\ (~walk'.cut => ~walk.cut /\ ~(walk.presses < MaxTabs))
    BY <1>1, <1>a DEF WalkType
  <2>2. TrackFits' BY <1>a DEF TrackFits, Walking
  <2>3. ASSUME ~walk'.cut, NEW k \in 1..(MaxTabs - Stuck), NEW path \in TabPaths(k)', Traps(path[k])'
        PROVE  FALSE
    <3>1. path \in TabPaths(k) /\ Traps(path[k]) BY <1>1, <2>1, <2>3 DEF TabPaths, Traps
    <3>2. walk.presses = MaxTabs BY <1>1, <1>a, <2>1, <2>3, MaxTabsNat DEF TrackFits, Walking
    <3>3. walk.presses >= k /\ walk.presses - k >= Stuck BY <3>2, MaxTabsNat, Bounds
    <3>4. walk.stuck >= walk.presses - k BY <1>a, <2>1, <2>3, <3>1, <3>3 DEF TrackFits, Walking
    <3>5. walk.stuck < Stuck /\ walk.stuck \in Nat BY <1>a, Bounds DEF WalkFits, Walking, LiveChecksTypeOK
    <3> QED BY <3>2, <3>3, <3>4, <3>5, MaxTabsNat, Bounds
  <2>4. TrapIsFound' BY <2>3 DEF TrapIsFound
  <2> QED BY <2>2, <2>4
<1>b. CASE step = "back" /\ step' = "tab"
           /\ walk' = [walk EXCEPT !.stuck = 0, !.last = NoStop, !.cut = TRUE]
  <2>1. walk'.presses = walk.presses /\ walk'.cut = TRUE BY <1>1, <1>b DEF WalkType
  <2>2. walk.presses <= MaxTabs BY <1>b DEF TrackFits, Walking
  <2>3. TrackFits' BY <2>1, <2>2 DEF TrackFits
  <2>4. TrapIsFound' BY <1>b DEF TrapIsFound
  <2> QED BY <2>3, <2>4
<1> QED BY <1>a, <1>b DEF EndWalk

LEMMA TabGoesTracks == FoundIInv /\ TabGoes => TrackFits' /\ TrapIsFound'
BY DEF FoundIInv, TabGoes, TrackFits, TrapIsFound, TabPaths, Traps

\* The other steps end in no step of the walk, nor right after it.
LEMMA OthersTrack ==
  LoadNext \/ RunAxe \/ CheckFocus \/ LookAround \/ Operate \/ CheckReflow \/ CheckZoom
    \/ InjectSpacing \/ CheckSpacing \/ Restore \/ TakePictures => TrackFits' /\ TrapIsFound'
<1> SUFFICES ASSUME step' \notin Walking, step' # "focus" PROVE TrackFits' /\ TrapIsFound'
  BY DEF LoadNext, RunAxe, CheckFocus, LookAround, Operate, CheckReflow, CheckZoom,
         InjectSpacing, CheckSpacing, Restore, TakePictures, Walking
<1> QED BY DEF TrackFits, TrapIsFound

LEMMA FoundNextHolds == FoundIInv /\ [LiveChecksNext]_checkVars => FoundIInv'
<1> SUFFICES ASSUME FoundIInv, [LiveChecksNext]_checkVars PROVE FoundIInv' OBVIOUS
<1>1. ChecksIInv' BY ChecksNextHolds DEF FoundIInv
<1>2. CASE UNCHANGED checkVars
  <2>1. TrackFits' /\ TrapIsFound'
    BY <1>2 DEF FoundIInv, checkVars, TrackFits, TrapIsFound, TabPaths, Traps
  <2> QED BY <1>1, <2>1 DEF FoundIInv
<1>3. CASE LiveChecksNext
  <2>1. TrackFits' /\ TrapIsFound'
    BY <1>3, StartWalkTracks, PressTabTracks, PressBackTracks, EndWalkTracks, TabGoesTracks, OthersTrack
       DEF LiveChecksNext
  <2> QED BY <1>1, <2>1 DEF FoundIInv
<1> QED BY <1>2, <1>3

\* A trap of the keyboard is told only where there is one, and what a check finds
\* it found in the page as the visitor has it, whatever the checks before it did
\* to the window and the focus (probes of crawler/).
THEOREM ChecksCorrect == LiveChecksSpec => []ChecksAreTrue
<1>1. FoundIInv => ChecksAreTrue BY DEF FoundIInv, ChecksIInv, ChecksAreTrue
<1> QED BY <1>1, FoundInitHolds, FoundNextHolds, PTL DEF LiveChecksSpec

-----------------------------------------------------------------------------
(* Language checks and what is outlined *)

\* before is a strict order on S in which any two differ.
Orders(before, S) ==
  /\ DOMAIN before = S
  /\ \A i \in S : before[i] \subseteq S /\ i \notin before[i]
  /\ \A i \in S : \A j \in before[i] : before[j] \subseteq before[i]
  /\ \A i, j \in S : i = j \/ i \in before[j] \/ j \in before[i]

\* s is a list of the members of S, each once.
Enumerates(s, S) ==
  /\ s \in Seq(S) /\ Len(s) = Cardinality(S)
  /\ \A i \in S : \E n \in 1..Len(s) : s[n] = i
  /\ \A n, m \in 1..Len(s) : s[n] = s[m] => n = m

\* Those before a member are fewer than those before a later one.
LEMMA FewerBefore ==
  ASSUME NEW S, IsFiniteSet(S), NEW before, Orders(before, S), NEW i \in S, NEW j \in before[i]
  PROVE  Cardinality(before[j]) < Cardinality(before[i])
<1> DEFINE A == before[i]  B == before[j]
<1>1. j \in S /\ A \subseteq S /\ B \subseteq A /\ j \notin B  BY DEF Orders
<1>2. IsFiniteSet(A)  BY <1>1, FS_Subset
<1>3. IsFiniteSet(B)  BY <1>1, <1>2, FS_Subset
<1>4. Cardinality(A) \in Nat /\ Cardinality(B) \in Nat  BY <1>2, <1>3, FS_CardinalityType
<1>5. Cardinality(B) <= Cardinality(A) /\ (Cardinality(A) = Cardinality(B) => A = B)
  BY <1>1, <1>2, FS_Subset
<1>6. A # B  BY <1>1
<1> HIDE DEF A, B
<1>7. Cardinality(B) < Cardinality(A)  BY <1>4, <1>5, <1>6
<1> QED  BY <1>7 DEF A, B

LEMMA SameLength == ASSUME NEW a \in Nat, NEW b \in Nat, 1..a = 1..b PROVE a = b
<1>1. CASE a < b
  <2>1. b \in 1..b /\ b \notin 1..a  BY <1>1
  <2> QED  BY <2>1
<1>2. CASE b < a
  <2>1. a \in 1..a /\ a \notin 1..b  BY <1>2
  <2> QED  BY <2>1
<1> QED  BY <1>1, <1>2

LEMMA InOrderIs ==
  ASSUME NEW S, IsFiniteSet(S), NEW before, Orders(before, S)
  PROVE  Enumerates(InOrder(before), S) 
<1> DEFINE k == Cardinality(S)  f == [i \in S |-> Cardinality(before[i])]
<1>0. k \in Nat  BY FS_CardinalityType
<1>1. ASSUME NEW i \in S PROVE f[i] \in 0..(k - 1)
  <2> DEFINE A == before[i]
  <2>1. A \subseteq S /\ i \notin A  BY DEF Orders
  <2>2. IsFiniteSet(A)  BY <2>1, FS_Subset
  <2>3. Cardinality(A) \in Nat /\ Cardinality(A) <= k /\ (k = Cardinality(A) => S = A)
    BY <2>1, <2>2, FS_Subset, FS_CardinalityType
  <2>4. S # A  BY <2>1
  <2> QED  BY <1>0, <2>3, <2>4
<1>2. ASSUME NEW i \in S, NEW j \in S, f[i] = f[j] PROVE i = j
  <2> SUFFICES ASSUME i # j PROVE FALSE  OBVIOUS
  <2>0. f[i] \in Nat /\ f[j] \in Nat  BY <1>0, <1>1
  <2>1. CASE i \in before[j]  BY <1>2, <2>0, <2>1, FewerBefore
  <2>2. CASE j \in before[i]  BY <1>2, <2>0, <2>2, FewerBefore
  <2> QED  BY <2>1, <2>2 DEF Orders
<1>3. f \in Injection(S, 0..(k - 1))  BY <1>1, <1>2, Zenon DEF Injection, IsInjective
<1>4. IsFiniteSet(0..(k - 1)) /\ Cardinality(0..(k - 1)) = k
  BY <1>0, FS_Interval
<1>5. f \in Surjection(S, 0..(k - 1))  BY <1>3, <1>4, FS_Injection
<1>6. ASSUME NEW n \in 1..k PROVE \E i \in S : Cardinality(before[i]) = n - 1
  <2>1. n - 1 \in 0..(k - 1)  BY <1>0
  <2>2. PICK i \in S : f[i] = n - 1  BY <1>5, <2>1, Zenon DEF Surjection
  <2> QED  BY <2>2
<1> DEFINE s == InOrder(before)
<1>7. s = [n \in 1..k |-> CHOOSE i \in S : Cardinality(before[i]) = n - 1]
  BY DEF InOrder, Orders
<1>8. ASSUME NEW n \in 1..k PROVE s[n] \in S /\ Cardinality(before[s[n]]) = n - 1
  <2>1. s[n] = CHOOSE i \in S : Cardinality(before[i]) = n - 1  BY <1>7
  <2> QED  BY <1>6, <2>1
<1>9. s \in [1..k -> S]  BY <1>7, <1>8
<1>10. s \in Seq(S) /\ Len(s) = k
  <2>1. s \in Seq(S)  BY <1>0, <1>9, SeqDef
  <2>2. DOMAIN s = 1..Len(s) /\ Len(s) \in Nat  BY <2>1, LenProperties
  <2>3. DOMAIN s = 1..k  BY <1>9
  <2> HIDE DEF s, k
  <2>4. 1..Len(s) = 1..k  BY <2>2, <2>3
  <2>5. Len(s) = k  BY <1>0, <2>2, <2>4, SameLength
  <2> QED  BY <2>1, <2>5
<1>11. ASSUME NEW i \in S PROVE \E n \in 1..k : s[n] = i
  <2> DEFINE n == f[i] + 1
  <2>1. n \in 1..k /\ f[i] = n - 1  BY <1>0, <1>1
  <2>2. s[n] \in S /\ f[s[n]] = f[i]  BY <1>8, <2>1
  <2>3. s[n] = i  BY <1>2, <2>2
  <2> QED  BY <2>1, <2>3
<1>12. ASSUME NEW n \in 1..k, NEW m \in 1..k, s[n] = s[m] PROVE n = m
  <2>1. n - 1 = m - 1  BY <1>8, <1>12
  <2> QED  BY <1>0, <2>1
<1> HIDE DEF s, k, f
<1>13. Len(s) = Cardinality(S)  BY <1>10 DEF k
<1>14. Enumerates(s, S)  BY <1>10, <1>11, <1>12, <1>13 DEF Enumerates
<1> QED  BY <1>14 DEF s

LEMMA AscendingIs ==
  ASSUME NEW n \in Nat, NEW S, S \subseteq 1..n PROVE Enumerates(Ascending(S), S)
<1> DEFINE before == [i \in S |-> {j \in S : j < i}]
<1>1. IsFiniteSet(S)  
  <2>1. IsFiniteSet(1..n)  BY FS_Interval
  <2> QED  BY <2>1, FS_Subset
<1>2. Orders(before, S)
  <2>1. S \subseteq Nat  OBVIOUS
  <2>2. \A i \in S : before[i] \subseteq S /\ i \notin before[i]  BY <2>1
  <2>3. ASSUME NEW i \in S, NEW j \in before[i] PROVE before[j] \subseteq before[i]
    <3>1. j \in S  OBVIOUS
    <3>2. ASSUME NEW k \in before[j] PROVE k \in before[i]  BY <2>1, <3>1
    <3> QED  BY <3>2
  <2>4. \A i, j \in S : i = j \/ i \in before[j] \/ j \in before[i]  BY <2>1
  <2>5. DOMAIN before = S  OBVIOUS
  <2> HIDE DEF before
  <2> QED  BY <2>2, <2>3, <2>4, <2>5 DEF Orders
<1>3. Ascending(S) = InOrder(before)  BY DEF Ascending
<1> HIDE DEF before
<1> QED  BY <1>1, <1>2, <1>3, InOrderIs

\* A list of the members of a finite set of numbers has them for its entries.
LEMMA EnumeratesIs ==
  ASSUME NEW S, IsFiniteSet(S), NEW s, Enumerates(s, S)
  PROVE  /\ IsList(s) /\ Len(s) = Cardinality(S) /\ ToSet(s) = S
         /\ \A n \in DOMAIN s : s[n] \in S
         /\ \A i \in S : \E n \in DOMAIN s : s[n] = i
         /\ \A n, m \in DOMAIN s : s[n] = s[m] => n = m
<1>1. DOMAIN s = 1..Len(s) /\ Len(s) \in Nat /\ \A n \in 1..Len(s) : s[n] \in S
  BY LenProperties, ElementOfSeq DEF Enumerates
<1>2. \A i : i \in ToSet(s) <=> i \in S  BY <1>1 DEF ToSet, Enumerates
<1>3. ToSet(s) = S  BY <1>2
<1> QED  BY <1>1, <1>3 DEF Enumerates, IsList

LEMMA CssIs ==
  ASSUME NEW d, IsList(d), NEW tags, IsList(tags)
  PROVE  Enumerates(Css(d, tags), Tagged(d, tags)) /\ IsFiniteSet(Tagged(d, tags))
<1> DEFINE S == Tagged(d, tags)
           rank == [i \in S |-> Rank(tags, d[i].tag)]
           before == [i \in S |-> {j \in S :
                        rank[j] < rank[i] \/ (rank[j] = rank[i] /\ j < i)}]
<1>1. IsFiniteSet(S)
  <2>1. IsFiniteSet(1..Len(d))  BY FS_Interval DEF IsList
  <2>2. S \subseteq 1..Len(d)  BY DEF IsList, Tagged
  <2> QED  BY <2>1, <2>2, FS_Subset
<1>2. S \subseteq Nat  BY DEF IsList, Tagged
<1>3. ASSUME NEW i \in S PROVE rank[i] \in Nat
  <2>1. d[i].tag \in ToSet(tags)  BY DEF Tagged
  <2>2. PICK k \in DOMAIN tags : tags[k] = d[i].tag  BY <2>1 DEF ToSet
  <2>3. Rank(tags, d[i].tag) \in DOMAIN tags  BY <2>2 DEF Rank
  <2> QED  BY <2>3 DEF IsList
<1>4. Css(d, tags) = InOrder(before)
  <2> DEFINE b == [i \in S |->
                     {j \in S : \/ Rank(tags, d[j].tag) < Rank(tags, d[i].tag)
                                \/ Rank(tags, d[j].tag) = Rank(tags, d[i].tag) /\ j < i}]
  <2>1. Css(d, tags) = InOrder(b)  BY DEF Css, Tagged
  <2>2. \A i \in S : rank[i] = Rank(tags, d[i].tag)  OBVIOUS
  <2> HIDE DEF rank, S
  <2>3. ASSUME NEW i \in S, NEW j \in S PROVE j \in b[i] <=> j \in before[i]
    <3>1. rank[i] = Rank(tags, d[i].tag) /\ rank[j] = Rank(tags, d[j].tag)  BY <2>2
    <3>2. j \in before[i] <=> (rank[j] < rank[i] \/ (rank[i] = rank[j] /\ j < i))  OBVIOUS
    <3>3. j \in b[i] <=> (\/ Rank(tags, d[j].tag) < Rank(tags, d[i].tag)
                         \/ (Rank(tags, d[j].tag) = Rank(tags, d[i].tag) /\ j < i))
      OBVIOUS
    <3> HIDE DEF before, b
    <3> QED  BY <3>1, <3>2, <3>3
  <2>4. \A i \in S : b[i] \subseteq S /\ before[i] \subseteq S  OBVIOUS
  <2>5. \A i \in S : b[i] = before[i]
    <3> SUFFICES ASSUME NEW i \in S PROVE b[i] = before[i]  OBVIOUS
    <3> DEFINE B == b[i]  A == before[i]
    <3>1. B \subseteq S /\ A \subseteq S /\ \A j \in S : j \in B <=> j \in A  BY <2>3, <2>4
    <3> HIDE DEF A, B
    <3>2. A = B  BY <3>1
    <3> QED  BY <3>2 DEF A, B
  <2>6. b = before  BY <2>5
  <2> QED  BY <2>1, <2>6
<1> HIDE DEF rank, S
<1>5. Orders(before, S)
  <2>2. \A i \in S : before[i] \subseteq S /\ i \notin before[i]  BY <1>2, <1>3
  <2>3. ASSUME NEW i \in S, NEW j \in before[i] PROVE before[j] \subseteq before[i]
    <3>1. j \in S  OBVIOUS
    <3>2. ASSUME NEW k \in before[j] PROVE k \in before[i]  BY <1>2, <1>3, <3>1
    <3> QED  BY <3>2
  <2>4. ASSUME NEW i \in S, NEW j \in S PROVE i = j \/ i \in before[j] \/ j \in before[i]
    <3>1. i \in Nat /\ j \in Nat /\ rank[i] \in Nat /\ rank[j] \in Nat  BY <1>2, <1>3
    <3>2. /\ i \in before[j] <=> (rank[i] < rank[j] \/ (rank[i] = rank[j] /\ i < j))
          /\ j \in before[i] <=> (rank[j] < rank[i] \/ (rank[i] = rank[j] /\ j < i))
      OBVIOUS
    <3> QED  BY <3>1, <3>2
  <2>5. DOMAIN before = S  OBVIOUS
  <2> HIDE DEF before
  <2> QED  BY <2>2, <2>3, <2>4, <2>5 DEF Orders
<1> HIDE DEF before
<1>6. Enumerates(Css(d, tags), S)  BY <1>1, <1>4, <1>5, InOrderIs
<1> QED  BY <1>1, <1>6 DEF S

LEMMA LiveIs ==
  ASSUME NEW d, IsList(d), NEW tag
  PROVE  /\ Enumerates(Live(d, tag), {i \in DOMAIN d : d[i].tag = tag /\ ~d[i].hidden})
         /\ IsFiniteSet({i \in DOMAIN d : d[i].tag = tag /\ ~d[i].hidden})
<1> DEFINE S == {i \in DOMAIN d : d[i].tag = tag /\ ~d[i].hidden}
<1>1. S \subseteq 1..Len(d) /\ Len(d) \in Nat  BY DEF IsList
<1>2. IsFiniteSet(S)  BY <1>1, FS_Interval, FS_Subset
<1>3. Live(d, tag) = Ascending(S)  BY DEF Live
<1> HIDE DEF S
<1>4. Enumerates(Live(d, tag), S)  BY <1>1, <1>3, AscendingIs
<1> QED  BY <1>2, <1>4 DEF S

LEMMA DrawingsAre ==
  ASSUME NEW d, IsList(d)
  PROVE  /\ IsList(Drawings(d))
         /\ \A n \in DOMAIN Drawings(d) : Drawings(d)[n] \in DOMAIN d
<1> DEFINE S == {i \in DOMAIN d : d[i].tag = "svg" /\ d[i].usable}
<1>1. S \subseteq 1..Len(d) /\ Len(d) \in Nat /\ S \subseteq DOMAIN d  BY DEF IsList
<1>2. IsFiniteSet(S)  BY <1>1, FS_Interval, FS_Subset
<1>3. Drawings(d) = Ascending(S)  BY DEF Drawings
<1> HIDE DEF S
<1>4. Enumerates(Drawings(d), S)  BY <1>1, <1>3, AscendingIs
<1> QED  BY <1>1, <1>2, <1>4, EnumeratesIs

\* The entries of what a check reads: usable elements of its walk, each once.
LEMMA ExtractIs ==
  ASSUME NEW d, IsList(d), NEW w, IsList(w)
  PROVE  /\ \E n \in Nat : DOMAIN Extract(d, w) = 1..n
         /\ \A j \in DOMAIN Extract(d, w) : \E k \in DOMAIN w :
              /\ d[w[k]].usable
              /\ Extract(d, w)[j] = [of |-> w[k], selector |-> Selector(d[w[k]], k), html |-> d[w[k]].html]
              /\ UsableIn(d, w)[j] = k
         /\ \A j, m \in DOMAIN Extract(d, w) : UsableIn(d, w)[j] = UsableIn(d, w)[m] => j = m
<1> DEFINE S == {k \in DOMAIN w : d[w[k]].usable}  ks == UsableIn(d, w)
<1>1. S \subseteq 1..Len(w) /\ Len(w) \in Nat  BY DEF IsList
<1>2. IsFiniteSet(S)  BY <1>1, FS_Interval, FS_Subset
<1>3. ks = Ascending(S)  BY DEF UsableIn
<1>4. S \subseteq DOMAIN w /\ \A k \in S : d[w[k]].usable  OBVIOUS
<1> HIDE DEF S
<1>5. Enumerates(ks, S)  BY <1>1, <1>3, AscendingIs
<1>6. /\ IsList(ks)
      /\ \A j \in DOMAIN ks : ks[j] \in S
      /\ \A j, m \in DOMAIN ks : ks[j] = ks[m] => j = m
  BY <1>2, <1>5, EnumeratesIs
<1>7. Extract(d, w) = [j \in DOMAIN ks |->
         [of |-> w[ks[j]], selector |-> Selector(d[w[ks[j]]], ks[j]), html |-> d[w[ks[j]]].html]]
  BY DEF Extract, Called
<1> HIDE DEF ks
<1>8. DOMAIN Extract(d, w) = DOMAIN ks  BY <1>7
<1>9. \E n \in Nat : DOMAIN Extract(d, w) = 1..n  BY <1>6, <1>8 DEF IsList
<1>10. ASSUME NEW j \in DOMAIN Extract(d, w)
       PROVE  \E k \in DOMAIN w :
              /\ d[w[k]].usable
              /\ Extract(d, w)[j] = [of |-> w[k], selector |-> Selector(d[w[k]], k), html |-> d[w[k]].html]
              /\ ks[j] = k
  <2>1. ks[j] \in DOMAIN w /\ d[w[ks[j]]].usable  BY <1>4, <1>6, <1>8
  <2>2. Extract(d, w)[j] =
          [of |-> w[ks[j]], selector |-> Selector(d[w[ks[j]]], ks[j]), html |-> d[w[ks[j]]].html]
    BY <1>7, <1>8
  <2> QED  BY <2>1, <2>2
<1> QED  BY <1>6, <1>8, <1>9, <1>10 DEF ks

\* An element that a browser counts is found again at its place.
LEMMA PlaceOfIs ==
  ASSUME NEW d, IsList(d), NEW i \in DOMAIN d, ~d[i].hidden
  PROVE  /\ PlaceOf(d, i) # NoPlace /\ PlaceOf(d, i).tag = d[i].tag
         /\ PlaceOf(d, i).total = Len(Live(d, d[i].tag))
         /\ Live(d, d[i].tag)[PlaceOf(d, i).index] = i
<1> DEFINE live == Live(d, d[i].tag)
           S == {j \in DOMAIN d : d[j].tag = d[i].tag /\ ~d[j].hidden}
<1>1. Enumerates(live, S) /\ IsFiniteSet(S)  BY LiveIs
<1>2. i \in S  OBVIOUS
<1>3. PlaceOf(d, i) = PlaceAmong(live, d[i].tag, i)  BY DEF PlaceOf
<1> HIDE DEF live, S
<1>4. \E n \in DOMAIN live : live[n] = i  BY <1>1, <1>2, EnumeratesIs
<1> DEFINE n == CHOOSE n \in DOMAIN live : live[n] = i
<1>5. live[n] = i  BY <1>4
<1>6. PlaceAmong(live, d[i].tag, i) = [tag |-> d[i].tag, total |-> Len(live), index |-> n]
  BY DEF PlaceAmong
<1> HIDE DEF n
<1>7. PlaceOf(d, i) = [tag |-> d[i].tag, total |-> Len(live), index |-> n]  BY <1>3, <1>6
<1>8. PlaceOf(d, i) # NoPlace
  <2>1. "total" \in DOMAIN PlaceOf(d, i) /\ "total" \notin DOMAIN NoPlace  BY <1>7 DEF NoPlace
  <2> QED  BY <2>1
<1> QED  BY <1>5, <1>7, <1>8 DEF live

LEMMA ByPlaceFinds ==
  ASSUME NEW d, IsList(d), NEW i \in DOMAIN d, ~d[i].hidden
  PROVE  ByPlace(PlaceOf(d, i), d[i].html, d) = Found(i)
<1> DEFINE place == PlaceOf(d, i)  html == d[i].html
<1>1. /\ place # NoPlace /\ place.tag = d[i].tag /\ place.total = Len(Live(d, place.tag))
      /\ Live(d, place.tag)[place.index] = i
  BY PlaceOfIs
<1> HIDE DEF place
<1>2. ByPlace(place, html, d) =
        AtPlace(place, Live(d, place.tag), d, LAMBDA e : e.html = html)
  BY <1>1 DEF ByPlace
<1>3. AtPlace(place, Live(d, place.tag), d, LAMBDA e : e.html = html) = Found(i)
  BY <1>1 DEF AtPlace
<1> QED  BY <1>2, <1>3 DEF place

LEMMA OnlyIs ==
  ASSUME NEW S, NEW i \in S
  PROVE  Only(S) = Found(i) \/ (Only(S).found = "ambiguous" /\ Only(S).found # "found")
<1>1. CASE \E j \in S : S = {j}
  <2>1. S = {i}  BY <1>1
  <2> QED  BY <2>1 DEF Only, Found
<1>2. CASE ~ \E j \in S : S = {j}
  BY <1>2 DEF Only
<1> QED  BY <1>1, <1>2

LEMMA OnlyFinds ==
  ASSUME NEW S, Only(S).found = "found" PROVE Only(S).at \in S
<1>1. S # {}  BY DEF Only, NotFound
<1>2. \E i \in S : S = {i}  BY <1>1 DEF Only
<1>3. Only(S) = Found(CHOOSE i \in S : TRUE)  BY <1>1, <1>2 DEF Only
<1>4. (CHOOSE i \in S : TRUE) \in S  BY <1>1
<1> QED  BY <1>3, <1>4 DEF Found

\* What the browser counts of a tag.
LEMMA LiveHas ==
  ASSUME NEW d, IsList(d), NEW tag
  PROVE  ToSet(Live(d, tag)) = {i \in DOMAIN d : d[i].tag = tag /\ ~d[i].hidden}
<1> DEFINE S == {i \in DOMAIN d : d[i].tag = tag /\ ~d[i].hidden}
<1>1. Enumerates(Live(d, tag), S) /\ IsFiniteSet(S)  BY LiveIs
<1> HIDE DEF S
<1>2. ToSet(Live(d, tag)) = S  BY <1>1, EnumeratesIs
<1> QED  BY <1>2 DEF S

\* An element of a walk is found again in its own document, unless others
\* have its markup and its id.
LEMMA LocateFinds ==
  ASSUME NEW c, NEW d, IsList(d), NEW k \in DOMAIN Walk(c, d), 0 \notin DOMAIN Walk(c, d),
         Walk(c, d)[k] \in DOMAIN d, ~d[Walk(c, d)[k]].hidden, k # 0
  PROVE  LET i == Walk(c, d)[k]
             at == Locate(c, Selector(d[i], k), d[i].html, d)
         IN at = Found(i) \/ (Selector(d[i], k).ord = 0 /\ at.found = "ambiguous")
<1> DEFINE w == Walk(c, d)  i == w[k]  sel == Selector(d[i], k)  html == d[i].html
           byPlace == ByPlace(LocateOrdinal(sel, html, d, w), html, d)
           byLocator == ByLocator(sel, html, d)  byMarkup == ByMarkup(sel, html, d)
<1>1. Locate(c, sel, html, d) = FirstOf(byPlace, byLocator, byMarkup)  BY DEF Locate
<1>2. sel = [tag |-> d[i].tag, id |-> d[i].id, ord |-> IF d[i].id = NoId THEN k ELSE 0]
  BY DEF Selector
<1>3. /\ sel.tag = d[i].tag /\ sel.id = d[i].id
      /\ d[i].id = NoId => sel.ord = k
      /\ d[i].id # NoId => sel.ord = 0
  BY <1>2
<1> HIDE DEF sel
<1>4. Found(i).found = "found"  BY DEF Found
<1>5. CASE d[i].id = NoId
  <2>1. LocateOrdinal(sel, html, d, w) = PlaceOf(d, i)  BY <1>3, <1>5 DEF LocateOrdinal
  <2>2. byPlace = Found(i)  BY <2>1, ByPlaceFinds
  <2>3. FirstOf(byPlace, byLocator, byMarkup) = Found(i)  BY <1>4, <2>2 DEF FirstOf
  <2> QED  BY <1>1, <2>3 DEF sel
<1>6. CASE d[i].id # NoId
  <2>1. LocateOrdinal(sel, html, d, w) = NoPlace  BY <1>3, <1>6 DEF LocateOrdinal
  <2>2. byPlace = NotFound  BY <2>1 DEF ByPlace
  <2> DEFINE S == {j \in ToSet(Live(d, sel.tag)) : d[j].id = sel.id /\ d[j].html = html}
             T == {j \in ToSet(Live(d, sel.tag)) : d[j].html = html}
  <2>3. i \in ToSet(Live(d, sel.tag))  BY <1>3, LiveHas
  <2>4. i \in S /\ i \in T  BY <1>3, <2>3
  <2>5. byLocator = Only(S)  BY <1>3, <1>6 DEF ByLocator
  <2>6. byMarkup = Only(T)  BY DEF ByMarkup
  <2> HIDE DEF S, T
  <2>7. byLocator = Found(i) \/ (byLocator.found = "ambiguous" /\ byLocator.found # "found")
    BY <2>4, <2>5, OnlyIs
  <2>8. byMarkup = Found(i) \/ byMarkup.found = "ambiguous"
    BY <2>4, <2>6, OnlyIs
  <2> HIDE DEF byPlace, byLocator, byMarkup
  <2>9. byPlace.found # "found"  BY <2>2 DEF NotFound
  <2>10. FirstOf(byPlace, byLocator, byMarkup) = Found(i)
           \/ FirstOf(byPlace, byLocator, byMarkup).found = "ambiguous"
    BY <1>4, <2>7, <2>8, <2>9 DEF FirstOf
  <2>11. sel.ord = 0  BY <1>3, <1>6
  <2> QED  BY <1>1, <2>10, <2>11 DEF sel
<1> QED  BY <1>5, <1>6

\* What is outlined of a finding has its markup, whatever has become of the page.
LEMMA LocateMeans ==
  ASSUME NEW c, NEW d, IsList(d), NEW selector, NEW html,
         \A k \in DOMAIN Walk(c, d) : Walk(c, d)[k] \in DOMAIN d,
         Locate(c, selector, html, d).found = "found"
  PROVE  LET at == Locate(c, selector, html, d).at
         IN d[at].html = html /\ ~d[at].hidden
<1> DEFINE place == LocateOrdinal(selector, html, d, Walk(c, d))
           byPlace == ByPlace(place, html, d)
           byLocator == ByLocator(selector, html, d)  byMarkup == ByMarkup(selector, html, d)
           at == Locate(c, selector, html, d)
<1>1. at = FirstOf(byPlace, byLocator, byMarkup)  BY DEF Locate
<1>2. ASSUME byPlace.found = "found"
      PROVE  d[byPlace.at].html = html /\ ~d[byPlace.at].hidden
  <2>1. place # NoPlace  BY <1>2 DEF ByPlace, NotFound
  <2> DEFINE k == selector.ord  i == Walk(c, d)[k]
  <2>2. k \in DOMAIN Walk(c, d) /\ d[i].html = html /\ place = PlaceOf(d, i)
    BY <2>1 DEF LocateOrdinal
  <2>3. i \in DOMAIN d  BY <2>2
  <2>4. ~d[i].hidden  BY <2>1, <2>2 DEF PlaceOf
  <2> HIDE DEF i, k, place
  <2>5. byPlace = Found(i)  BY <2>2, <2>3, <2>4, ByPlaceFinds
  <2> QED  BY <2>2, <2>4, <2>5 DEF Found
<1>3. ASSUME byLocator.found = "found"
      PROVE  d[byLocator.at].html = html /\ ~d[byLocator.at].hidden
  <2> DEFINE S == {i \in ToSet(Live(d, selector.tag)) : d[i].id = selector.id /\ d[i].html = html}
  <2>1. byLocator = Only(S)  BY <1>3 DEF ByLocator, NotFound
  <2>2. byLocator.at \in S  BY <1>3, <2>1, OnlyFinds
  <2> QED  BY <2>2, LiveHas
<1>4. ASSUME byMarkup.found = "found"
      PROVE  d[byMarkup.at].html = html /\ ~d[byMarkup.at].hidden
  <2> DEFINE S == {i \in ToSet(Live(d, selector.tag)) : d[i].html = html}
  <2>1. byMarkup = Only(S)  BY DEF ByMarkup
  <2>2. byMarkup.at \in S  BY <1>4, <2>1, OnlyFinds
  <2> QED  BY <2>2, LiveHas
<1> HIDE DEF byPlace, byLocator, byMarkup
<1>5. at = byPlace \/ at = byLocator \/ at = byMarkup  BY <1>1 DEF FirstOf
<1> QED  BY <1>2, <1>3, <1>4, <1>5

LEMMA ListIsFinite == ASSUME NEW s, IsList(s) PROVE IsFiniteSet(DOMAIN s)
<1>1. DOMAIN s = 1..Len(s) /\ Len(s) \in Nat  BY DEF IsList
<1>2. IsFiniteSet(1..Len(s))  BY <1>1, FS_Interval
<1> QED  BY <1>1, <1>2

\* The images of a document: each is of an element, which has its address.
LEMMA RefsAre ==
  ASSUME NEW d, IsDocument(d)
  PROVE  /\ \E n \in Nat : DOMAIN Refs(d) = 1..n
         /\ \A m \in DOMAIN Refs(d) :
              Refs(d)[m].of \in DOMAIN d /\ Refs(d)[m].candidate \subseteq ToSet(d[Refs(d)[m].of].urls)
<1> DEFINE tags == <<"img", "source">>  w == Css(d, tags)  T == Tagged(d, tags)
           S == UNION {{k} \X DOMAIN d[w[k]].urls : k \in DOMAIN w}
           before == [x \in S |-> {y \in S : y[1] < x[1] \/ (y[1] = x[1] /\ y[2] < x[2])}]
           all == InOrder(before)
<1>1. IsList(d) /\ \A i \in DOMAIN d : IsList(d[i].urls)  BY DEF IsDocument, IsElement
<1>2. IsList(tags)  BY DEF IsList
<1>3. Enumerates(w, T) /\ IsFiniteSet(T)  BY <1>1, <1>2, CssIs
<1>4. IsList(w) /\ \A k \in DOMAIN w : w[k] \in T  BY <1>3, EnumeratesIs
<1>5. T \subseteq DOMAIN d  BY DEF Tagged
<1>6. \A k \in DOMAIN w : k \in Nat /\ w[k] \in DOMAIN d /\ IsList(d[w[k]].urls)
  BY <1>1, <1>4, <1>5 DEF IsList
<1>7. Refs(d) = [m \in DOMAIN all |->
         [of |-> w[all[m][1]], candidate |-> {d[w[all[m][1]]].urls[all[m][2]]}]]
  BY DEF Refs, RefsAmong
<1> HIDE DEF w, T, tags
<1>8. IsFiniteSet(S)
  <2> DEFINE F == {{k} \X DOMAIN d[w[k]].urls : k \in DOMAIN w}
  <2>1. IsFiniteSet(DOMAIN w)  BY <1>4, ListIsFinite
  <2>2. IsFiniteSet(F)
    <3> DEFINE f == [k \in DOMAIN w |-> {k} \X DOMAIN d[w[k]].urls]
    <3>1. f \in Surjection(DOMAIN w, F)
      <4>1. f \in [DOMAIN w -> F]  OBVIOUS
      <4>2. \A t \in F : \E k \in DOMAIN w : f[k] = t  OBVIOUS
      <4> QED  BY <4>1, <4>2 DEF Surjection
    <3> QED  BY <2>1, <3>1, FS_Surjection
  <2>3. ASSUME NEW A \in F PROVE IsFiniteSet(A)
    <3>1. PICK k \in DOMAIN w : A = {k} \X DOMAIN d[w[k]].urls  OBVIOUS
    <3> DEFINE U == DOMAIN d[w[k]].urls
    <3>2. IsFiniteSet(U)  BY <1>6, ListIsFinite
    <3>3. IsFiniteSet({k})  BY FS_Singleton
    <3> HIDE DEF U
    <3>4. IsFiniteSet({k} \X U)  BY <3>2, <3>3, FS_Product
    <3> QED  BY <3>1, <3>4 DEF U
  <2> HIDE DEF F
  <2>4. IsFiniteSet(UNION F)  BY <2>2, <2>3, FS_UNION
  <2> QED  BY <2>4 DEF F
<1>9. \A x \in S : x[1] \in DOMAIN w /\ x[2] \in DOMAIN d[w[x[1]]].urls /\ x = <<x[1], x[2]>>
  OBVIOUS
<1>10. \A x \in S : x[1] \in Nat /\ x[2] \in Nat  BY <1>6, <1>9 DEF IsList
<1>11. \A x, y \in S : x[1] = y[1] /\ x[2] = y[2] => x = y  BY <1>9
<1> HIDE DEF S
<1>12. Orders(before, S)
  <2>1. \A i \in S : before[i] \subseteq S /\ i \notin before[i]  BY <1>10
  <2>2. ASSUME NEW i \in S, NEW j \in before[i] PROVE before[j] \subseteq before[i]
    <3>1. j \in S  OBVIOUS
    <3>2. ASSUME NEW k \in before[j] PROVE k \in before[i]  BY <1>10, <3>1
    <3> QED  BY <3>2
  <2>3. ASSUME NEW i \in S, NEW j \in S PROVE i = j \/ i \in before[j] \/ j \in before[i]
    <3>1. i[1] \in Nat /\ j[1] \in Nat /\ i[2] \in Nat /\ j[2] \in Nat  BY <1>10
    <3>2. /\ i \in before[j] <=> (i[1] < j[1] \/ (i[1] = j[1] /\ i[2] < j[2]))
          /\ j \in before[i] <=> (j[1] < i[1] \/ (j[1] = i[1] /\ j[2] < i[2]))
      OBVIOUS
    <3> QED  BY <1>11, <3>1, <3>2
  <2>4. DOMAIN before = S  OBVIOUS
  <2> HIDE DEF before
  <2> QED  BY <2>1, <2>2, <2>3, <2>4 DEF Orders
<1> HIDE DEF before
<1>13. IsList(all) /\ \A m \in DOMAIN all : all[m] \in S  BY <1>8, <1>12, InOrderIs, EnumeratesIs
<1> HIDE DEF all
<1>14. DOMAIN Refs(d) = DOMAIN all  BY <1>7
<1>15. ASSUME NEW m \in DOMAIN Refs(d)
       PROVE  Refs(d)[m].of \in DOMAIN d /\ Refs(d)[m].candidate \subseteq ToSet(d[Refs(d)[m].of].urls)
  <2> DEFINE x == all[m]  i == w[x[1]]  u == d[i].urls
  <2>1. x[1] \in DOMAIN w /\ x[2] \in DOMAIN u  BY <1>9, <1>13, <1>14
  <2>2. Refs(d)[m] = [of |-> i, candidate |-> {u[x[2]]}]  BY <1>7, <1>14
  <2>3. i \in DOMAIN d  BY <1>6, <2>1
  <2>4. u[x[2]] \in ToSet(u)  BY <2>1 DEF ToSet
  <2> HIDE DEF x, i
  <2> QED  BY <2>2, <2>3, <2>4
<1> QED  BY <1>13, <1>14, <1>15 DEF IsList

LEMMA ImagesAre ==
  ASSUME NEW d, IsDocument(d)
  PROVE  \A m \in DOMAIN ImagesOf(Refs(d), Drawings(d)) :
           LET image == ImagesOf(Refs(d), Drawings(d))[m]
           IN image.of \in DOMAIN d /\ image.candidate \subseteq ToSet(d[image.of].urls)
<1> DEFINE a == Refs(d)  ds == Drawings(d)
           b == [n \in DOMAIN ds |-> [of |-> ds[n], candidate |-> {}]]
           all == ImagesOf(a, ds)
           Fit(x) == x.of \in DOMAIN d /\ x.candidate \subseteq ToSet(d[x.of].urls)
           A == {a[m] : m \in DOMAIN a}  B == {b[n] : n \in DOMAIN b}
<1>1. (\E n \in Nat : DOMAIN a = 1..n) /\ \A m \in DOMAIN a : Fit(a[m])  BY RefsAre
<1>2. IsList(ds) /\ \A n \in DOMAIN ds : ds[n] \in DOMAIN d  BY DrawingsAre DEF IsDocument
<1>3. all = a \o b  BY DEF ImagesOf
<1>4. \A n \in DOMAIN b : Fit(b[n])  BY <1>2
<1>5. DOMAIN b = DOMAIN ds  OBVIOUS
<1>6. PICK n1 \in Nat : DOMAIN a = 1..n1  BY <1>1
<1>7. PICK n2 \in Nat : DOMAIN b = 1..n2  BY <1>2, <1>5 DEF IsList
<1>8. a = [m \in 1..n1 |-> a[m]]  BY <1>6 DEF Refs, RefsAmong
<1>9. b = [n \in 1..n2 |-> b[n]]  BY <1>7
<1> HIDE DEF a, b, all, Fit
<1> DEFINE R == A \cup B
<1>10. \A x \in R : Fit(x)  BY <1>1, <1>4
<1>11. a \in [1..n1 -> R] /\ b \in [1..n2 -> R]  BY <1>6, <1>7, <1>8, <1>9
<1> HIDE DEF R
<1>12. a \in Seq(R) /\ b \in Seq(R)  BY <1>11, SeqDef
<1>13. /\ all \in Seq(R) /\ DOMAIN all = 1..Len(all)
       /\ \A m \in DOMAIN all : all[m] \in R
  <2>1. all \in Seq(R)  BY <1>3, <1>12, ConcatProperties
  <2>2. DOMAIN all = 1..Len(all)  BY <2>1, LenProperties
  <2> QED  BY <2>1, <2>2, ElementOfSeq
<1>14. \A m \in DOMAIN all : Fit(all[m])  BY <1>10, <1>13
<1> QED  BY <1>14 DEF Fit, all, a

LEMMA ImageFinds ==
  ASSUME NEW d, IsDocument(d), NEW o \in Occurrences(d), ~d[o.of].hidden,
         NEW r, r.position = o.position, r.alt = o.alt
  PROVE  LocateImage(r, d) = Found(o.of)
<1> DEFINE all == ImagesOf(Refs(d), Drawings(d))
<1>1. PICK p \in DOMAIN all : o = [position |-> p, alt |-> d[all[p].of].alt, of |-> all[p].of]
  BY DEF Occurrences, Occurring
<1>2. all[p].of \in DOMAIN d /\ all[p].candidate \subseteq ToSet(d[all[p].of].urls)
  BY ImagesAre
<1> DEFINE i == all[p].of  place == PlaceOf(d, i)  l == ImageLocator(r, d, all)
<1>3. r.position = p /\ r.alt = d[i].alt /\ o.of = i /\ i \in DOMAIN d /\ ~d[i].hidden
  BY <1>1, <1>2
<1>4. l = [kind |-> d[i].tag, place |-> place, alt |-> d[i].alt, candidate |-> all[p].candidate]
  BY <1>3 DEF ImageLocator
<1>5. LocateImage(r, d) = AtLocator(l, d)  BY DEF LocateImage
<1> HIDE DEF l, i, place
<1>6. l \notin {NoLocator, InCopyOnly}
  <2>1. "place" \in DOMAIN l /\ "place" \notin DOMAIN NoLocator /\ "place" \notin DOMAIN InCopyOnly
    BY <1>4 DEF NoLocator, InCopyOnly
  <2> QED  BY <2>1
<1>7. AtLocator(l, d) = AtPlace(l.place, Live(d, l.kind), d,
               LAMBDA e : l.candidate \subseteq ToSet(e.urls) /\ e.alt = l.alt)
  BY <1>6 DEF AtLocator
<1>8. /\ l.place = place /\ l.kind = d[i].tag /\ l.alt = d[i].alt
      /\ l.candidate \subseteq ToSet(d[i].urls)
  BY <1>2, <1>4 DEF i
<1>9. place.total = Len(Live(d, d[i].tag)) /\ Live(d, d[i].tag)[place.index] = i
  BY <1>3, PlaceOfIs DEF place, IsDocument
<1>10. AtPlace(l.place, Live(d, l.kind), d,
               LAMBDA e : l.candidate \subseteq ToSet(e.urls) /\ e.alt = l.alt) = Found(i)
  BY <1>8, <1>9 DEF AtPlace
<1> QED  BY <1>3, <1>5, <1>7, <1>10

LEMMA ImageMeans ==
  ASSUME NEW d, NEW r, LocateImage(r, d).found = "found"
  PROVE  d[LocateImage(r, d).at].alt = r.alt
<1> DEFINE all == ImagesOf(Refs(d), Drawings(d))  l == ImageLocator(r, d, all)
<1>1. LocateImage(r, d) = AtLocator(l, d)  BY DEF LocateImage
<1>2. l \notin {NoLocator, InCopyOnly}
  BY <1>1 DEF AtLocator, NotFound
<1>3. l.alt = r.alt  BY <1>2 DEF ImageLocator
<1> HIDE DEF l
<1>4. AtLocator(l, d) = AtPlace(l.place, Live(d, l.kind), d,
               LAMBDA e : l.candidate \subseteq ToSet(e.urls) /\ e.alt = l.alt)
  BY <1>2 DEF AtLocator
<1>5. AtPlace(l.place, Live(d, l.kind), d,
              LAMBDA e : l.candidate \subseteq ToSet(e.urls) /\ e.alt = l.alt).found = "found"
  BY <1>1, <1>4
<1> DEFINE j == Live(d, l.kind)[l.place.index]
<1>6. /\ AtPlace(l.place, Live(d, l.kind), d,
              LAMBDA e : l.candidate \subseteq ToSet(e.urls) /\ e.alt = l.alt) = Found(j)
      /\ d[j].alt = l.alt
  BY <1>5 DEF AtPlace, NotFound
<1> QED  BY <1>1, <1>3, <1>4, <1>6 DEF Found

LEMMA WalkIs ==
  ASSUME NEW c \in Sc, NEW d, IsDocument(d)
  PROVE  /\ IsList(Walk(c, d)) /\ \A k \in DOMAIN Walk(c, d) : Walk(c, d)[k] \in DOMAIN d
         /\ \A k, m \in DOMAIN Walk(c, d) : Walk(c, d)[k] = Walk(c, d)[m] => k = m
<1> DEFINE T == Tagged(d, Walks[c])  w == Walk(c, d)
<1>1. IsList(d)  BY DEF IsDocument
<1>2. IsList(Walks[c])  BY LanguageAssumption
<1>3. Enumerates(w, T) /\ IsFiniteSet(T)  BY <1>1, <1>2, CssIs DEF Walk
<1>4. T \subseteq DOMAIN d  BY DEF Tagged
<1> HIDE DEF w, T
<1>5. IsList(w) /\ \A k \in DOMAIN w : w[k] \in T  BY <1>3, EnumeratesIs
<1>6. \A k, m \in DOMAIN w : w[k] = w[m] => k = m  BY <1>3, EnumeratesIs
<1> QED  BY <1>4, <1>5, <1>6 DEF w

\* The element that an entry of a list is of, and its number in the walk.
Entry(c, d, n, k) ==
  /\ k \in DOMAIN Walk(c, d) /\ d[Walk(c, d)[k]].usable
  /\ Lists[c][d][n] = [of |-> Walk(c, d)[k], selector |-> Selector(d[Walk(c, d)[k]], k),
                       html |-> d[Walk(c, d)[k]].html]

LEMMA ListsAre ==
  ASSUME NEW c \in Sc, NEW d \in Documents
  PROVE  /\ \A n \in DOMAIN Lists[c][d] : \E k \in DOMAIN Walk(c, d) : Entry(c, d, n, k)
         /\ \A n, m \in DOMAIN Lists[c][d] : Lists[c][d][n].of = Lists[c][d][m].of => n = m
<1> DEFINE w == Walk(c, d)  all == Extract(d, w)  len == IF Len(all) < MostSent THEN Len(all) ELSE MostSent
           list == Lists[c][d]  ks == UsableIn(d, w)
<1>1. IsDocument(d) /\ IsList(d)  BY DocumentsAssumption DEF IsDocument
<1>2. /\ IsList(w) /\ \A k \in DOMAIN w : w[k] \in DOMAIN d
      /\ \A k, m \in DOMAIN w : w[k] = w[m] => k = m
  BY <1>1, WalkIs
<1>3. /\ \E n \in Nat : DOMAIN all = 1..n
      /\ \A j \in DOMAIN all : \E k \in DOMAIN w :
              /\ d[w[k]].usable
              /\ all[j] = [of |-> w[k], selector |-> Selector(d[w[k]], k), html |-> d[w[k]].html]
              /\ ks[j] = k
      /\ \A j, m \in DOMAIN all : ks[j] = ks[m] => j = m
  BY <1>1, <1>2, ExtractIs
<1>4. list = SubSeq(all, 1, len)  BY DEF Lists
<1>5. all = [j \in DOMAIN all |-> all[j]]  BY DEF Extract, Called
<1>6. MostSent \in Nat  BY LanguageAssumption
<1> HIDE DEF w, all, ks, list
<1> DEFINE R == {all[j] : j \in DOMAIN all}
<1>7. PICK n1 \in Nat : DOMAIN all = 1..n1  BY <1>3
<1>8. all \in Seq(R)
  <2>1. all \in [1..n1 -> R]  BY <1>5, <1>7
  <2> QED  BY <2>1, SeqDef
<1>9. DOMAIN all = 1..Len(all) /\ Len(all) \in Nat  BY <1>8, LenProperties
<1>10. len \in Nat /\ len <= Len(all)  BY <1>6, <1>9
<1> HIDE DEF len
<1>11. \A j \in 1..len : j \in DOMAIN all /\ all[j] \in R  BY <1>9, <1>10
<1>12. list \in Seq(R) /\ Len(list) = len /\ \A j \in 1..len : list[j] = all[j]
  <2>1. /\ SubSeq(all, 1, len) \in Seq(R)
        /\ Len(SubSeq(all, 1, len)) = IF 1 <= len THEN len - 1 + 1 ELSE 0
        /\ \A j \in 1..(len - 1 + 1) : SubSeq(all, 1, len)[j] = all[1 + j - 1]
    BY <1>10, <1>11, SubSeqProperties
  <2>2. len - 1 + 1 = len /\ (IF 1 <= len THEN len - 1 + 1 ELSE 0) = len  BY <1>10
  <2>3. \A j \in 1..len : 1 + j - 1 = j  BY <1>10
  <2> QED  BY <1>4, <2>1, <2>2, <2>3
<1>13. DOMAIN list = 1..len  BY <1>12, LenProperties
<1>14. ASSUME NEW n \in DOMAIN list PROVE \E k \in DOMAIN w : Entry(c, d, n, k)
  <2>1. n \in DOMAIN all /\ list[n] = all[n]  BY <1>11, <1>12, <1>13
  <2>2. PICK k \in DOMAIN w :
              /\ d[w[k]].usable
              /\ all[n] = [of |-> w[k], selector |-> Selector(d[w[k]], k), html |-> d[w[k]].html]
    BY <1>3, <2>1
  <2>3. Entry(c, d, n, k)  BY <2>1, <2>2 DEF Entry, w, list
  <2> QED  BY <2>3
<1>15. ASSUME NEW n \in DOMAIN list, NEW m \in DOMAIN list, list[n].of = list[m].of PROVE n = m
  <2>1. n \in DOMAIN all /\ list[n] = all[n] /\ m \in DOMAIN all /\ list[m] = all[m]
    BY <1>11, <1>12, <1>13
  <2>2. PICK k \in DOMAIN w :
              /\ d[w[k]].usable
              /\ all[n] = [of |-> w[k], selector |-> Selector(d[w[k]], k), html |-> d[w[k]].html]
              /\ ks[n] = k
    BY <1>3, <2>1
  <2>3. PICK i \in DOMAIN w :
              /\ d[w[i]].usable
              /\ all[m] = [of |-> w[i], selector |-> Selector(d[w[i]], i), html |-> d[w[i]].html]
              /\ ks[m] = i
    BY <1>3, <2>1
  <2>4. w[k] = w[i]
    <3>1. all[n].of = w[k]  BY <2>2
    <3>2. all[m].of = w[i]  BY <2>3
    <3> QED  BY <1>15, <2>1, <3>1, <3>2
  <2>5. k = i  BY <1>2, <2>4
  <2> QED  BY <1>3, <2>1, <2>2, <2>3, <2>5
<1> QED  BY <1>14, <1>15 DEF w, list

\* The list that a check sends names no element twice, and says of each what it
\* is (extract_links, extract_headings).
ListsFit ==
  \A c \in Sc, d \in Documents : \A n, m \in DOMAIN Lists[c][d] :
    /\ d[Lists[c][d][n].of].usable /\ Lists[c][d][n].html = d[Lists[c][d][n].of].html
    /\ Lists[c][d][n].of = Lists[c][d][m].of => n = m

LEMMA ListsHold == ListsFit
<1> SUFFICES ASSUME NEW c \in Sc, NEW d \in Documents,
                    NEW n \in DOMAIN Lists[c][d], NEW m \in DOMAIN Lists[c][d]
    PROVE  /\ d[Lists[c][d][n].of].usable /\ Lists[c][d][n].html = d[Lists[c][d][n].of].html
           /\ Lists[c][d][n].of = Lists[c][d][m].of => n = m
  BY DEF ListsFit
<1>1. PICK k \in DOMAIN Walk(c, d) : Entry(c, d, n, k)  BY ListsAre
<1>2. Lists[c][d][n].of = Walk(c, d)[k] /\ Lists[c][d][n].html = d[Walk(c, d)[k]].html
  BY <1>1 DEF Entry
<1> QED  BY <1>1, <1>2, ListsAre DEF Entry

Doing == {"off", "waiting", "asking", "failed", "done"}

\* Every permit that is not free is one check's that asks.
PermitsFit == running \in [Sc -> Doing] /\ permits \in Nat /\ PermitsReturn

\* A check that runs has a document, and what it made is of its list.
MadeFits ==
  /\ DOMAIN made = Sc /\ DOMAIN named = Sc
  /\ \A c \in Sc : running[c] # "off" \/ made[c] # {} => document \in Documents
  /\ \A c \in Sc : \A f \in made[c] : f.of \in named[c] /\ \E n \in DOMAIN Sent(c) : f = Sent(c)[n]

LanguageIInv == PermitsFit /\ MadeFits

LEMMA AskingIs == ASSUME running \in [Sc -> Doing] PROVE Asking \subseteq Sc /\ IsFiniteSet(Asking) /\ Cardinality(Asking) \in Nat
<1>1. Asking \subseteq Sc  BY DEF Asking
<1>2. IsFiniteSet(Sc)  BY LanguageAssumption
<1>3. IsFiniteSet(Asking)  BY <1>1, <1>2, FS_Subset
<1> QED  BY <1>1, <1>3, FS_CardinalityType

LEMMA FewAsk == ASSUME running \in [Sc -> Doing], permits \in Nat, PermitsReturn
  PROVE  permits \in 0..Permits
<1>1. Cardinality(Asking) \in Nat  BY AskingIs
<1>2. Permits \in Nat  BY LanguageAssumption
<1> QED  BY <1>1, <1>2 DEF PermitsReturn

LEMMA LanguageInitHolds == LanguageInit => LanguageIInv
<1> SUFFICES ASSUME LanguageInit PROVE LanguageIInv
  OBVIOUS
<1>1. running \in [Sc -> Doing] /\ permits = Permits /\ Permits \in Nat
  BY LanguageAssumption DEF LanguageInit, Doing
<1>2. Asking = {}  BY DEF Asking, LanguageInit
<1>3. Cardinality(Asking) = 0  BY <1>2, FS_EmptySet
<1>4. PermitsFit  BY <1>1, <1>3 DEF PermitsFit, PermitsReturn
<1>5. MadeFits  BY DEF MadeFits, LanguageInit
<1> QED  BY <1>4, <1>5 DEF LanguageIInv

\* A check begins or ceases to ask, and takes or returns a permit.
LEMMA PermitTaken ==
  ASSUME PermitsFit, NEW c \in Sc, running[c] # "asking", permits > 0, permits' = permits - 1,
         running' = [running EXCEPT ![c] = "asking"]
  PROVE  PermitsFit'
<1>1. running' \in [Sc -> Doing]  BY DEF PermitsFit, Doing
<1>2. Asking' = Asking \cup {c}  BY DEF PermitsFit, Asking
<1>3. c \notin Asking  BY DEF Asking
<1>4. Cardinality(Asking') = Cardinality(Asking) + 1
  BY <1>2, <1>3, AskingIs, FS_AddElement DEF PermitsFit
<1>5. Cardinality(Asking) \in Nat  BY AskingIs DEF PermitsFit
<1>6. Permits \in Nat  BY LanguageAssumption
<1> QED  BY <1>1, <1>4, <1>5, <1>6 DEF PermitsFit, PermitsReturn

LEMMA PermitReturned ==
  ASSUME PermitsFit, NEW c \in Asking, NEW end \in {"failed", "done"}, permits' = permits + 1,
         running' = [running EXCEPT ![c] = end]
  PROVE  PermitsFit'
<1>1. running' \in [Sc -> Doing]  BY DEF PermitsFit, Doing
<1>2. c \in Sc  BY DEF Asking
<1>3. Asking' = Asking \ {c}  BY <1>2 DEF PermitsFit, Asking
<1>4. Cardinality(Asking') = Cardinality(Asking) - 1
  BY <1>3, AskingIs, FS_RemoveElement DEF PermitsFit
<1>5. Cardinality(Asking) \in Nat  BY AskingIs DEF PermitsFit
<1>6. Permits \in Nat  BY LanguageAssumption
<1> QED  BY <1>1, <1>4, <1>5, <1>6 DEF PermitsFit, PermitsReturn

\* No check asks: after a cut, and while none has begun.
LEMMA AllReturned ==
  ASSUME running' \in [Sc -> Doing], \A c \in Sc : running'[c] # "asking", permits' = Permits
  PROVE  PermitsFit'
<1>1. Asking' = {}  BY DEF Asking
<1>2. Cardinality(Asking') = 0  BY <1>1, FS_EmptySet
<1>3. Permits \in Nat  BY LanguageAssumption
<1> QED  BY <1>2, <1>3 DEF PermitsFit, PermitsReturn

LEMMA NoneAsks ==
  ASSUME PermitsFit, \A c \in Sc : running[c] # "asking"  PROVE permits = Permits
<1>1. Asking = {}  BY DEF Asking
<1>2. Cardinality(Asking) = 0  BY <1>1, FS_EmptySet
<1> QED  BY <1>2 DEF PermitsFit, PermitsReturn

\* The answer's findings are entries of the list that it named.
LEMMA ParseIs ==
  ASSUME NEW c \in Sc, NEW answer
  PROVE  \A f \in Parse(c, answer) :
           /\ \E n \in DOMAIN Sent(c) : f = Sent(c)[n]
           /\ f.of \in {Sent(c)[answer[i].number].of :
                          i \in {j \in DOMAIN answer : answer[j].number \in DOMAIN Sent(c)}}
<1> SUFFICES ASSUME NEW f \in Parse(c, answer)
    PROVE  /\ \E n \in DOMAIN Sent(c) : f = Sent(c)[n]
           /\ f.of \in {Sent(c)[answer[i].number].of :
                          i \in {j \in DOMAIN answer : answer[j].number \in DOMAIN Sent(c)}}
  OBVIOUS
<1>1. PICK i \in Kept(c, answer) : f = Sent(c)[answer[i].number]  BY DEF Parse
<1>2. i \in DOMAIN answer /\ answer[i].number \in DOMAIN Sent(c)  BY DEF Kept, Counts
<1> QED  BY <1>1, <1>2

LEMMA LanguageNextHolds == LanguageIInv /\ [LanguageNext]_languageVars => LanguageIInv'
<1> SUFFICES ASSUME LanguageIInv, [LanguageNext]_languageVars PROVE LanguageIInv'
  OBVIOUS
<1>0. PermitsFit /\ MadeFits  BY DEF LanguageIInv
<1>1. CASE StartReading
  <2>1. PICK d \in Documents :
          /\ document' = d
          /\ running' = [c \in Sc |-> CASE ExtractRaises(c, d) -> "failed"
                                        [] Lists[c][d] = <<>> -> "done" [] OTHER -> "waiting"]
    BY <1>1 DEF StartReading
  <2>2. running' \in [Sc -> Doing] /\ \A c \in Sc : running'[c] # "asking"
    BY <2>1 DEF Doing
  <2>3. \A c \in Sc : running[c] # "asking"  BY <1>1 DEF StartReading
  <2>4. permits' = Permits  BY <1>0, <1>1, <2>3, NoneAsks DEF StartReading
  <2>5. PermitsFit'  BY <2>2, <2>4, AllReturned
  <2>6. MadeFits'  BY <1>1, <2>1 DEF StartReading, MadeFits
  <2> QED  BY <2>5, <2>6 DEF LanguageIInv
<1>2. CASE StoreFindings
  <2>1. running' \in [Sc -> Doing] /\ \A c \in Sc : running'[c] # "asking"
    BY <1>2 DEF StoreFindings, Rest, Doing
  <2>2. \A c \in Sc : running[c] # "asking"  BY <1>2 DEF StoreFindings
  <2>3. permits' = Permits  BY <1>0, <1>2, <2>2, NoneAsks DEF StoreFindings
  <2>4. PermitsFit'  BY <2>1, <2>3, AllReturned
  <2>5. MadeFits'  BY <1>2 DEF StoreFindings, Rest, MadeFits
  <2> QED  BY <2>4, <2>5 DEF LanguageIInv
<1>3. CASE CutOff
  <2>1. running' \in [Sc -> Doing] /\ \A c \in Sc : running'[c] # "asking"
    BY <1>3 DEF CutOff, Rest, Doing
  <2>2. permits' = Permits  BY <1>0, <1>3 DEF CutOff, PermitsFit, PermitsReturn
  <2>3. PermitsFit'  BY <2>1, <2>2, AllReturned
  <2>4. MadeFits'  BY <1>3 DEF CutOff, Rest, MadeFits
  <2> QED  BY <2>3, <2>4 DEF LanguageIInv
<1>4. ASSUME NEW c \in Sc, AcquirePermit(c) PROVE LanguageIInv'
  <2>1. PermitsFit'  BY <1>0, <1>4, PermitTaken DEF AcquirePermit
  <2>2. Sent(c)' = Sent(c) /\ \A k \in Sc : Sent(k)' = Sent(k)  BY <1>4 DEF AcquirePermit, Sent
  <2>3. MadeFits'  BY <1>0, <1>4, <2>2 DEF AcquirePermit, MadeFits, PermitsFit
  <2> QED  BY <2>1, <2>3 DEF LanguageIInv
<1>5. ASSUME NEW c \in Sc, TryAgain(c) PROVE LanguageIInv'
  <2>1. UNCHANGED <<document, running, permits, made, named>>  BY <1>5 DEF TryAgain
  <2> QED  BY <1>0, <2>1 DEF LanguageIInv, PermitsFit, MadeFits, PermitsReturn, Asking, Sent
<1>6. ASSUME NEW c \in Sc, GiveUp(c) PROVE LanguageIInv'
  <2>1. PermitsFit'  BY <1>0, <1>6, PermitReturned DEF GiveUp
  <2>2. \A k \in Sc : Sent(k)' = Sent(k)  BY <1>6 DEF GiveUp, Sent
  <2>3. running[c] # "off"  BY <1>6 DEF GiveUp, Asking
  <2>4. MadeFits'  BY <1>0, <1>6, <2>2, <2>3 DEF GiveUp, MadeFits, PermitsFit
  <2> QED  BY <2>1, <2>4 DEF LanguageIInv
<1>7. ASSUME NEW c \in Sc, AnswerArrives(c) PROVE LanguageIInv'
  <2>1. PermitsFit'  BY <1>0, <1>7, PermitReturned DEF AnswerArrives
  <2>2. \A k \in Sc : Sent(k)' = Sent(k)  BY <1>7 DEF AnswerArrives, Sent
  <2>3. running[c] # "off"  BY <1>7 DEF AnswerArrives, Asking
  <2>4. PICK answer \in Answers :
          /\ made' = [made EXCEPT ![c] = Parse(c, answer)]
          /\ named' = [named EXCEPT ![c] =
               {Sent(c)[answer[i].number].of : i \in {j \in DOMAIN answer : answer[j].number \in DOMAIN Sent(c)}}]
    BY <1>7 DEF AnswerArrives
  <2>5. DOMAIN made' = Sc /\ DOMAIN named' = Sc  BY <1>0, <2>4 DEF MadeFits
  <2>6. document' = document /\ document \in Documents  BY <1>0, <1>7, <2>3 DEF MadeFits, AnswerArrives
  <2>7. ASSUME NEW k \in Sc, NEW f \in made'[k]
        PROVE  f.of \in named'[k] /\ \E n \in DOMAIN Sent(k) : f = Sent(k)[n]
    <3>1. CASE k = c
      <4>1. made'[k] = Parse(c, answer)  BY <1>0, <2>4, <3>1 DEF MadeFits
      <4>2. named'[k] = {Sent(c)[answer[i].number].of :
                           i \in {j \in DOMAIN answer : answer[j].number \in DOMAIN Sent(c)}}
        BY <1>0, <2>4, <3>1 DEF MadeFits
      <4> QED  BY <2>7, <3>1, <4>1, <4>2, ParseIs
    <3>2. CASE k # c
      <4>1. made'[k] = made[k] /\ named'[k] = named[k]  BY <1>0, <2>4, <3>2 DEF MadeFits
      <4> QED  BY <1>0, <2>7, <4>1 DEF MadeFits
    <3> QED  BY <3>1, <3>2
  <2>8. MadeFits'  BY <2>2, <2>5, <2>6, <2>7 DEF MadeFits
  <2> QED  BY <2>1, <2>8 DEF LanguageIInv
<1>8. CASE UNCHANGED languageVars
  BY <1>0, <1>8 DEF LanguageIInv, PermitsFit, MadeFits, PermitsReturn, Asking, Sent, languageVars
<1> QED  BY <1>1, <1>2, <1>3, <1>4, <1>5, <1>6, <1>7, <1>8 DEF LanguageNext

\* Every permit that is not free belongs to a request under way, however the
\* requests end (ollama_base.py).
THEOREM PermitsCorrect == LanguageSpec => [](PermitsReturn /\ permits \in 0..Permits)
<1>1. LanguageInit => LanguageIInv  BY LanguageInitHolds
<1>2. LanguageIInv /\ [LanguageNext]_languageVars => LanguageIInv'  BY LanguageNextHolds
<1>3. LanguageIInv => PermitsReturn /\ permits \in 0..Permits
  BY FewAsk DEF LanguageIInv, PermitsFit
<1> QED  BY <1>1, <1>2, <1>3, PTL DEF LanguageSpec

\* A finding is of the element that the answer named.
LEMMA FindingsNamed == ASSUME LanguageIInv PROVE FindingsAreNamed
<1> SUFFICES ASSUME NEW c \in Sc, NEW f \in made[c], NEW g \in made[c]
    PROVE  /\ f.of \in named[c] /\ document[f.of].usable /\ f.html = document[f.of].html
           /\ f.of = g.of => f = g
  BY DEF FindingsAreNamed
<1>1. document \in Documents /\ f.of \in named[c]  BY DEF LanguageIInv, MadeFits
<1>2. PICK n \in DOMAIN Lists[c][document] : f = Lists[c][document][n]
  BY DEF LanguageIInv, MadeFits, Sent
<1>3. PICK m \in DOMAIN Lists[c][document] : g = Lists[c][document][m]
  BY DEF LanguageIInv, MadeFits, Sent
<1> QED  BY <1>1, <1>2, <1>3, ListsHold DEF ListsFit

\* A row of the page with document d.
RowFits(r, d) ==
  \/ r \in ImageRows(d)
  \/ \E c \in Sc : \E n \in DOMAIN Lists[c][d] : r = FindingRow(c, d, Lists[c][d][n])

\* What is stored is of documents that were read, and of their elements.
StoredFits ==
  /\ reads \in 0..MaxReads /\ document \in Documents \cup {<<>>}
  /\ tries \in [Sc -> 0..MostTries]
  /\ named \in [Sc -> SUBSET (DOMAIN document)]
  /\ stored # {} => document \in Documents
  /\ \A r \in stored : \E d \in Documents : RowFits(r, d)

LEMMA StoredFitsInit == LanguageInit => StoredFits
BY LanguageAssumption DEF LanguageInit, StoredFits

LEMMA NamedAre ==
  ASSUME NEW c \in Sc, document \in Documents, NEW answer
  PROVE  {Sent(c)[answer[i].number].of : i \in {j \in DOMAIN answer : answer[j].number \in DOMAIN Sent(c)}}
           \subseteq DOMAIN document
<1> SUFFICES ASSUME NEW n \in DOMAIN Sent(c) PROVE Sent(c)[n].of \in DOMAIN document
  OBVIOUS
<1>1. PICK k \in DOMAIN Walk(c, document) : Entry(c, document, n, k)  BY ListsAre DEF Sent
<1>2. Sent(c)[n].of = Walk(c, document)[k]  BY <1>1 DEF Entry, Sent
<1> QED  BY <1>2, WalkIs, DocumentsAssumption

LEMMA StoredFitsNext ==
  LanguageIInv /\ StoredFits /\ [LanguageNext]_languageVars => StoredFits'
<1> SUFFICES ASSUME LanguageIInv, StoredFits, [LanguageNext]_languageVars PROVE StoredFits'
  OBVIOUS
<1>0. MadeFits /\ running \in [Sc -> Doing]  BY DEF LanguageIInv, PermitsFit
<1>1. CASE StartReading
  <2>1. PICK d \in Documents : document' = d /\ stored' = stored \cup ImageRows(d)
    BY <1>1 DEF StartReading
  <2>2. /\ reads' = reads + 1 /\ reads < MaxReads /\ tries' = [c \in Sc |-> 0]
        /\ named' = [c \in Sc |-> {}]
    BY <1>1 DEF StartReading
  <2>3. \A r \in stored' : \E e \in Documents : RowFits(r, e)
    <3> SUFFICES ASSUME NEW r \in stored' PROVE \E e \in Documents : RowFits(r, e)
      OBVIOUS
    <3>1. CASE r \in stored  BY <3>1 DEF StoredFits
    <3>2. CASE r \in ImageRows(d)  BY <3>2 DEF RowFits
    <3> QED  BY <2>1, <3>1, <3>2
  <2>4. reads' \in 0..MaxReads /\ tries' \in [Sc -> 0..MostTries]
    BY <2>2, LanguageAssumption DEF StoredFits
  <2>5. document' \in Documents /\ named' \in [Sc -> SUBSET (DOMAIN document')]  BY <2>1, <2>2
  <2> QED  BY <2>3, <2>4, <2>5 DEF StoredFits
<1>2. CASE StoreFindings
  <2>1. /\ tries' = [c \in Sc |-> 0] /\ named' = [c \in Sc |-> {}] /\ reads' = reads
        /\ document' = document
        /\ stored' = stored \cup UNION {{FindingRow(c, document, f) : f \in made[c]} : c \in Sc}
    BY <1>2 DEF StoreFindings, Rest
  <2>2. ASSUME NEW r \in stored', r \notin stored
        PROVE  document \in Documents /\ RowFits(r, document)
    <3>1. r \in UNION {{FindingRow(c, document, f) : f \in made[c]} : c \in Sc}  BY <2>1, <2>2
    <3>2. PICK c \in Sc : r \in {FindingRow(c, document, f) : f \in made[c]}  BY <3>1
    <3>3. PICK f \in made[c] : r = FindingRow(c, document, f)  BY <3>2
    <3>4. document \in Documents /\ \E n \in DOMAIN Sent(c) : f = Sent(c)[n]  BY <1>0, <3>3 DEF MadeFits
    <3> QED  BY <3>3, <3>4 DEF RowFits, Sent
  <2>3. tries' \in [Sc -> 0..MostTries] /\ named' \in [Sc -> SUBSET (DOMAIN document')]
    BY <2>1, LanguageAssumption
  <2>4. \A r \in stored' : document' \in Documents /\ \E d \in Documents : RowFits(r, d)
    BY <2>1, <2>2 DEF StoredFits
  <2> QED  BY <2>1, <2>3, <2>4 DEF StoredFits
<1>3. CASE CutOff
  BY <1>3, LanguageAssumption DEF CutOff, Rest, StoredFits
<1>4. ASSUME NEW c \in Sc, AcquirePermit(c) \/ TryAgain(c) PROVE StoredFits'
  <2>1. tries' \in [Sc -> 0..MostTries]
    BY <1>4, LanguageAssumption DEF AcquirePermit, TryAgain, StoredFits
  <2>2. UNCHANGED <<reads, document, named, stored>>  BY <1>4 DEF AcquirePermit, TryAgain
  <2> QED  BY <2>1, <2>2 DEF StoredFits, RowFits
<1>5. ASSUME NEW c \in Sc, GiveUp(c) PROVE StoredFits'
  BY <1>5 DEF GiveUp, StoredFits, RowFits
<1>6. ASSUME NEW c \in Sc, AnswerArrives(c) PROVE StoredFits'
  <2>1. UNCHANGED <<reads, document, tries, stored>> /\ c \in Asking  BY <1>6 DEF AnswerArrives
  <2>2. document \in Documents  BY <1>0, <2>1 DEF MadeFits, Asking
  <2>3. PICK answer \in Answers : named' = [named EXCEPT ![c] =
            {Sent(c)[answer[i].number].of : i \in {j \in DOMAIN answer : answer[j].number \in DOMAIN Sent(c)}}]
    BY <1>6 DEF AnswerArrives
  <2>4. named' \in [Sc -> SUBSET (DOMAIN document)]  BY <2>2, <2>3, NamedAre DEF StoredFits
  <2> QED  BY <2>1, <2>4 DEF StoredFits, RowFits
<1>7. CASE UNCHANGED languageVars  BY <1>7 DEF languageVars, StoredFits, RowFits
<1> QED  BY <1>1, <1>2, <1>3, <1>4, <1>5, <1>6, <1>7 DEF LanguageNext

LEMMA OccurrenceIs ==
  ASSUME NEW d, IsDocument(d), NEW o \in Occurrences(d) PROVE o.of \in DOMAIN d
<1>1. PICK p \in DOMAIN ImagesOf(Refs(d), Drawings(d)) :
         o = [position |-> p, alt |-> d[ImagesOf(Refs(d), Drawings(d))[p].of].alt,
              of |-> ImagesOf(Refs(d), Drawings(d))[p].of]
  BY DEF Occurrences, Occurring
<1> QED  BY <1>1, ImagesAre

\* What is outlined of a row in a copy.
LEMMA OutlinedIs ==
  ASSUME NEW r, NEW e \in Documents, RowFits(r, e), NEW d \in Documents
  PROVE  /\ r.document = e /\ r.of \in DOMAIN e
         /\ r.kind = "image" \/ r.kind \in Sc
         /\ Outlined[r][d] = IF r.kind = "image" THEN LocateImage(r, d)
                             ELSE Locate(r.kind, r.selector, r.html, d)
<1>0. IsDocument(e)  BY DocumentsAssumption
<1>1. CASE r \in ImageRows(e)
  <2>1. PICK o \in Occurrences(e) : r = ImageRow(e, o)  BY <1>1 DEF ImageRows
  <2>2. r.document = e /\ r.of = o.of /\ r.kind = "image"  BY <2>1 DEF ImageRow
  <2>3. r \in RowsOf[e]  BY <1>1 DEF RowsOf
  <2>4. r \in UNION {RowsOf[x] : x \in Documents}  BY <2>3
  <2> QED  BY <1>0, <2>2, <2>4, OccurrenceIs DEF Outlined
<1>2. ASSUME NEW c \in Sc, NEW n \in DOMAIN Lists[c][e], r = FindingRow(c, e, Lists[c][e][n])
      PROVE  /\ r.document = e /\ r.of \in DOMAIN e /\ r.kind \in Sc
             /\ r \in UNION {RowsOf[x] : x \in Documents}
  <2> DEFINE f == Lists[c][e][n]
  <2>1. PICK k \in DOMAIN Walk(c, e) : Entry(c, e, n, k)  BY ListsAre
  <2>2. f.of \in DOMAIN e  BY <1>0, <2>1, WalkIs DEF Entry
  <2>3. f \in ToSet(Lists[c][e])  BY DEF ToSet
  <2>4. f \in UNION {ToSet(Lists[k1][e]) : k1 \in Sc}  BY <2>3
  <2>5. r = FindingRow(c, e, f)  BY <1>2
  <2> HIDE DEF f
  <2>6. r \in RowsOf[e]  BY <2>4, <2>5 DEF RowsOf
  <2>7. r.document = e /\ r.of = f.of /\ r.kind = c  BY <2>5 DEF FindingRow
  <2> QED  BY <2>2, <2>6, <2>7
<1>3. CASE \E c \in Sc : \E n \in DOMAIN Lists[c][e] : r = FindingRow(c, e, Lists[c][e][n])
  BY <1>2, <1>3 DEF Outlined
<1> QED  BY <1>1, <1>3 DEF RowFits

LEMMA OutlinedInOwn ==
  ASSUME NEW r, NEW d \in Documents, RowFits(r, d), ~d[r.of].hidden
  PROVE  Outlined[r][d] = Found(r.of)
           \/ (r.kind \in Sc /\ r.selector.ord = 0 /\ Outlined[r][d].found = "ambiguous")
<1>0. IsDocument(d) /\ IsList(d)  BY DocumentsAssumption DEF IsDocument
<1>1. CASE r \in ImageRows(d)
  <2>1. PICK o \in Occurrences(d) : r = ImageRow(d, o)  BY <1>1 DEF ImageRows
  <2>2. r.of = o.of /\ r.kind = "image" /\ r.position = o.position /\ r.alt = o.alt
    BY <2>1 DEF ImageRow
  <2>3. Outlined[r][d] = LocateImage(r, d)  BY <2>2, OutlinedIs
  <2>4. LocateImage(r, d) = Found(o.of)  BY <1>0, <2>2, ImageFinds
  <2> QED  BY <2>2, <2>3, <2>4
<1>2. ASSUME NEW c \in Sc, NEW n \in DOMAIN Lists[c][d], r = FindingRow(c, d, Lists[c][d][n])
      PROVE  Outlined[r][d] = Found(r.of)
               \/ (r.kind \in Sc /\ r.selector.ord = 0 /\ Outlined[r][d].found = "ambiguous")
  <2>1. PICK k \in DOMAIN Walk(c, d) : Entry(c, d, n, k)  BY ListsAre
  <2> DEFINE i == Walk(c, d)[k]  sel == Selector(d[i], k)
  <2>2. Lists[c][d][n] = [of |-> i, selector |-> sel, html |-> d[i].html]  BY <2>1 DEF Entry
  <2>3. IsList(Walk(c, d)) /\ i \in DOMAIN d  BY <1>0, WalkIs
  <2>4. 0 \notin DOMAIN Walk(c, d) /\ k # 0  BY <2>3 DEF IsList
  <2> HIDE DEF sel, i
  <2>5. r = [kind |-> c, document |-> d, of |-> i, selector |-> sel, html |-> d[i].html]
    BY <1>2, <2>2 DEF FindingRow
  <2>6. r.kind = c /\ r.of = i /\ r.selector = sel /\ r.html = d[i].html  BY <2>5
  <2>7. c # "image"  BY LanguageAssumption
  <2>8. Outlined[r][d] = Locate(c, sel, d[i].html, d)  BY <2>6, <2>7, OutlinedIs
  <2>9. ~d[i].hidden  BY <2>6
  <2>10. Locate(c, sel, d[i].html, d) = Found(i)
           \/ (sel.ord = 0 /\ Locate(c, sel, d[i].html, d).found = "ambiguous")
    BY <1>0, <2>3, <2>4, <2>9, LocateFinds DEF i, sel
  <2> QED  BY <2>6, <2>8, <2>10
<1>3. CASE \E c \in Sc : \E n \in DOMAIN Lists[c][d] : r = FindingRow(c, d, Lists[c][d][n])
  BY <1>2, <1>3
<1> QED  BY <1>1, <1>3 DEF RowFits

LEMMA OutlinesHold ==
  ASSUME LanguageIInv, StoredFits PROVE OutlinesAreTrue
<1>0. running \in [Sc -> Doing] /\ permits \in 0..Permits /\ DOMAIN made = Sc
  BY FewAsk DEF LanguageIInv, PermitsFit, MadeFits
<1>1. ASSUME NEW r \in stored
      PROVE  /\ r.document \in Documents /\ r.of \in DOMAIN r.document
             /\ document \in Documents /\ RowFits(r, r.document)
  <2>1. PICK e \in Documents : RowFits(r, e)  BY DEF StoredFits
  <2>2. document \in Documents  BY DEF StoredFits
  <2>3. r.document = e /\ r.of \in DOMAIN e  BY <2>1, OutlinedIs
  <2> QED  BY <2>1, <2>2, <2>3
<1>2. LanguageTypeOK  BY <1>0, <1>1 DEF LanguageTypeOK, StoredFits, Doing
<1>3. ASSUME NEW r \in stored, r.document = document, ~document[r.of].hidden
      PROVE  Outlined[r][document] = Found(r.of)
               \/ (r.kind \in Sc /\ r.selector.ord = 0 /\ Outlined[r][document].found = "ambiguous")
  BY <1>1, <1>3, OutlinedInOwn
<1>4. ASSUME NEW r \in stored, Outlined[r][document].found = "found"
      PROVE  IF r.kind = "image" THEN document[Outlined[r][document].at].alt = r.alt
             ELSE /\ document[Outlined[r][document].at].html = r.html
                  /\ ~document[Outlined[r][document].at].hidden
  <2>1. /\ document \in Documents /\ RowFits(r, r.document) /\ r.document \in Documents
        /\ IsDocument(document) /\ IsList(document)
    BY <1>1, DocumentsAssumption DEF IsDocument
  <2>2. r.kind = "image" \/ r.kind \in Sc  BY <2>1, OutlinedIs
  <2>3. CASE r.kind = "image"
    <3>1. Outlined[r][document] = LocateImage(r, document)  BY <2>1, <2>3, OutlinedIs
    <3> QED  BY <1>4, <2>3, <3>1, ImageMeans
  <2>4. CASE r.kind # "image"
    <3>1. Outlined[r][document] = Locate(r.kind, r.selector, r.html, document)
      BY <2>1, <2>4, OutlinedIs
    <3>2. \A k \in DOMAIN Walk(r.kind, document) : Walk(r.kind, document)[k] \in DOMAIN document
      BY <2>1, <2>2, <2>4, WalkIs
    <3> QED  BY <1>4, <2>1, <2>4, <3>1, <3>2, LocateMeans
  <2> QED  BY <2>3, <2>4
<1>5. OutlinesWhatWasMeant  BY <1>3, <1>4 DEF OutlinesWhatWasMeant
<1> QED  BY <1>2, <1>5, FindingsNamed DEF OutlinesAreTrue

\* The element that the model named is the one that a finding is about and that
\* the Inspector outlines, or it says that it cannot tell, and never one of other
\* markup or of another text, whatever documents the page has at each fetch
\* (_parse_response, locate_ordinals, locateTargets).
THEOREM OutlinesCorrect == LanguageSpec => []OutlinesAreTrue
<1>1. LanguageInit => LanguageIInv /\ StoredFits  BY LanguageInitHolds, StoredFitsInit
<1>2. LanguageIInv /\ StoredFits /\ [LanguageNext]_languageVars => (LanguageIInv /\ StoredFits)'
  BY LanguageNextHolds, StoredFitsNext
<1>3. LanguageIInv /\ StoredFits => OutlinesAreTrue  BY OutlinesHold
<1> QED  BY <1>1, <1>2, <1>3, PTL DEF LanguageSpec
=============================================================================
