----------------------------- MODULE JudgesProofs -----------------------------
(***************************************************************************)
(* Proofs about Judges, for any documents, courts, judges, releases and    *)
(* any number of processes and tenants.                                    *)
(***************************************************************************)
EXTENDS Judges, FiniteSetTheorems, SequenceTheorems, TLAPS

-----------------------------------------------------------------------------
(* The parts of the inductive invariant *)

\* Where a list has an item it names.
Position(x, all) == CHOOSE i \in DOMAIN all : all[i] = x

\* The order in which every populate-kg writes: courts, then judges.
Rank(row) == IF row[1] = "courts" THEN Position(row[3], Courts) ELSE Len(Courts) + Position(row[3], Keys)

\* The row the n-th item of a populate-kg's list is about.
RowAt(me, n) == <<me.pc, me.tenant, me.todo[n]>>

Rising(me) ==
  \A i \in DOMAIN me.todo :
    /\ \A j \in DOMAIN me.todo : i < j => Rank(RowAt(me, i)) < Rank(RowAt(me, j))
    /\ \A h \in me.held : Rank(h) < Rank(RowAt(me, i))

\* A populate-kg goes up the order; before its judges it holds courts only.
Upward ==
  \A r \in Runs :
    /\ run[r].pc \in {"courts", "judges"} => Rising(run[r])
    /\ run[r].pc = "courts" => \A h \in run[r].held : h[1] = "courts"

\* The court of the judges an entry goes to.
Home(confidence, entry) == IF confidence = "name_only" THEN NoCourt ELSE entry.court

\* What a match found is still so when its score is written.
MatchHolds ==
  \A r \in Runs : run[r].pc = "update" =>
    LET row == judges[run[r].tenant][run[r].hit.judge]
    IN  row # NoJudge /\ row.court = Home(run[r].hit.confidence, Head(run[r].todo))

\* The courts and judges on a list are those of a batch's documents.
Listed(todo, batch) ==
  \A pair \in ToSet(todo) : \E d \in batch : Text[d].court = pair[1] /\ pair[2] \in KeysOf(AllNames[d])

\* A tally about to be written is of some court of this run's documents, and so
\* is one that is still on the list.
PatchRight ==
  \A r \in Extracting :
    /\ \A k \in DOMAIN run[r].patch : run[r].patch[k] \in Tallies(run[r].batch, k)
    /\ run[r].pc = "severity" => Listed(run[r].todo, run[r].batch)

\* Every judge of the run's documents has a tally, or is still on the list.
AllTallied ==
  \A r \in Extracting : run[r].pc # "docs" =>
    \A d \in run[r].batch : \A k \in KeysOf(AllNames[d]) :
      \/ k \in DOMAIN run[r].patch
      \/ run[r].pc = "severity" /\ <<Text[d].court, k>> \in ToSet(run[r].todo)

-----------------------------------------------------------------------------
(* Numbers in ascending order *)

LEMMA RankType ==
  ASSUME NEW S \in SUBSET Int, IsFiniteSet(S), NEW x \in S
  PROVE  Cardinality({y \in S : y <= x}) \in 1..Cardinality(S)
<1> DEFINE below == {y \in S : y <= x}
<1>1. /\ IsFiniteSet(below) /\ Cardinality(below) <= Cardinality(S)
      /\ Cardinality(below) \in Nat /\ Cardinality(S) \in Nat
  BY FS_Subset, FS_CardinalityType
<1>2. x \in below
  OBVIOUS
<1>3. Cardinality(below) # 0
  BY <1>1, <1>2, FS_EmptySet
<1> QED BY <1>1, <1>3

LEMMA RankGrows ==
  ASSUME NEW S \in SUBSET Int, IsFiniteSet(S), NEW x \in S, NEW z \in S, x < z
  PROVE  Cardinality({y \in S : y <= x}) < Cardinality({y \in S : y <= z})
<1> DEFINE below(a) == {y \in S : y <= a}
<1>1. IsFiniteSet(below(z)) /\ Cardinality(below(z)) \in Nat /\ Cardinality(below(x)) \in Nat
  BY FS_Subset, FS_CardinalityType
<1>2. below(x) \subseteq below(z)
  <2>1. \A y \in S : y \in Int
    OBVIOUS
  <2>2. \A y \in S : y <= x => y <= z
    BY <2>1
  <2> QED BY <2>2
<1>3. z \in below(z) /\ z \notin below(x)
  OBVIOUS
<1>4. /\ Cardinality(below(x)) <= Cardinality(below(z))
      /\ Cardinality(below(z)) = Cardinality(below(x)) => below(x) = below(z)
  BY <1>1, <1>2, FS_Subset
<1> QED BY <1>1, <1>3, <1>4

\* Every rank from 1 up to the number of members is some member's.
LEMMA RankReached ==
  ASSUME NEW S \in SUBSET Int, IsFiniteSet(S), NEW n \in 1..Cardinality(S)
  PROVE  \E x \in S : Cardinality({y \in S : y <= x}) = n
<1> DEFINE rank == [x \in S |-> Cardinality({y \in S : y <= x})]
           T == 1..Cardinality(S)
<1>1. Cardinality(S) \in Nat
  BY FS_CardinalityType
<1>2. rank \in [S -> T]
  BY RankType
<1>3. \A x, z \in S : x # z => rank[x] # rank[z]
  <2> SUFFICES ASSUME NEW x \in S, NEW z \in S, x < z PROVE rank[x] # rank[z]
    OBVIOUS
  <2> QED BY RankGrows, RankType
<1>4. rank \in Injection(S, T)
  BY <1>2, <1>3 DEF Injection, IsInjective
<1>5. IsFiniteSet(T) /\ Cardinality(T) = Cardinality(S)
  BY <1>1, FS_Interval
<1> HIDE DEF rank
<1>6. rank \in Surjection(S, T)
  BY <1>4, <1>5, FS_Injection
<1>7. \E x \in S : rank[x] = n
  BY <1>6 DEF Surjection
<1> QED BY <1>7 DEF rank

\* Ascending lists every member once, the lesser first.
LEMMA AscendingOrder ==
  ASSUME NEW S \in SUBSET Int, IsFiniteSet(S)
  PROVE  /\ Cardinality(S) \in Nat
         /\ Ascending(S) \in [1..Cardinality(S) -> S]
         /\ \A m, n \in 1..Cardinality(S) : m < n => Ascending(S)[m] < Ascending(S)[n]
         /\ \A x \in S : \E n \in 1..Cardinality(S) : Ascending(S)[n] = x
<1> DEFINE rank(x) == Cardinality({y \in S : y <= x})
           N == Cardinality(S)
<1>1. N \in Nat
  BY FS_CardinalityType
<1>2. \A n \in 1..N : Ascending(S)[n] \in S /\ rank(Ascending(S)[n]) = n
  <2> TAKE n \in 1..N
  <2>1. Ascending(S)[n] = CHOOSE x \in S : rank(x) = n
    BY DEF Ascending
  <2>2. \E x \in S : rank(x) = n
    BY RankReached
  <2> HIDE DEF rank
  <2> QED BY <2>1, <2>2
<1>3. Ascending(S) \in [1..N -> S]
  BY <1>2 DEF Ascending
<1>4. \A x \in S : rank(x) \in 1..N
  BY RankType
<1>5. \A x, z \in S : x < z => rank(x) < rank(z)
  BY RankGrows
<1> HIDE DEF rank
<1>6. ASSUME NEW m \in 1..N, NEW n \in 1..N, m < n PROVE Ascending(S)[m] < Ascending(S)[n]
  <2>1. /\ Ascending(S)[m] \in Int /\ Ascending(S)[n] \in Int
        /\ Ascending(S)[m] \in S /\ Ascending(S)[n] \in S
        /\ rank(Ascending(S)[m]) = m /\ rank(Ascending(S)[n]) = n
    BY <1>2
  <2>2. m \in Nat /\ n \in Nat
    BY <1>1
  <2>3. Ascending(S)[n] < Ascending(S)[m] => n < m
    BY <1>5, <2>1, Zenon
  <2>4. Ascending(S)[n] = Ascending(S)[m] => n = m
    BY <2>1, Zenon
  <2> QED BY <1>6, <2>1, <2>2, <2>3, <2>4
<1>7. ASSUME NEW x \in S PROVE Ascending(S)[rank(x)] = x
  <2>1. /\ rank(x) \in 1..N /\ Ascending(S)[rank(x)] \in S
        /\ rank(Ascending(S)[rank(x)]) = rank(x)
    BY <1>2, <1>4
  <2> DEFINE z == Ascending(S)[rank(x)]
  <2>2. x \in Int /\ z \in Int
    BY <2>1
  <2>6. rank(x) \in Int
    <3> HIDE DEF N
    <3> QED BY <1>1, <2>1
  <2>3. (x < z => rank(x) < rank(z)) /\ (z < x => rank(z) < rank(x))
    BY <1>5, <2>1
  <2> HIDE DEF z
  <2>4. rank(z) = rank(x)
    BY <2>1 DEF z
  <2>5. z = x
    BY <2>2, <2>3, <2>4, <2>6
  <2> QED BY <2>5 DEF z
<1> QED BY <1>1, <1>3, <1>4, <1>6, <1>7

\* A finite set of numbers that is not empty has a greatest and a least member.
LEMMA MaxIsGreatest ==
  ASSUME NEW S \in SUBSET Int, IsFiniteSet(S), S # {}
  PROVE  Max(S) \in S /\ \A x \in S : x <= Max(S)
<1> DEFINE N == Cardinality(S)
           a == Ascending(S)[N]
<1>1. N \in Nat /\ N # 0
  BY FS_CardinalityType, FS_EmptySet
<1>2. a \in S
  BY <1>1, AscendingOrder
<1>3. ASSUME NEW x \in S PROVE a >= x
  <2>1. PICK n \in 1..N : Ascending(S)[n] = x
    BY AscendingOrder
  <2>2. n = N \/ n < N
    BY <1>1
  <2>3. N \in 1..N
    BY <1>1
  <2>4. n < N => Ascending(S)[n] < Ascending(S)[N]
    BY <2>3, AscendingOrder
  <2>5. a \in Int /\ x \in Int
    BY <1>2
  <2>6. n = N => x = a
    BY <2>1
  <2>7. n < N => x < a
    BY <2>1, <2>4
  <2> HIDE DEF a
  <2> QED BY <2>2, <2>5, <2>6, <2>7
<1> HIDE DEF a
<1>4. \E m \in S : \A x \in S : m >= x
  BY <1>2, <1>3
<1>5. Max(S) \in S /\ \A x \in S : Max(S) >= x
  BY <1>4, Zenon DEF Max
<1> QED BY <1>5

LEMMA MinIsLeast ==
  ASSUME NEW S \in SUBSET Int, IsFiniteSet(S), S # {}
  PROVE  Min(S) \in S /\ \A x \in S : Min(S) <= x
<1> DEFINE N == Cardinality(S)
           a == Ascending(S)[1]
<1>1. N \in Nat /\ N # 0
  BY FS_CardinalityType, FS_EmptySet
<1>2. a \in S
  BY <1>1, AscendingOrder
<1>3. ASSUME NEW x \in S PROVE a =< x
  <2>1. PICK n \in 1..N : Ascending(S)[n] = x
    BY AscendingOrder
  <2>2. 1 < n => Ascending(S)[1] < Ascending(S)[n]
    BY <1>1, AscendingOrder
  <2>3. a \in Int /\ x \in Int
    BY <1>2
  <2>6. n \in Nat /\ n >= 1
    <3> HIDE DEF N
    <3> QED BY <1>1
  <2>4. n = 1 => x = a
    BY <2>1
  <2>5. 1 < n => a < x
    BY <2>1, <2>2
  <2> HIDE DEF a
  <2> QED BY <2>3, <2>4, <2>5, <2>6
<1> HIDE DEF a
<1>4. \E m \in S : \A x \in S : m =< x
  BY <1>2, <1>3
<1>5. Min(S) \in S /\ \A x \in S : Min(S) =< x
  BY <1>4, Zenon DEF Min
<1> QED BY <1>5

-----------------------------------------------------------------------------
(* Lists *)

LEMMA Image ==
  ASSUME NEW S, IsFiniteSet(S), NEW T, NEW f \in [S -> T], \A y \in T : \E x \in S : f[x] = y
  PROVE  IsFiniteSet(T)
<1>1. f \in Surjection(S, T)
  BY DEF Surjection
<1> QED BY <1>1, FS_Surjection

LEMMA ListFinite ==
  ASSUME NEW T, NEW list \in Seq(T)
  PROVE  IsFiniteSet(DOMAIN list) /\ IsFiniteSet(ToSet(list))
<1>1. /\ list \in [1..Len(list) -> T] /\ DOMAIN list = 1..Len(list)
      /\ Len(list) \in Nat
  BY LenProperties
<1>2. IsFiniteSet(1..Len(list))
  BY <1>1, FS_Interval
<1>3. list \in [1..Len(list) -> ToSet(list)]
  BY <1>1 DEF ToSet
<1>4. \A y \in ToSet(list) : \E x \in 1..Len(list) : list[x] = y
  BY <1>1 DEF ToSet
<1> QED BY <1>1, <1>2, <1>3, <1>4, Image

LEMMA PositionIs ==
  ASSUME NEW all, IsInjective(all), NEW i \in DOMAIN all
  PROVE  Position(all[i], all) = i
BY DEF Position, IsInjective

\* What is taken from a list keeps the list's order.
LEMMA InOrderRises ==
  ASSUME NEW T, NEW all \in Seq(T), IsInjective(all), NEW S
  PROVE  /\ InOrder(S, all) \in Seq(T)
         /\ \A i, j \in DOMAIN InOrder(S, all) :
              i < j => Position(InOrder(S, all)[i], all) < Position(InOrder(S, all)[j], all)
<1> DEFINE I == {i \in DOMAIN all : all[i] \in S}
           at == Ascending(I)
           N == Cardinality(I)
<1>1. DOMAIN all \subseteq Int /\ IsFiniteSet(DOMAIN all) /\ all \in [DOMAIN all -> T]
  BY LenProperties, ListFinite
<1>2. I \in SUBSET Int /\ IsFiniteSet(I) /\ I \subseteq DOMAIN all
  BY <1>1, FS_Subset
<1> HIDE DEF I
<1>3. /\ N \in Nat /\ at \in [1..N -> I]
      /\ \A m, n \in 1..N : m < n => at[m] < at[n]
  BY <1>2, AscendingOrder
<1> HIDE DEF at, N
<1>4. InOrder(S, all) = [n \in DOMAIN at |-> all[at[n]]]
  BY DEF InOrder, at, I
<1>5. \A n \in 1..N : at[n] \in DOMAIN all /\ all[at[n]] \in T
  BY <1>1, <1>2, <1>3
<1>6. InOrder(S, all) \in [1..N -> T] /\ DOMAIN InOrder(S, all) = 1..N
  BY <1>3, <1>4, <1>5
<1>7. InOrder(S, all) \in Seq(T)
  BY <1>3, <1>6, SeqDef
<1>8. \A n \in 1..N : Position(InOrder(S, all)[n], all) = at[n]
  BY <1>3, <1>4, <1>5, PositionIs
<1> QED BY <1>3, <1>6, <1>7, <1>8

\* Any order of a finite set lists each of its members.
LEMMA AnyOrder ==
  ASSUME NEW S, IsFiniteSet(S), NEW order \in SetToSeqs(S)
  PROVE  order \in Seq(S) /\ ToSet(order) = S
<1> DEFINE N == Cardinality(S)
<1>1. N \in Nat /\ IsFiniteSet(1..N) /\ Cardinality(1..N) = N
  BY FS_CardinalityType, FS_Interval
<1>2. order \in [1..N -> S] /\ \A i, j \in 1..N : i # j => order[i] # order[j]
  BY DEF SetToSeqs
<1>3. order \in Injection(1..N, S)
  BY <1>2 DEF Injection, IsInjective
<1>4. order \in Surjection(1..N, S)
  BY <1>1, <1>3, FS_Injection
<1>5. \A y \in S : \E n \in 1..N : order[n] = y
  BY <1>4 DEF Surjection
<1>6. order \in Seq(S)
  BY <1>1, <1>2, SeqDef
<1> HIDE DEF N
<1>7. ToSet(order) = S
  BY <1>2, <1>5 DEF ToSet
<1> QED BY <1>6, <1>7

LEMMA TailOf ==
  ASSUME NEW T, NEW list \in Seq(T), list # <<>>
  PROVE  /\ Head(list) \in T /\ Head(list) = list[1] /\ 1 \in DOMAIN list
         /\ Tail(list) \in Seq(T)
         /\ DOMAIN Tail(list) = 1..(Len(list) - 1) /\ DOMAIN list = 1..Len(list)
         /\ \A i \in DOMAIN Tail(list) : i + 1 \in DOMAIN list /\ Tail(list)[i] = list[i + 1]
         /\ ToSet(list) \subseteq {Head(list)} \cup ToSet(Tail(list))
         /\ ToSet(Tail(list)) \subseteq ToSet(list)
<1>1. /\ Head(list) \in T /\ Head(list) = list[1] /\ Len(list) \in Nat /\ Len(list) >= 1
      /\ DOMAIN list = 1..Len(list)
      /\ Tail(list) \in Seq(T) /\ DOMAIN Tail(list) = 1..(Len(list) - 1)
      /\ \A i \in 1..(Len(list) - 1) : Tail(list)[i] = list[i + 1]
  BY HeadTailProperties, LenProperties, EmptySeq
<1>2. \A i \in DOMAIN Tail(list) : i + 1 \in DOMAIN list /\ Tail(list)[i] = list[i + 1]
  BY <1>1
<1>3. \A i \in DOMAIN list : i # 1 => i - 1 \in DOMAIN Tail(list) /\ Tail(list)[i - 1] = list[i]
  BY <1>1
<1>4. 1 \in DOMAIN list
  BY <1>1
<1>5. ToSet(list) \subseteq {Head(list)} \cup ToSet(Tail(list))
  BY <1>1, <1>3 DEF ToSet
<1>6. ToSet(Tail(list)) \subseteq ToSet(list)
  BY <1>2 DEF ToSet
<1> QED BY <1>1, <1>2, <1>4, <1>5, <1>6

-----------------------------------------------------------------------------
(* Tallies *)

LEMMA FiniteParts ==
  /\ IsFiniteSet(Slug) /\ IsFiniteSet(Key) /\ IsFiniteSet(Slug \X Key)
  /\ \A batch \in SUBSET Docs :
       /\ IsFiniteSet(batch)
       /\ IsFiniteSet(batch \X Written) /\ IsFiniteSet(batch \X Appearing)
<1>1. IsFiniteSet(Slug) /\ IsFiniteSet(Key)
  BY JudgesAssumption, ListFinite DEF Slug, Key
<1>2. \A batch \in SUBSET Docs : IsFiniteSet(batch)
  BY JudgesAssumption, FS_Subset
<1> QED BY <1>1, <1>2, JudgesAssumption, FS_Product

\* More documents mention a judge no less often.
LEMMA MentionsGrow ==
  ASSUME NEW batch \in SUBSET Docs, NEW part \in SUBSET batch, NEW k
  PROVE  /\ Cardinality(Mentions(part, k)) \in Nat
         /\ Cardinality(Mentions(part, k)) <= Cardinality(Mentions(batch, k))
<1>1. IsFiniteSet(batch \X Written)
  BY FiniteParts
<1>2. Mentions(batch, k) \in SUBSET (batch \X Written)
  BY DEF Mentions
<1>3. Mentions(part, k) \in SUBSET Mentions(batch, k)
  BY DEF Mentions
<1>4. IsFiniteSet(Mentions(batch, k))
  BY <1>1, <1>2, FS_Subset
<1> QED BY <1>3, <1>4, FS_Subset, FS_CardinalityType

LEMMA SeverityTally ==
  ASSUME NEW batch \in SUBSET Docs, NEW c, NEW k
  PROVE  Severity(batch, c, k) \in Tally
<1> DEFINE here == {d \in batch : Text[d].court = c}
<1>1. here \in SUBSET Docs /\ Lost(here) \in SUBSET here /\ here \in SUBSET here
  BY DEF Lost
<1>2. Severity(batch, c, k) = [analyzed |-> Cardinality(Mentions(here, k)),
                               respondent |-> Cardinality(Mentions(Lost(here), k))]
  BY DEF Severity
<1> HIDE DEF here
<1> QED BY <1>1, <1>2, MentionsGrow DEF Tally

LEMMA WinRateType ==
  ASSUME NEW batch \in SUBSET Docs, NEW a
  PROVE  WinRate(batch, a) \in Rate
<1> DEFINE both == {"petitioner", "respondent"}
           won(sides) == {n \in Counted(batch, a, sides) : n[2][2] = Feature[n[1]].outcome}
<1>1. IsFiniteSet(batch \X Appearing)
  BY FiniteParts
<1>2. ASSUME NEW sides
      PROVE  /\ Cardinality(won(sides)) \in Nat /\ Cardinality(Counted(batch, a, sides)) \in Nat
             /\ Cardinality(won(sides)) <= Cardinality(Counted(batch, a, sides))
  <2>1. Counted(batch, a, sides) \in SUBSET (batch \X Appearing)
    BY DEF Counted
  <2>2. won(sides) \in SUBSET Counted(batch, a, sides)
    OBVIOUS
  <2>3. IsFiniteSet(Counted(batch, a, sides))
    BY <1>1, <2>1, FS_Subset
  <2> HIDE DEF won
  <2> QED BY <2>2, <2>3, FS_Subset, FS_CardinalityType
<1>3. WinRate(batch, a) =
        [analyzed |-> Cardinality(Counted(batch, a, both)),
         petitioner |-> Cardinality(Counted(batch, a, {"petitioner"})),
         petitionerWon |-> Cardinality(won({"petitioner"})), clientWon |-> Cardinality(won(both))]
  BY DEF WinRate
<1> HIDE DEF won, both
<1> QED BY <1>2, <1>3 DEF Rate

LEMMA CounselNamed ==
  /\ \A batch \in SUBSET Docs :
       /\ NamesOfCounsel(batch) \subseteq Counsel /\ IsFiniteSet(NamesOfCounsel(batch))
       /\ \A d \in batch : NamesOfCounsel({d}) \subseteq NamesOfCounsel(batch)
<1> SUFFICES ASSUME NEW batch \in SUBSET Docs
    PROVE  /\ NamesOfCounsel(batch) \subseteq Counsel /\ IsFiniteSet(NamesOfCounsel(batch))
           /\ \A d \in batch : NamesOfCounsel({d}) \subseteq NamesOfCounsel(batch)
  OBVIOUS
<1>1. \A d \in batch : NamesOfCounsel({d}) \subseteq NamesOfCounsel(batch)
  BY DEF NamesOfCounsel
<1>2. \A x \in NamesOfCounsel(batch) : \E d \in batch : x \in NamesOfCounsel({d})
  BY DEF NamesOfCounsel
<1>3. NamesOfCounsel(batch) \subseteq Counsel
  BY <1>2, JudgesAssumption
<1> DEFINE found == UNION {CounselNames[d] : d \in batch}
           named == [n \in found |-> Normalize(n[1])]
<1>4. found \in SUBSET Appearing
  BY DEF Appearing
<1>5. IsFiniteSet(found)
  BY <1>4, JudgesAssumption, FS_Subset
<1>6. /\ \A n \in found : Normalize(n[1]) \in NamesOfCounsel(batch)
      /\ \A x \in NamesOfCounsel(batch) : \E n \in found : Normalize(n[1]) = x
  BY DEF NamesOfCounsel
<1> HIDE DEF found
<1>7. /\ named \in [found -> NamesOfCounsel(batch)]
      /\ \A x \in NamesOfCounsel(batch) : \E n \in found : named[n] = x
  BY <1>6
<1> HIDE DEF named
<1>8. IsFiniteSet(NamesOfCounsel(batch))
  BY <1>5, <1>7, Image
<1> QED BY <1>1, <1>3, <1>8

-----------------------------------------------------------------------------
(* Releases *)

JusticeIds == {row.justice : row \in ToSet(Release["martin_quinn"])} \ {0}

LEMMA IdsFinite == JusticeIds \in SUBSET Int /\ IsFiniteSet(JusticeIds)
<1> DEFINE rows == ToSet(Release["martin_quinn"])
           all == {row.justice : row \in rows}
           id == [row \in rows |-> row.justice]
<1>1. IsFiniteSet(rows)
  BY JudgesAssumption, ListFinite DEF Sources
<1>2. \A row \in rows : row.justice \in Nat
  BY JudgesAssumption
<1> HIDE DEF rows
<1>5. id \in [rows -> all] /\ \A j \in all : \E row \in rows : id[row] = j
  OBVIOUS
<1>3. IsFiniteSet(all)
  <2> HIDE DEF id, all
  <2> QED BY <1>1, <1>5, Image
<1>4. all \in SUBSET Int /\ JusticeIds = all \ {0}
  BY <1>2 DEF JusticeIds, rows
<1> QED BY <1>3, <1>4, FS_Subset

\* A release's entries are a list; those of Martin-Quinn are of its justices.
LEMMA EntriesListed ==
  /\ \A s \in Sources : EntriesOf[s] \in Seq(ToSet(EntriesOf[s]))
  /\ \A e \in ToSet(EntriesOf["martin_quinn"]) :
       \E j \in JusticeIds : e = MqsEntry(Release["martin_quinn"], j, Scotus)
<1> DEFINE ids == Ascending(JusticeIds)
           N == Cardinality(JusticeIds)
           mq == Release["martin_quinn"]
<1>1. N \in Nat /\ ids \in [1..N -> JusticeIds]
  BY IdsFinite, AscendingOrder
<1>2. EntriesOf["martin_quinn"] = [i \in DOMAIN ids |-> MqsEntry(mq, ids[i], Scotus)]
  BY DEF EntriesOf, Entries, Sources, JusticeIds
<1> HIDE DEF ids, N
<1>3. /\ DOMAIN EntriesOf["martin_quinn"] = 1..N
      /\ EntriesOf["martin_quinn"] = [i \in 1..N |-> MqsEntry(mq, ids[i], Scotus)]
  BY <1>1, <1>2
<1>4. ASSUME NEW n \in Nat, NEW f, f = [i \in 1..n |-> f[i]]
      PROVE  f \in Seq(ToSet(f))
  <2>1. DOMAIN f = 1..n
    BY <1>4
  <2>2. f \in [1..n -> ToSet(f)]
    BY <1>4, <2>1 DEF ToSet
  <2> QED BY <2>2, SeqDef
<1>5. EntriesOf["martin_quinn"] \in Seq(ToSet(EntriesOf["martin_quinn"]))
  BY <1>1, <1>3, <1>4
<1>6. ASSUME NEW s \in Sources, s # "martin_quinn"
      PROVE  EntriesOf[s] \in Seq(ToSet(EntriesOf[s]))
  <2>1. /\ Len(Release[s]) \in Nat /\ DOMAIN Release[s] = 1..Len(Release[s])
    BY JudgesAssumption, LenProperties
  <2>2. EntriesOf[s] = [i \in 1..Len(Release[s]) |->
          [name |-> Release[s][i].name, court |-> Release[s][i].court, bio |-> Release[s][i].score]]
    BY <1>6, <2>1 DEF EntriesOf, Entries
  <2> QED BY <1>4, <2>1, <2>2
<1>7. \A e \in ToSet(EntriesOf["martin_quinn"]) : \E j \in JusticeIds : e = MqsEntry(mq, j, Scotus)
  BY <1>1, <1>3 DEF ToSet
<1> QED BY <1>5, <1>6, <1>7

\* The row of a justice and term that counts is the last one.
LEMMA TermRowIsLast ==
  ASSUME NEW rows, NEW T, rows \in Seq(T), NEW j, NEW t,
         NEW n \in DOMAIN rows, rows[n].justice = j, rows[n].term = t
  PROVE  \E i \in DOMAIN rows :
           /\ rows[i].justice = j /\ rows[i].term = t /\ TermRow(rows, j, t) = rows[i]
           /\ \A later \in DOMAIN rows :
                rows[later].justice = j /\ rows[later].term = t => later <= i
<1> DEFINE I == {i \in 1..Len(rows) : rows[i].justice = j /\ rows[i].term = t}
<1>1. DOMAIN rows = 1..Len(rows) /\ Len(rows) \in Nat
  BY LenProperties
<1>2. I \in SUBSET Int /\ IsFiniteSet(I) /\ I # {}
  <2>1. IsFiniteSet(1..Len(rows))
    BY <1>1, FS_Interval
  <2>2. I \in SUBSET (1..Len(rows)) /\ n \in I
    BY <1>1
  <2> QED BY <1>1, <2>1, <2>2, FS_Subset
<1>3. TermRow(rows, j, t) = rows[Max(I)]
  BY <1>2 DEF TermRow, SelectLastInSeq
<1>4. Max(I) \in I /\ \A x \in I : x <= Max(I)
  <2> HIDE DEF I
  <2> QED BY <1>2, MaxIsGreatest
<1> QED BY <1>1, <1>3, <1>4

LEMMA FirstRowIsOne ==
  ASSUME NEW rows, NEW T, rows \in Seq(T), NEW j, NEW n \in DOMAIN rows, rows[n].justice = j
  PROVE  \E i \in DOMAIN rows : rows[i].justice = j /\ FirstRow(rows, j) = rows[i]
<1> DEFINE I == {i \in 1..Len(rows) : rows[i].justice = j}
<1>1. DOMAIN rows = 1..Len(rows) /\ Len(rows) \in Nat
  BY LenProperties
<1>2. I \in SUBSET Int /\ IsFiniteSet(I) /\ I # {}
  <2>1. IsFiniteSet(1..Len(rows))
    BY <1>1, FS_Interval
  <2>2. I \in SUBSET (1..Len(rows)) /\ n \in I
    BY <1>1
  <2> QED BY <1>1, <2>1, <2>2, FS_Subset
<1>3. FirstRow(rows, j) = rows[Min(I)]
  BY <1>2 DEF FirstRow, SelectInSeq
<1>4. Min(I) \in I
  <2> HIDE DEF I
  <2> QED BY <1>2, MinIsLeast
<1> QED BY <1>1, <1>3, <1>4

\* A justice's series has the score of the row that counts, term by term.
LEMMA SeriesRows ==
  ASSUME NEW j \in JusticeIds
  PROVE  LET rows == Release["martin_quinn"]
             series == Series(rows, j)
         IN  /\ DOMAIN series \in SUBSET Int /\ IsFiniteSet(DOMAIN series)
             /\ \A t \in DOMAIN series : \E i \in DOMAIN rows :
                  /\ rows[i].justice = j /\ rows[i].term = t /\ series[t] = rows[i].score
                  /\ \A later \in DOMAIN rows :
                       rows[later].justice = j /\ rows[later].term = t => later <= i
             /\ \A i \in DOMAIN rows : rows[i].justice = j => rows[i].term \in DOMAIN series
<1> DEFINE rows == Release["martin_quinn"]
           series == Series(rows, j)
           theirs == {x \in ToSet(rows) : x.justice = j}
<1>1. rows \in Seq(ToSet(rows))
  BY JudgesAssumption DEF Sources
<1>2. /\ DOMAIN series = {r.term : r \in theirs}
      /\ \A t \in DOMAIN series : series[t] = TermRow(rows, j, t).score
  BY DEF Series
<1>3. IsFiniteSet(theirs) /\ \A r \in theirs : r.term \in Int
  BY <1>1, ListFinite, FS_Subset, JudgesAssumption
<1>4. \A r \in theirs : \E n \in DOMAIN rows : r = rows[n] /\ rows[n].justice = j
  BY DEF ToSet
<1>5. \A n \in DOMAIN rows : rows[n].justice = j => rows[n] \in theirs
  BY DEF ToSet
<1> HIDE DEF series, theirs, rows
<1>6. IsFiniteSet(DOMAIN series)
  <2> DEFINE f == [r \in theirs |-> r.term]
  <2>1. f \in [theirs -> DOMAIN series] /\ \A t \in DOMAIN series : \E r \in theirs : f[r] = t
    BY <1>2
  <2> HIDE DEF f
  <2> QED BY <2>1, <1>3, Image
<1>7. DOMAIN series \in SUBSET Int
  BY <1>2, <1>3
<1>8. ASSUME NEW t \in DOMAIN series
      PROVE  \E i \in DOMAIN rows :
               /\ rows[i].justice = j /\ rows[i].term = t /\ series[t] = rows[i].score
               /\ \A later \in DOMAIN rows :
                    rows[later].justice = j /\ rows[later].term = t => later <= i
  <2>1. PICK n \in DOMAIN rows : rows[n].justice = j /\ rows[n].term = t
    BY <1>2, <1>4
  <2> QED BY <1>1, <1>2, <2>1, TermRowIsLast
<1>9. \A i \in DOMAIN rows : rows[i].justice = j => rows[i].term \in DOMAIN series
  BY <1>2, <1>5
<1> QED BY <1>6, <1>7, <1>8, <1>9 DEF series, rows

LEMMA ShownRight == TypeOK => ShownTermRight
<1> SUFFICES ASSUME TypeOK, NEW t \in Tenants, NEW k \in Key, NEW y \in Years,
                    judges[t][k] # NoJudge, judges[t][k].martin_quinn # NoScore
             PROVE  LET shown == Score(judges[t][k], y)
                        rows == Release["martin_quinn"]
                        of(j) == {i \in DOMAIN rows : rows[i].justice = j}
                        counts(i) == \A later \in of(rows[i].justice) :
                                       later > i => rows[later].term # rows[i].term
                        scored(j) == {i \in of(j) : counts(i) /\ rows[i].score # NoScore}
                        by(j) == {i \in scored(j) : rows[i].term <= y}
                        eligible(j) == IF by(j) # {} THEN by(j) ELSE scored(j)
                    IN  \E first \in DOMAIN rows :
                          /\ rows[first].name = judges[t][k].martin_quinn.entry.name
                          /\ \E i \in eligible(rows[first].justice) :
                               /\ shown.term = rows[i].term /\ shown.score = rows[i].score
                               /\ \A other \in eligible(rows[first].justice) :
                                    rows[other].term <= rows[i].term
  BY DEF ShownTermRight
<1> DEFINE shown == Score(judges[t][k], y)
           rows == Release["martin_quinn"]
           of(j) == {i \in DOMAIN rows : rows[i].justice = j}
           counts(i) == \A later \in of(rows[i].justice) :
                          later > i => rows[later].term # rows[i].term
           scored(j) == {i \in of(j) : counts(i) /\ rows[i].score # NoScore}
           by(j) == {i \in scored(j) : rows[i].term <= y}
           eligible(j) == IF by(j) # {} THEN by(j) ELSE scored(j)
           entry == judges[t][k].martin_quinn.entry
<1>1. entry \in ToSet(EntriesOf["martin_quinn"]) /\ entry.bio # NoScore
  BY DEF TypeOK, JudgeRow, Bio, ScoredEntries
<1>2. PICK j \in JusticeIds : entry = MqsEntry(rows, j, Scotus)
  BY <1>1, EntriesListed
<1> DEFINE series == Series(rows, j)
           used == TermUsed(entry.bio, y)
<1>3. /\ entry.name = FirstRow(rows, j).name
      /\ Scored(series) # {}
      /\ entry.bio = [scores |-> series, latest |-> Max(Scored(series))]
  BY <1>1, <1>2 DEF MqsEntry
<1>4. shown.term = used /\ shown.score = series[used]
  BY <1>3 DEF Score
<1>5. PICK first \in DOMAIN rows : rows[first].justice = j /\ entry.name = rows[first].name
  <2>1. PICK row \in ToSet(rows) : row.justice = j
    BY DEF JusticeIds
  <2>2. PICK n \in DOMAIN rows : rows[n].justice = j
    BY <2>1 DEF ToSet
  <2>3. rows \in Seq(ToSet(rows))
    BY JudgesAssumption DEF Sources
  <2> HIDE DEF rows, entry
  <2> QED BY <1>3, <2>2, <2>3, FirstRowIsOne
<1>6. /\ DOMAIN series \in SUBSET Int /\ IsFiniteSet(DOMAIN series)
      /\ \A term \in DOMAIN series : \E i \in DOMAIN rows :
           /\ rows[i].justice = j /\ rows[i].term = term /\ series[term] = rows[i].score
           /\ \A later \in DOMAIN rows :
                rows[later].justice = j /\ rows[later].term = term => later <= i
      /\ \A i \in DOMAIN rows : rows[i].justice = j => rows[i].term \in DOMAIN series
  BY SeriesRows
<1>7. DOMAIN rows \subseteq Int
  BY JudgesAssumption, LenProperties DEF Sources
<1>8. /\ used \in Scored(series)
      /\ \/ used <= y /\ \A other \in Scored(series) : other <= y => other <= used
         \/ \A other \in Scored(series) : ~(other <= y) /\ other <= used
  <2> DEFINE S == TermsBy(series, y)
  <2>1. /\ S \in SUBSET Scored(series) /\ Scored(series) \in SUBSET DOMAIN series
        /\ S = {x \in Scored(series) : x <= y}
        /\ used = IF S # {} THEN Max(S) ELSE Max(Scored(series))
    BY <1>3 DEF TermsBy, Scored, TermUsed
  <2> HIDE DEF S, series, used
  <2>2. /\ IsFiniteSet(S) /\ IsFiniteSet(Scored(series))
        /\ S \in SUBSET Int /\ Scored(series) \in SUBSET Int
    BY <1>6, <2>1, FS_Subset
  <2>3. CASE S # {}
    BY <2>1, <2>2, <2>3, MaxIsGreatest
  <2>4. CASE S = {}
    BY <1>3, <2>1, <2>2, <2>4, MaxIsGreatest
  <2> QED BY <2>3, <2>4
<1>9. \A term \in Scored(series) : \E i \in scored(j) : rows[i].term = term /\ rows[i].score = series[term]
  <2> TAKE term \in Scored(series)
  <2>1. term \in DOMAIN series /\ series[term] # NoScore
    BY DEF Scored
  <2> HIDE DEF series, rows
  <2>2. PICK i \in DOMAIN rows :
          /\ rows[i].justice = j /\ rows[i].term = term /\ series[term] = rows[i].score
          /\ \A later \in DOMAIN rows :
               rows[later].justice = j /\ rows[later].term = term => later <= i
    BY <1>6, <2>1
  <2>3. counts(i)
    BY <1>7, <2>2
  <2> QED BY <2>1, <2>2, <2>3
<1>10. \A i \in scored(j) : rows[i].term \in Scored(series) /\ rows[i].term \in Int
  <2> TAKE i \in scored(j)
  <2> HIDE DEF series, rows
  <2>1. /\ i \in DOMAIN rows /\ rows[i].justice = j /\ rows[i].score # NoScore
        /\ \A later \in DOMAIN rows :
             rows[later].justice = j /\ later > i => rows[later].term # rows[i].term
    OBVIOUS
  <2>2. PICK n \in DOMAIN rows :
          /\ rows[n].justice = j /\ rows[n].term = rows[i].term
          /\ series[rows[i].term] = rows[n].score /\ i <= n
    BY <1>6, <2>1
  <2>3. i = n
    BY <1>7, <2>1, <2>2
  <2> QED BY <1>6, <2>1, <2>2, <2>3 DEF Scored
<1>11. PICK i \in scored(j) : rows[i].term = used /\ rows[i].score = series[used]
  BY <1>8, <1>9
<1>12. i \in eligible(j) /\ \A other \in eligible(j) : rows[other].term <= rows[i].term
  <2> HIDE DEF scored, series, used, rows
  <2>1. CASE by(j) # {}
    <3>1. PICK o \in scored(j) : rows[o].term <= y
      BY <2>1
    <3>2. used <= y /\ \A other \in Scored(series) : other <= y => other <= used
      BY <1>8, <1>10, <3>1
    <3> QED BY <1>10, <1>11, <2>1, <3>2
  <2>2. CASE by(j) = {}
    <3>1. \A other \in Scored(series) : other <= used
      BY <1>8, <1>11, <2>2
    <3> QED BY <1>10, <1>11, <2>2, <3>1
  <2> QED BY <2>1, <2>2
<1> HIDE DEF eligible, rows, series, used, shown
<1>13. \E n \in eligible(rows[first].justice) :
         /\ shown.term = rows[n].term /\ shown.score = rows[n].score
         /\ \A other \in eligible(rows[first].justice) : rows[other].term <= rows[n].term
  BY <1>4, <1>5, <1>11, <1>12
<1> QED BY <1>5, <1>13 DEF eligible, rows, shown

-----------------------------------------------------------------------------
(* Rows of judges *)

LEMMA NewJudgeType ==
  ASSUME NEW c \in Slug \cup {NoCourt}
  PROVE  /\ NewJudge(c) \in JudgeRow /\ NewJudge(c).court = c /\ NewJudge(c).severity = None
         /\ \A s \in Sources : NewJudge(c)[s] = NoScore
BY DEF NewJudge, JudgeRow, Sources

\* What populate-kg makes of a row keeps all of it.
LEMMA PopulatedJudgeKeeps ==
  ASSUME NEW row \in JudgeRow \cup {NoJudge}, NEW c \in Slug \cup {NoCourt}
  PROVE  /\ PopulatedJudge(row, c) \in JudgeRow
         /\ row # NoJudge => PopulatedJudge(row, c) = row
         /\ row = NoJudge => PopulatedJudge(row, c) = NewJudge(c)
BY NewJudgeType DEF PopulatedJudge

\* What extract-features makes of a row keeps all of it but the tally.
LEMMA ExtractedBioKeeps ==
  ASSUME NEW row \in JudgeRow \cup {NoJudge}, NEW tally \in Tally
  PROVE  LET new == ExtractedBio(row, tally)
             old == IF row = NoJudge THEN NewJudge(NoCourt) ELSE row
         IN  /\ new \in JudgeRow /\ new.severity = tally /\ new.court = old.court
             /\ \A s \in Sources : new[s] = old[s]
<1> DEFINE old == IF row = NoJudge THEN NewJudge(NoCourt) ELSE row
<1>1. old \in JudgeRow
  BY NewJudgeType
<1>2. ExtractedBio(row, tally) = [old EXCEPT !.severity = tally]
  BY DEF ExtractedBio
<1> HIDE DEF old
<1>3. [old EXCEPT !.severity = tally] \in JudgeRow
  BY <1>1 DEF JudgeRow
<1>4. /\ [old EXCEPT !.severity = tally].severity = tally
      /\ [old EXCEPT !.severity = tally].court = old.court
      /\ \A s \in Sources : [old EXCEPT !.severity = tally][s] = old[s]
  BY <1>1 DEF JudgeRow, Sources
<1> QED BY <1>2, <1>3, <1>4 DEF old

\* What an importer makes of a row keeps all of it but its own score.
LEMMA ScoreWritten ==
  ASSUME NEW row \in JudgeRow, NEW s \in Sources, NEW bio \in Bio(s)
  PROVE  LET new == [row EXCEPT ![s] = bio]
         IN  /\ new \in JudgeRow /\ new[s] = bio
             /\ new.severity = row.severity /\ new.court = row.court
             /\ \A other \in Sources \ {s} : new[other] = row[other]
<1>1. CASE s = "martin_quinn"
  BY <1>1 DEF JudgeRow, Sources
<1>2. CASE s = "judicial_common_space"
  BY <1>2 DEF JudgeRow, Sources
<1>3. CASE s = "bonica_dime"
  BY <1>3 DEF JudgeRow, Sources
<1> QED BY <1>1, <1>2, <1>3 DEF Sources

\* A score in a row is a score.
LEMMA ScoreIsBio ==
  ASSUME NEW row \in JudgeRow, NEW s \in Sources, row[s] # NoScore
  PROVE  row[s] \in Bio(s)
BY DEF JudgeRow, Sources

\* A match is with a judge of the tenant, of the court the confidence says.
LEMMA MatchFinds ==
  ASSUME NEW table \in [Key -> JudgeRow \cup {NoJudge}], NEW entry,
         Match(table, entry) # NoMatch
  PROVE  LET hit == Match(table, entry)
         IN  /\ hit \in Hit /\ table[hit.judge] # NoJudge
             /\ table[hit.judge].court = Home(hit.confidence, entry)
<1> DEFINE at(k, c) == k \in DOMAIN table /\ table[k] # NoJudge /\ table[k].court = c
           full == FullKey(entry.name)
           last == LastKey(entry.name)
           known == entry.court # NoCourt
           hit == Match(table, entry)
<1>1. \/ at(full, entry.court) /\ hit = [judge |-> full, confidence |-> "exact"]
      \/ at(full, NoCourt) /\ hit = [judge |-> full, confidence |-> "name_only"]
      \/ at(last, entry.court) /\ hit = [judge |-> last, confidence |-> "last_name_and_court"]
  BY DEF Match
<1>2. \A k, c : at(k, c) => k \in Key
  OBVIOUS
<1> HIDE DEF hit, full, last
<1>3. CASE at(full, entry.court) /\ hit = [judge |-> full, confidence |-> "exact"]
  BY <1>2, <1>3 DEF Hit, Confidence, Home, hit
<1>4. CASE at(full, NoCourt) /\ hit = [judge |-> full, confidence |-> "name_only"]
  BY <1>2, <1>4 DEF Hit, Confidence, Home, hit
<1>5. CASE at(last, entry.court) /\ hit = [judge |-> last, confidence |-> "last_name_and_court"]
  BY <1>2, <1>5 DEF Hit, Confidence, Home, hit
<1> QED BY <1>1, <1>3, <1>4, <1>5

-----------------------------------------------------------------------------
(* What each step does to the processes *)

\* Of all processes only r changes, and it is in a state a process can be in.
Moves(r) ==
  /\ DOMAIN run' = Runs
  /\ \A q \in Runs \ {r} : run'[q] = run[q]
  /\ RunOk(run'[r])

\* A process in a phase has the shape of the phase.
LEMMA Shape ==
  ASSUME NEW me, RunOk(me)
  PROVE  /\ me.pc \in {"idle", "courts", "judges", "docs", "severity", "winrates", "match", "update"}
         /\ me.pc = "idle" => me = Idle
         /\ me.pc = "courts" => me \in CourtsRun
         /\ me.pc = "judges" => \E names \in SUBSET Key : me \in JudgesRun(names)
         /\ me.pc = "docs" => me \in ExtractRun("docs", Docs, {})
         /\ me.pc = "severity" =>
              \E names \in SUBSET Key : me \in ExtractRun("severity", Slug \X Key, names)
         /\ me.pc = "winrates" =>
              \E names \in SUBSET Key : me \in ExtractRun("winrates", Counsel, names)
         /\ me.pc = "match" => \E s \in Sources : me \in ImportRun("match", {NoMatch}, s)
         /\ me.pc = "update" => \E s \in Sources :
              /\ me \in ImportRun("update", Hit, s)
              /\ me.todo # <<>> /\ Head(me.todo) \in ScoredEntries(s)
<1>1. CASE me = Idle
  BY <1>1 DEF Idle
<1>2. CASE me \in CourtsRun
  BY <1>2 DEF CourtsRun
<1>3. CASE me \in ExtractRun("docs", Docs, {})
  BY <1>3 DEF ExtractRun
<1>4. ASSUME NEW names \in SUBSET Key, me \in JudgesRun(names)
      PROVE  me.pc = "judges"
  BY <1>4 DEF JudgesRun
<1>5. ASSUME NEW names \in SUBSET Key, me \in ExtractRun("severity", Slug \X Key, names)
      PROVE  me.pc = "severity"
  BY <1>5 DEF ExtractRun
<1>6. ASSUME NEW names \in SUBSET Key, me \in ExtractRun("winrates", Counsel, names)
      PROVE  me.pc = "winrates"
  BY <1>6 DEF ExtractRun
<1>7. ASSUME NEW s \in Sources, me \in ImportRun("match", {NoMatch}, s)
      PROVE  me.pc = "match"
  BY <1>7 DEF ImportRun
<1>8. ASSUME NEW s \in Sources, me \in ImportRun("update", Hit, s)
      PROVE  me.pc = "update"
  BY <1>8 DEF ImportRun
<1> QED BY <1>1, <1>2, <1>3, <1>4, <1>5, <1>6, <1>7, <1>8, Zenon DEF RunOk

\* The row the next statement writes.
LEMMA NextRow ==
  ASSUME TypeOK, NEW r \in Runs, run[r].todo # <<>>,
         run[r].pc \in {"courts", "judges", "docs", "severity", "winrates"}
  PROVE  /\ Item(r) = <<run[r].pc, Head(run[r].todo)>>
         /\ RowOf(r, Item(r)) \in Rows
         /\ run[r].pc \in {"courts", "judges"} =>
              RowOf(r, Item(r)) = <<run[r].pc, run[r].tenant, Head(run[r].todo)>>
<1> DEFINE me == run[r]
           x == Head(me.todo)
<1>1. RunOk(me)
  BY DEF TypeOK
<1>2. Item(r) = <<me.pc, x>>
  BY DEF Item
<1>3. CASE me.pc = "courts"
  <2>1. me.tenant \in Tenants /\ x \in Slug
    BY <1>1, <1>3, Shape, TailOf DEF CourtsRun
  <2> QED BY <1>2, <1>3, <2>1 DEF RowOf, Rows
<1>4. CASE me.pc = "judges"
  <2>1. me.tenant \in Tenants /\ x \in Key
    BY <1>1, <1>4, Shape, TailOf DEF JudgesRun
  <2> QED BY <1>2, <1>4, <2>1 DEF RowOf, Rows
<1>5. CASE me.pc = "docs"
  <2>1. x \in Docs
    BY <1>1, <1>5, Shape, TailOf DEF ExtractRun
  <2> QED BY <1>2, <1>5, <2>1 DEF RowOf, Rows
<1>6. CASE me.pc = "severity"
  <2>1. me.tenant \in Tenants /\ x \in Slug \X Key
    BY <1>1, <1>6, Shape, TailOf DEF ExtractRun
  <2> QED BY <1>2, <1>6, <2>1 DEF RowOf, Rows
<1>7. CASE me.pc = "winrates"
  <2>1. me.tenant \in Tenants /\ x \in Counsel
    BY <1>1, <1>7, Shape, TailOf DEF ExtractRun
  <2> QED BY <1>2, <1>7, <2>1 DEF RowOf, Rows
<1> QED BY <1>3, <1>4, <1>5, <1>6, <1>7

LEMMA Known ==
  ASSUME TypeOK
  PROVE  /\ corpus \subseteq Docs
         /\ \A d \in Docs : /\ Text[d].court \in Slug
                            /\ KeysOf(HeadNames[d]) \subseteq Key
                            /\ KeysOf(AllNames[d]) \subseteq Key
BY JudgesAssumption DEF TypeOK

LEMMA Put ==
  ASSUME TypeOK, NEW r \in Runs, NEW v, RunOk(v), run' = [run EXCEPT ![r] = v]
  PROVE  Moves(r) /\ run'[r] = v
<1>1. DOMAIN run = Runs /\ \A q \in Runs : RunOk(run[q])
  BY DEF TypeOK
<1>2. run'[r] = v /\ DOMAIN run' = Runs /\ \A q \in Runs \ {r} : run'[q] = run[q]
  BY <1>1
<1> QED BY <1>2 DEF Moves

LEMMA Freed ==
  ASSUME TypeOK, NEW r \in Runs, run' = [run EXCEPT ![r] = Idle]
  PROVE  Moves(r) /\ run'[r] = Idle
BY Put DEF RunOk

LEMMA PopulateStartMoves ==
  ASSUME TypeOK, NEW r \in Runs, NEW t \in Tenants, PopulateStart(r, t)
  PROVE  /\ Moves(r) /\ run'[r] \in CourtsRun
         /\ run'[r].held = {} /\ run'[r].tenant = t
         /\ \E S : run'[r].todo = InOrder(S, Courts)
<1> DEFINE slugs == {Text[d].court : d \in corpus}
           v == [pc |-> "courts", tenant |-> t, slugs |-> slugs,
                 todo |-> InOrder(slugs, Courts), seen |-> <<>>, held |-> {}]
<1>1. slugs \subseteq Slug
  BY Known
<1>2. InOrder(slugs, Courts) \in Seq(Slug)
  BY JudgesAssumption, InOrderRises
<1>3. run' = [run EXCEPT ![r] = v]
  BY DEF PopulateStart
<1> HIDE DEF slugs
<1>4. v \in CourtsRun
  BY <1>1, <1>2 DEF CourtsRun
<1>5. RunOk(v) /\ v.held = {} /\ v.tenant = t /\ v.todo = InOrder(slugs, Courts)
  BY <1>4 DEF RunOk
<1> HIDE DEF v
<1> QED BY <1>3, <1>4, <1>5, Put

LEMMA InsertMoves ==
  ASSUME TypeOK, NEW r \in Runs, NEW pc \in {"courts", "judges"}, Insert(r, pc)
  PROVE  /\ Moves(r) /\ run[r].pc = pc /\ run[r].todo # <<>>
         /\ run'[r].pc = pc /\ run'[r].tenant = run[r].tenant
         /\ run'[r].todo = Tail(run[r].todo)
         /\ run'[r].held \subseteq run[r].held \cup {<<pc, run[r].tenant, Head(run[r].todo)>>}
<1> DEFINE held == IF Exists(r, Item(r)) THEN run[r].held ELSE run[r].held \cup {RowOf(r, Item(r))}
           v == [run[r] EXCEPT !.todo = Tail(run[r].todo), !.held = held]
<1>1. run[r].pc = pc /\ run[r].todo # <<>> /\ RunOk(run[r])
  BY DEF Insert, TypeOK
<1>2. /\ RowOf(r, Item(r)) = <<pc, run[r].tenant, Head(run[r].todo)>>
      /\ RowOf(r, Item(r)) \in Rows
  BY <1>1, NextRow
<1>3. /\ DOMAIN run' = Runs /\ \A q \in Runs \ {r} : run'[q] = run[q]
      /\ run'[r] = v
  BY DEF Insert, TypeOK
<1>4. held \subseteq run[r].held \cup {<<pc, run[r].tenant, Head(run[r].todo)>>}
  BY <1>2
<1>5. run[r].held \subseteq Rows => held \subseteq Rows
  BY <1>2
<1> HIDE DEF held
<1>6. CASE pc = "courts"
  <2>1. run[r] \in CourtsRun
    BY <1>1, <1>6, Shape
  <2>2. Tail(run[r].todo) \in Seq(Slug) /\ held \subseteq Rows
    BY <1>1, <1>5, <2>1, TailOf DEF CourtsRun
  <2>3. v \in CourtsRun /\ v.pc = pc /\ v.tenant = run[r].tenant /\ v.held = held
        /\ v.todo = Tail(run[r].todo)
    BY <1>6, <2>1, <2>2 DEF CourtsRun
  <2> QED BY <1>1, <1>3, <1>4, <2>3 DEF Moves, RunOk
<1>7. CASE pc = "judges"
  <2>1. PICK names \in SUBSET Key : run[r] \in JudgesRun(names)
    BY <1>1, <1>7, Shape
  <2>2. Tail(run[r].todo) \in Seq(Key) /\ held \subseteq Rows
    BY <1>1, <1>5, <2>1, TailOf DEF JudgesRun
  <2>3. v \in JudgesRun(names) /\ v.pc = pc /\ v.tenant = run[r].tenant /\ v.held = held
        /\ v.todo = Tail(run[r].todo)
    BY <1>7, <2>1, <2>2 DEF JudgesRun
  <2> QED BY <1>1, <1>3, <1>4, <2>3 DEF Moves, RunOk
<1> QED BY <1>6, <1>7

LEMMA PopulateScanMoves ==
  ASSUME TypeOK, NEW r \in Runs, PopulateScan(r)
  PROVE  /\ Moves(r) /\ run[r].pc = "courts" /\ run'[r].pc = "judges"
         /\ run'[r].held = run[r].held /\ run'[r].tenant = run[r].tenant
         /\ \E S : run'[r].todo = InOrder(S, Keys)
<1> DEFINE names == UNION {KeysOf(HeadNames[d]) : d \in corpus}
<1>1. PICK seen \in [names -> Slug], order \in JudgeOrders(names) :
        run' = [run EXCEPT ![r].pc = "judges", ![r].seen = seen, ![r].todo = order]
  BY DEF PopulateScan, Slug
<1>2. run[r] \in CourtsRun
  BY Shape DEF PopulateScan, TypeOK
<1>3. names \in SUBSET Key
  BY Known
<1>4. order = InOrder(names, Keys) /\ order \in Seq(Key)
  BY JudgesAssumption, InOrderRises DEF JudgeOrders
<1> DEFINE v == [run[r] EXCEPT !.pc = "judges", !.seen = seen, !.todo = order]
<1>5. /\ DOMAIN run' = Runs /\ \A q \in Runs \ {r} : run'[q] = run[q]
      /\ run'[r] = v
  <2>1. DOMAIN run = Runs
    BY DEF TypeOK
  <2> QED BY <1>1, <2>1
<1>6. seen \in [names -> Slug]
  OBVIOUS
<1> HIDE DEF names
<1>7. v \in JudgesRun(names)
  BY <1>2, <1>4, <1>6 DEF CourtsRun, JudgesRun
<1>8. /\ v.pc = "judges" /\ v.held = run[r].held /\ v.tenant = run[r].tenant /\ v.todo = order
      /\ run[r].pc = "courts"
  BY <1>2 DEF CourtsRun
<1> QED BY <1>3, <1>4, <1>5, <1>7, <1>8 DEF Moves, RunOk

LEMMA ExtractStartMoves ==
  ASSUME TypeOK, NEW r \in Runs, NEW t \in Tenants, ExtractStart(r, t)
  PROVE  /\ Moves(r) /\ run'[r].pc = "docs" /\ run'[r].patch = <<>>
         /\ run'[r].batch \subseteq corpus
<1>1. PICK order \in SetToSeqs(Unextracted) :
        run' = [run EXCEPT ![r] = [pc |-> "docs", tenant |-> t, batch |-> Unextracted,
                                   todo |-> order, held |-> {}, patch |-> <<>>]]
  BY DEF ExtractStart
<1> DEFINE v == [pc |-> "docs", tenant |-> t, batch |-> Unextracted,
                 todo |-> order, held |-> {}, patch |-> <<>>]
<1>2. Unextracted \subseteq corpus /\ Unextracted \in SUBSET Docs
  BY Known DEF Unextracted
<1>3. order \in Seq(Unextracted)
  BY <1>2, FiniteParts, AnyOrder
<1>4. order \in Seq(Docs)
  BY <1>2, <1>3, SeqMonotonic
<1>5. <<>> \in [{} -> Tally]
  OBVIOUS
<1>6. v \in ExtractRun("docs", Docs, {})
  BY <1>2, <1>4, <1>5 DEF ExtractRun
<1>7. RunOk(v) /\ v.pc = "docs" /\ v.patch = <<>> /\ v.batch = Unextracted
  BY <1>6 DEF RunOk
<1> HIDE DEF v
<1>8. run' = [run EXCEPT ![r] = v]
  BY <1>1 DEF v
<1> QED BY <1>2, <1>7, <1>8, Put

LEMMA TakenType ==
  ASSUME TypeOK, NEW r \in Runs, NEW pc \in {"docs", "severity", "winrates"}, Turn(r, pc),
         NEW items, NEW names, run[r] \in ExtractRun(pc, items, names)
  PROVE  /\ Taken(r) \in ExtractRun(pc, items, names)
         /\ Taken(r).todo = Tail(run[r].todo) /\ Taken(r).patch = run[r].patch
         /\ Taken(r).batch = run[r].batch /\ Taken(r).pc = pc
         /\ run[r].pc = pc /\ Head(run[r].todo) \in items /\ run[r].todo \in Seq(items)
         /\ run[r].todo # <<>>
<1>1. run[r].pc = pc /\ run[r].todo # <<>>
  BY DEF Turn
<1>2. run[r].todo \in Seq(items)
  BY DEF ExtractRun
<1>3. Tail(run[r].todo) \in Seq(items) /\ Head(run[r].todo) \in items
  BY <1>1, <1>2, TailOf
<1>4. RowOf(r, Item(r)) \in Rows
  BY <1>1, NextRow
<1> QED BY <1>1, <1>2, <1>3, <1>4 DEF Taken, ExtractRun

LEMMA ExtractDocMoves ==
  ASSUME TypeOK, NEW r \in Runs, ExtractDoc(r)
  PROVE  /\ Moves(r) /\ run[r].pc = "docs" /\ run'[r].pc = "docs"
         /\ run'[r].patch = run[r].patch /\ run'[r].batch = run[r].batch
<1>1. Turn(r, "docs") /\ run' = [run EXCEPT ![r] = Taken(r)]
  BY DEF ExtractDoc
<1>2. run[r] \in ExtractRun("docs", Docs, {})
  BY <1>1, Shape DEF Turn, TypeOK
<1>3. /\ Taken(r) \in ExtractRun("docs", Docs, {}) /\ Taken(r).patch = run[r].patch
      /\ Taken(r).batch = run[r].batch /\ Taken(r).pc = "docs" /\ run[r].pc = "docs"
  BY <1>1, <1>2, TakenType
<1>4. RunOk(Taken(r))
  BY <1>3 DEF RunOk
<1> QED BY <1>1, <1>3, <1>4, Put

LEMMA ExtractAttorneyMoves ==
  ASSUME TypeOK, NEW r \in Runs, ExtractAttorney(r)
  PROVE  /\ Moves(r) /\ run[r].pc = "winrates" /\ run'[r].pc = "winrates"
         /\ run'[r].patch = run[r].patch /\ run'[r].batch = run[r].batch
<1>1. Turn(r, "winrates") /\ run' = [run EXCEPT ![r] = Taken(r)]
  BY DEF ExtractAttorney
<1>2. PICK names \in SUBSET Key : run[r] \in ExtractRun("winrates", Counsel, names)
  BY <1>1, Shape DEF Turn, TypeOK
<1>3. /\ Taken(r) \in ExtractRun("winrates", Counsel, names) /\ Taken(r).patch = run[r].patch
      /\ Taken(r).batch = run[r].batch /\ Taken(r).pc = "winrates" /\ run[r].pc = "winrates"
  BY <1>1, <1>2, TakenType
<1>4. RunOk(Taken(r))
  BY <1>3 DEF RunOk
<1> QED BY <1>1, <1>3, <1>4, Put

\* One more judge of the list has a tally.
LEMMA ExtractJudgeMoves ==
  ASSUME TypeOK, NEW r \in Runs, ExtractJudge(r)
  PROVE  LET pair == Head(run[r].todo)
         IN  /\ Moves(r) /\ run[r].pc = "severity" /\ run'[r].pc = "severity"
             /\ run'[r].batch = run[r].batch /\ run'[r].todo = Tail(run[r].todo)
             /\ run[r].todo \in Seq(Slug \X Key) /\ run[r].todo # <<>> /\ pair \in Slug \X Key
             /\ DOMAIN run'[r].patch = DOMAIN run[r].patch \cup {pair[2]}
             /\ \A k \in DOMAIN run[r].patch : k # pair[2] => run'[r].patch[k] = run[r].patch[k]
             /\ run'[r].patch[pair[2]] = Severity(run[r].batch, pair[1], pair[2])
<1> DEFINE pair == Head(run[r].todo)
           tally == Severity(run[r].batch, pair[1], pair[2])
           old == run[r].patch
           patch == [k \in DOMAIN old \cup {pair[2]} |-> IF k = pair[2] THEN tally ELSE old[k]]
           v == [Taken(r) EXCEPT !.patch = patch]
<1>1. Turn(r, "severity")
  BY DEF ExtractJudge
<1>2. PICK names \in SUBSET Key : run[r] \in ExtractRun("severity", Slug \X Key, names)
  BY <1>1, Shape DEF Turn, TypeOK
<1>3. /\ Taken(r) \in ExtractRun("severity", Slug \X Key, names)
      /\ Taken(r).todo = Tail(run[r].todo) /\ Taken(r).patch = old
      /\ Taken(r).batch = run[r].batch /\ run[r].pc = "severity"
      /\ run[r].todo \in Seq(Slug \X Key) /\ run[r].todo # <<>> /\ pair \in Slug \X Key
  BY <1>1, <1>2, TakenType
<1>4. run' = [run EXCEPT ![r] = v]
  BY <1>3 DEF ExtractJudge
<1>5. old \in [names -> Tally] /\ run[r].batch \in SUBSET Docs
  BY <1>2 DEF ExtractRun
<1>6. tally \in Tally
  BY <1>5, SeverityTally
<1> HIDE DEF tally
<1>7. patch \in [names \cup {pair[2]} -> Tally]
  BY <1>5, <1>6
<1>8. names \cup {pair[2]} \in SUBSET Key
  BY <1>3
<1>9. /\ DOMAIN patch = DOMAIN old \cup {pair[2]} /\ patch[pair[2]] = tally
      /\ \A k \in DOMAIN old : k # pair[2] => patch[k] = old[k]
  BY <1>5
<1> HIDE DEF patch, pair
<1>10. /\ v \in ExtractRun("severity", Slug \X Key, names \cup {pair[2]})
       /\ v.pc = "severity" /\ v.batch = Taken(r).batch /\ v.todo = Taken(r).todo
       /\ v.patch = patch
  BY <1>3, <1>7 DEF ExtractRun
<1>11. RunOk(v)
  BY <1>8, <1>10 DEF RunOk
<1> HIDE DEF v
<1>12. Moves(r) /\ run'[r] = v
  BY <1>4, <1>11, Put
<1>13. /\ DOMAIN run'[r].patch = DOMAIN old \cup {pair[2]} /\ run'[r].patch[pair[2]] = tally
       /\ \A k \in DOMAIN old : k # pair[2] => run'[r].patch[k] = old[k]
  BY <1>9, <1>10, <1>12
<1> QED BY <1>3, <1>10, <1>12, <1>13 DEF pair, tally

\* The judges of the documents are listed, each with the court.
LEMMA ExtractTallyMoves ==
  ASSUME TypeOK, NEW r \in Runs, ExtractTally(r)
  PROVE  /\ Moves(r) /\ run[r].pc = "docs" /\ run'[r].pc = "severity"
         /\ run'[r].patch = run[r].patch /\ run'[r].batch = run[r].batch
         /\ \A d \in run[r].batch : \A k \in KeysOf(AllNames[d]) :
              <<Text[d].court, k>> \in ToSet(run'[r].todo)
         /\ Listed(run'[r].todo, run[r].batch)
<1> DEFINE pairs == UNION {{Text[d].court} \X KeysOf(AllNames[d]) : d \in run[r].batch}
<1>1. run[r].pc = "docs"
  BY DEF ExtractTally, GoThrough
<1>2. PICK order \in SetToSeqs(pairs) :
        run' = [run EXCEPT ![r].pc = "severity", ![r].todo = order]
  BY DEF ExtractTally, GoThrough
<1>3. run[r] \in ExtractRun("docs", Docs, {})
  BY <1>1, Shape DEF TypeOK
<1>4. run[r].batch \in SUBSET Docs
  BY <1>3 DEF ExtractRun
<1>5. /\ pairs \in SUBSET (Slug \X Key)
      /\ \A d \in run[r].batch : \A k \in KeysOf(AllNames[d]) : <<Text[d].court, k>> \in pairs
      /\ \A pair \in pairs : \E d \in run[r].batch :
           Text[d].court = pair[1] /\ pair[2] \in KeysOf(AllNames[d])
  BY <1>4, Known
<1> HIDE DEF pairs
<1>6. IsFiniteSet(pairs)
  BY <1>5, FiniteParts, FS_Subset
<1>7. order \in Seq(pairs) /\ ToSet(order) = pairs
  BY <1>6, AnyOrder
<1>8. order \in Seq(Slug \X Key)
  BY <1>5, <1>7, SeqMonotonic
<1> DEFINE v == [run[r] EXCEPT !.pc = "severity", !.todo = order]
<1>9. run' = [run EXCEPT ![r] = v]
  BY <1>2
<1>10. /\ v \in ExtractRun("severity", Slug \X Key, {}) /\ v.pc = "severity"
       /\ v.patch = run[r].patch /\ v.batch = run[r].batch /\ v.todo = order
  BY <1>3, <1>8 DEF ExtractRun
<1>11. RunOk(v)
  BY <1>10 DEF RunOk
<1>12. Listed(order, run[r].batch)
  BY <1>5, <1>7 DEF Listed
<1> HIDE DEF v
<1> QED BY <1>1, <1>5, <1>7, <1>9, <1>10, <1>11, <1>12, Put

LEMMA ExtractCounselMoves ==
  ASSUME TypeOK, NEW r \in Runs, ExtractCounsel(r)
  PROVE  /\ Moves(r) /\ run[r].pc = "severity" /\ run'[r].pc = "winrates"
         /\ run[r].todo = <<>>
         /\ run'[r].patch = run[r].patch /\ run'[r].batch = run[r].batch
<1> DEFINE counsel == NamesOfCounsel(run[r].batch)
<1>1. run[r].pc = "severity" /\ run[r].todo = <<>>
  BY DEF ExtractCounsel, GoThrough
<1>2. PICK order \in SetToSeqs(counsel) :
        run' = [run EXCEPT ![r].pc = "winrates", ![r].todo = order]
  BY DEF ExtractCounsel, GoThrough
<1>3. PICK names \in SUBSET Key : run[r] \in ExtractRun("severity", Slug \X Key, names)
  BY <1>1, Shape DEF TypeOK
<1>4. run[r].batch \in SUBSET Docs
  BY <1>3 DEF ExtractRun
<1>5. counsel \subseteq Counsel /\ IsFiniteSet(counsel)
  BY <1>4, CounselNamed
<1> HIDE DEF counsel
<1>6. order \in Seq(Counsel)
  BY <1>5, AnyOrder, SeqMonotonic
<1> DEFINE v == [run[r] EXCEPT !.pc = "winrates", !.todo = order]
<1>7. run' = [run EXCEPT ![r] = v]
  BY <1>2
<1>8. /\ v \in ExtractRun("winrates", Counsel, names) /\ v.pc = "winrates"
      /\ v.patch = run[r].patch /\ v.batch = run[r].batch
  BY <1>3, <1>6 DEF ExtractRun
<1>9. RunOk(v)
  BY <1>8 DEF RunOk
<1> HIDE DEF v
<1> QED BY <1>1, <1>7, <1>8, <1>9, Put

LEMMA ImportStartMoves ==
  ASSUME TypeOK, NEW r \in Runs, NEW t \in Tenants, NEW s \in Sources, ImportStart(r, t, s)
  PROVE  Moves(r) /\ run'[r].pc = "match"
<1> DEFINE v == [pc |-> "match", tenant |-> t, source |-> s, hit |-> NoMatch,
                 todo |-> EntriesOf[s]]
<1>1. v \in ImportRun("match", {NoMatch}, s)
  BY EntriesListed DEF ImportRun
<1>2. RunOk(v)
  BY <1>1 DEF RunOk
<1>3. run' = [run EXCEPT ![r] = v] /\ v.pc = "match"
  BY DEF ImportStart
<1> HIDE DEF v
<1> QED BY <1>2, <1>3, Put

\* Either the entry is passed over, or a judge is found for it.
LEMMA ImportMatchMoves ==
  ASSUME TypeOK, NEW r \in Runs, ImportMatch(r)
  PROVE  /\ Moves(r) /\ run[r].pc = "match"
         /\ \/ run'[r].pc = "match"
            \/ /\ run'[r].pc = "update"
               /\ LET row == judges[run'[r].tenant][run'[r].hit.judge]
                  IN  row # NoJudge /\ row.court = Home(run'[r].hit.confidence, Head(run'[r].todo))
<1> DEFINE me == run[r]
           entry == Head(me.todo)
           table == judges[me.tenant]
           hit == IF entry.bio = NoScore THEN NoMatch ELSE Match(table, entry)
<1>1. me.pc = "match" /\ me.todo # <<>>
  BY DEF ImportMatch
<1>2. PICK s \in Sources : me \in ImportRun("match", {NoMatch}, s)
  BY <1>1, Shape DEF TypeOK
<1>3. me.tenant \in Tenants /\ me.todo \in Seq(ToSet(EntriesOf[s])) /\ me.hit = NoMatch
  BY <1>2 DEF ImportRun
<1>4. entry \in ToSet(EntriesOf[s]) /\ Tail(me.todo) \in Seq(ToSet(EntriesOf[s]))
  BY <1>1, <1>3, TailOf
<1>5. table \in [Key -> JudgeRow \cup {NoJudge}]
  BY <1>3 DEF TypeOK
<1>6. CASE hit = NoMatch
  <2> DEFINE v == [me EXCEPT !.todo = Tail(me.todo)]
  <2>1. run' = [run EXCEPT ![r] = v]
    BY <1>6 DEF ImportMatch
  <2>2. v \in ImportRun("match", {NoMatch}, s) /\ v.pc = "match"
    BY <1>2, <1>4 DEF ImportRun
  <2>3. RunOk(v)
    BY <2>2 DEF RunOk
  <2> HIDE DEF v
  <2> QED BY <1>1, <2>1, <2>2, <2>3, Put
<1>7. CASE hit # NoMatch
  <2> DEFINE v == [me EXCEPT !.pc = "update", !.hit = hit]
  <2>1. /\ run' = [run EXCEPT ![r].pc = "update", ![r].hit = hit]
        /\ entry.bio # NoScore /\ hit = Match(table, entry)
    BY <1>7 DEF ImportMatch
  <2>2. /\ hit \in Hit /\ table[hit.judge] # NoJudge
        /\ table[hit.judge].court = Home(hit.confidence, entry)
    BY <1>5, <1>7, <2>1, MatchFinds
  <2> HIDE DEF hit
  <2>3. run' = [run EXCEPT ![r] = v]
    BY <2>1
  <2>4. /\ v \in ImportRun("update", Hit, s) /\ v.pc = "update" /\ v.todo = me.todo
        /\ v.tenant = me.tenant /\ v.hit = hit
    BY <1>2, <2>2 DEF ImportRun
  <2>5. RunOk(v)
    BY <1>1, <1>4, <2>1, <2>4 DEF RunOk, ScoredEntries
  <2> HIDE DEF v
  <2>6. Moves(r) /\ run'[r] = v
    BY <2>3, <2>5, Put
  <2> QED BY <1>1, <2>2, <2>4, <2>6
<1> QED BY <1>6, <1>7

\* The score of the head of the list goes to the judge that was found.
LEMMA ImportUpdateMoves ==
  ASSUME TypeOK, NEW r \in Runs, ImportUpdate(r)
  PROVE  LET me == run[r]
             bio == [entry |-> Head(me.todo), confidence |-> me.hit.confidence]
         IN  /\ Moves(r) /\ run'[r].pc = "match" /\ me.pc = "update"
             /\ me.tenant \in Tenants /\ me.hit.judge \in Key /\ me.source \in Sources
             /\ bio \in Bio(me.source)
<1> DEFINE me == run[r]
           v == [me EXCEPT !.pc = "match", !.hit = NoMatch, !.todo = Tail(me.todo)]
<1>1. me.pc = "update" /\ run' = [run EXCEPT ![r] = v]
  BY DEF ImportUpdate
<1>2. PICK s \in Sources : /\ me \in ImportRun("update", Hit, s)
                           /\ me.todo # <<>> /\ Head(me.todo) \in ScoredEntries(s)
  BY <1>1, Shape DEF TypeOK
<1>3. /\ me.tenant \in Tenants /\ me.source = s /\ me.todo \in Seq(ToSet(EntriesOf[s]))
      /\ me.hit.judge \in Key /\ me.hit.confidence \in Confidence
  BY <1>2 DEF ImportRun, Hit
<1>4. Tail(me.todo) \in Seq(ToSet(EntriesOf[s]))
  BY <1>2, <1>3, TailOf
<1>5. v \in ImportRun("match", {NoMatch}, s) /\ v.pc = "match"
  BY <1>2, <1>4 DEF ImportRun
<1>6. RunOk(v)
  BY <1>5 DEF RunOk
<1> HIDE DEF v
<1>7. Moves(r) /\ run'[r].pc = "match"
  BY <1>1, <1>5, <1>6, Put
<1>8. [entry |-> Head(me.todo), confidence |-> me.hit.confidence] \in Bio(s)
  BY <1>2, <1>3 DEF Bio
<1> QED BY <1>1, <1>3, <1>7, <1>8

-----------------------------------------------------------------------------
(* Kinds of steps *)

Populating(r) ==
  \/ \E t \in Tenants : PopulateStart(r, t)
  \/ PopulateCourt(r) \/ PopulateScan(r) \/ PopulateJudge(r)
ExtractGoesOn(r) ==
  \/ \E t \in Tenants : ExtractStart(r, t)
  \/ ExtractDoc(r) \/ ExtractTally(r) \/ ExtractJudge(r) \/ ExtractCounsel(r) \/ ExtractAttorney(r)
Importing(r) ==
  \/ \E t \in Tenants, s \in Sources : ImportStart(r, t, s)
  \/ ImportMatch(r) \/ ImportUpdate(r)
Ending(r) == PopulateCommit(r) \/ ExtractCommit(r) \/ ImportEnd(r) \/ Victim(r) \/ Killed(r)

LEMMA Kinds ==
  ASSUME [Next]_vars
  PROVE  \/ \E r \in Runs : Populating(r) \/ ExtractGoesOn(r) \/ Importing(r) \/ Ending(r)
         \/ \E d \in Docs : Publish(d)
         \/ UNCHANGED vars
BY Zenon DEF Next, Step, PopulateStep, ExtractStep, ImportStep, Populating, ExtractGoesOn,
             Importing, Ending

\* A commit that a run ends with, the score of an importer and an opinion that is
\* published are all that other commands can see.
LEMMA PopulatingSeen ==
  ASSUME NEW r, Populating(r)
  PROVE  UNCHANGED <<corpus, features, courts, judges, attorneys, faults>>
BY DEF Populating, PopulateStart, PopulateCourt, PopulateScan, PopulateJudge, Insert, graph

LEMMA ExtractGoesOnSeen ==
  ASSUME NEW r, ExtractGoesOn(r)
  PROVE  UNCHANGED <<corpus, features, courts, judges, attorneys, faults>>
BY DEF ExtractGoesOn, ExtractStart, ExtractDoc, ExtractTally, ExtractJudge, ExtractCounsel,
       ExtractAttorney, GoThrough, graph

LEMMA ImportingSeen ==
  ASSUME NEW r, Importing(r)
  PROVE  /\ UNCHANGED <<corpus, features, courts, attorneys, faults>>
         /\ ImportUpdate(r) \/ UNCHANGED judges
BY DEF Importing, ImportStart, ImportMatch, ImportUpdate, graph

LEMMA EndingSeen ==
  ASSUME NEW r, Ending(r)
  PROVE  /\ UNCHANGED corpus /\ run' = [run EXCEPT ![r] = Idle]
         /\ \/ PopulateCommit(r) \/ ExtractCommit(r)
            \/ UNCHANGED <<features, courts, judges, attorneys>>
         /\ \/ faults' = faults
            \/ faults < Faults /\ faults' = faults + 1
BY DEF Ending, PopulateCommit, ExtractCommit, ImportEnd, Victim, Killed, graph

LEMMA PopulatingMoves ==
  ASSUME TypeOK, NEW r \in Runs, Populating(r)
  PROVE  Moves(r) /\ run'[r].pc \in {"courts", "judges"}
<1>1. ASSUME NEW t \in Tenants, PopulateStart(r, t) PROVE Moves(r) /\ run'[r].pc = "courts"
  BY <1>1, PopulateStartMoves DEF CourtsRun
<1>2. CASE PopulateCourt(r)
  BY <1>2, InsertMoves DEF PopulateCourt
<1>3. CASE PopulateScan(r)
  BY <1>3, PopulateScanMoves
<1>4. CASE PopulateJudge(r)
  BY <1>4, InsertMoves DEF PopulateJudge
<1> QED BY <1>1, <1>2, <1>3, <1>4 DEF Populating

LEMMA ExtractGoesOnMoves ==
  ASSUME TypeOK, NEW r \in Runs, ExtractGoesOn(r)
  PROVE  /\ Moves(r) /\ run'[r].pc \in {"docs", "severity", "winrates"}
         /\ \/ run'[r].batch \subseteq corpus
            \/ r \in Extracting /\ run'[r].batch = run[r].batch
<1>1. ASSUME NEW t \in Tenants, ExtractStart(r, t)
      PROVE  Moves(r) /\ run'[r].pc = "docs" /\ run'[r].batch \subseteq corpus
  BY <1>1, ExtractStartMoves
<1>2. CASE ExtractDoc(r)
  BY <1>2, ExtractDocMoves DEF Extracting
<1>3. CASE ExtractTally(r)
  BY <1>3, ExtractTallyMoves DEF Extracting
<1>4. CASE ExtractJudge(r)
  BY <1>4, ExtractJudgeMoves DEF Extracting
<1>5. CASE ExtractCounsel(r)
  BY <1>5, ExtractCounselMoves DEF Extracting
<1>6. CASE ExtractAttorney(r)
  BY <1>6, ExtractAttorneyMoves DEF Extracting
<1> QED BY <1>1, <1>2, <1>3, <1>4, <1>5, <1>6 DEF ExtractGoesOn

LEMMA ImportingMoves ==
  ASSUME TypeOK, NEW r \in Runs, Importing(r)
  PROVE  Moves(r) /\ run'[r].pc \in {"match", "update"}
<1>1. ASSUME NEW t \in Tenants, NEW s \in Sources, ImportStart(r, t, s)
      PROVE  Moves(r) /\ run'[r].pc = "match"
  BY <1>1, ImportStartMoves
<1>2. CASE ImportMatch(r)
  BY <1>2, ImportMatchMoves
<1>3. CASE ImportUpdate(r)
  BY <1>3, ImportUpdateMoves
<1> QED BY <1>1, <1>2, <1>3 DEF Importing

LEMMA EndingMoves ==
  ASSUME TypeOK, NEW r \in Runs, Ending(r)
  PROVE  Moves(r) /\ run'[r] = Idle
BY EndingSeen, Freed

\* The processes stay in states they can be in, and only read what is stored.
LEMMA RunsOk ==
  ASSUME TypeOK, [Next]_vars
  PROVE  /\ DOMAIN run' = Runs /\ \A q \in Runs : RunOk(run'[q])
         /\ \A q \in Runs : run'[q].pc \in {"docs", "severity", "winrates"} =>
              run'[q].batch \subseteq corpus'
         /\ corpus \subseteq corpus' /\ corpus' \subseteq Docs
         /\ faults' \in 0..Faults
<1>1. /\ DOMAIN run = Runs /\ \A q \in Runs : RunOk(run[q])
      /\ \A q \in Runs : run[q].pc \in {"docs", "severity", "winrates"} =>
           run[q].batch \subseteq corpus
      /\ corpus \subseteq Docs /\ faults \in 0..Faults
  BY DEF TypeOK, Extracting
<1>2. ASSUME NEW r \in Runs, Moves(r), UNCHANGED corpus,
             run'[r].pc \in {"docs", "severity", "winrates"} => run'[r].batch \subseteq corpus
      PROVE  /\ DOMAIN run' = Runs /\ \A q \in Runs : RunOk(run'[q])
             /\ \A q \in Runs : run'[q].pc \in {"docs", "severity", "winrates"} =>
                  run'[q].batch \subseteq corpus'
             /\ corpus \subseteq corpus' /\ corpus' \subseteq Docs
  BY <1>1, <1>2 DEF Moves
<1>3. ASSUME NEW r \in Runs, Populating(r) PROVE Moves(r) /\ UNCHANGED <<corpus, faults>>
                                            /\ run'[r].pc \notin {"docs", "severity", "winrates"}
  BY <1>3, PopulatingMoves, PopulatingSeen
<1>4. ASSUME NEW r \in Runs, ExtractGoesOn(r)
      PROVE  Moves(r) /\ UNCHANGED <<corpus, faults>> /\ run'[r].batch \subseteq corpus
  BY <1>1, <1>4, ExtractGoesOnMoves, ExtractGoesOnSeen DEF Extracting
<1>5. ASSUME NEW r \in Runs, Importing(r) PROVE Moves(r) /\ UNCHANGED <<corpus, faults>>
                                           /\ run'[r].pc \notin {"docs", "severity", "winrates"}
  BY <1>5, ImportingMoves, ImportingSeen
<1>6. ASSUME NEW r \in Runs, Ending(r) PROVE Moves(r) /\ UNCHANGED corpus
                                        /\ run'[r].pc \notin {"docs", "severity", "winrates"}
                                        /\ faults' \in 0..Faults
  <2>1. Moves(r) /\ UNCHANGED corpus /\ run'[r] = Idle
    BY <1>6, EndingMoves, EndingSeen
  <2>2. \/ faults' = faults
        \/ faults < Faults /\ faults' = faults + 1
    BY <1>6, EndingSeen
  <2> QED BY <1>1, <2>1, <2>2, JudgesAssumption DEF Idle
<1>7. ASSUME NEW d \in Docs, Publish(d) PROVE UNCHANGED <<run, faults>> /\ corpus' = corpus \cup {d}
  BY <1>7 DEF Publish
<1>8. CASE UNCHANGED vars
  BY <1>1, <1>8 DEF vars
<1>9. CASE \E d \in Docs : Publish(d)
  BY <1>1, <1>7, <1>9
<1> QED BY <1>1, <1>2, <1>3, <1>4, <1>5, <1>6, <1>8, <1>9, Kinds

-----------------------------------------------------------------------------
(* What a step does to the graph *)

CourtTable == [Tenants -> [Slug -> {NoCourt, "us-federal", "us-state", "unknown"}]]
JudgeTable == [Tenants -> [Key -> JudgeRow \cup {NoJudge}]]
AttorneyTable == [Tenants -> [Counsel -> Rate \cup {None}]]

\* A judge's row is left alone, populated, given the tally of a run that commits,
\* or given a score.
RowChange(t, k) ==
  \/ judges'[t][k] = judges[t][k]
  \/ \E c \in Slug \cup {NoCourt} :
       /\ c # NoCourt => courts'[t][c] # NoCourt
       /\ judges'[t][k] = PopulatedJudge(judges[t][k], c)
  \/ \E r \in Runs :
       /\ ExtractCommit(r) /\ run[r].pc = "winrates"
       /\ k \in DOMAIN run[r].patch /\ run[r].patch[k] \in Tally
       /\ judges'[t][k] = ExtractedBio(judges[t][k], run[r].patch[k])
  \/ \E r \in Runs :
       LET bio == [entry |-> Head(run[r].todo), confidence |-> run[r].hit.confidence]
       IN  /\ run[r].pc = "update" /\ run[r].tenant = t /\ run[r].hit.judge = k
           /\ judges[t][k] # NoJudge
           /\ run[r].source \in Sources /\ bio \in Bio(run[r].source)
           /\ judges'[t][k] = [judges[t][k] EXCEPT ![run[r].source] = bio]

\* An attorney's win rate is left alone, or of the batch of a run that commits.
RateChange(t, a) ==
  \/ attorneys'[t][a] = attorneys[t][a]
  \/ \E r \in Runs : /\ ExtractCommit(r) /\ a \in NamesOfCounsel(run[r].batch)
                      /\ attorneys'[t][a] = WinRate(run[r].batch, a)

Changes ==
  /\ courts' \in CourtTable /\ judges' \in JudgeTable /\ attorneys' \in AttorneyTable
  /\ \A t \in Tenants, c \in Slug : courts[t][c] # NoCourt => courts'[t][c] # NoCourt
  /\ \A t \in Tenants, a \in Counsel : RateChange(t, a)
  /\ \A t \in Tenants, k \in Key : RowChange(t, k)

LEMMA GraphTypes ==
  ASSUME TypeOK
  PROVE  /\ courts \in CourtTable /\ judges \in JudgeTable /\ attorneys \in AttorneyTable
         /\ \A r \in Runs : RunOk(run[r])
BY DEF TypeOK, CourtTable, JudgeTable, AttorneyTable

LEMMA JurisdictionType ==
  ASSUME NEW c
  PROVE  Jurisdiction(c) \in {"us-federal", "us-state", "unknown"} /\ Jurisdiction(c) # NoCourt
BY JudgesAssumption DEF Jurisdiction

LEMMA Unchanged ==
  ASSUME TypeOK, UNCHANGED <<courts, judges, attorneys>>
  PROVE  Changes
BY GraphTypes DEF Changes, RowChange, RateChange, JudgeTable

LEMMA PopulateCommitChanges ==
  ASSUME TypeOK, NEW r \in Runs, PopulateCommit(r)
  PROVE  Changes
<1> DEFINE me == run[r]
           t0 == me.tenant
           home(k) == IF me.seen[k] \in me.slugs THEN me.seen[k] ELSE NoCourt
           courtsOf == [c \in Slug |-> IF c \in me.slugs THEN Jurisdiction(c) ELSE courts[t0][c]]
           judgesOf == [k \in Key |-> IF k \in DOMAIN me.seen
                                      THEN PopulatedJudge(judges[t0][k], home(k)) ELSE judges[t0][k]]
<1>1. me.pc = "judges" /\ RunOk(me)
  BY GraphTypes DEF PopulateCommit
<1>2. PICK names \in SUBSET Key : me \in JudgesRun(names)
  BY <1>1, Shape
<1>3. t0 \in Tenants /\ me.slugs \subseteq Slug /\ me.seen \in [names -> Slug]
  BY <1>2 DEF JudgesRun
<1>4. courts' = [courts EXCEPT ![t0] = courtsOf] /\ judges' = [judges EXCEPT ![t0] = judgesOf]
  BY DEF PopulateCommit, Slug, Key
<1>5. UNCHANGED attorneys
  BY DEF PopulateCommit
<1>6. /\ courtsOf \in [Slug -> {NoCourt, "us-federal", "us-state", "unknown"}]
      /\ \A c \in Slug : courts[t0][c] # NoCourt => courtsOf[c] # NoCourt
      /\ \A c \in me.slugs : courtsOf[c] # NoCourt
  BY <1>3, GraphTypes, JurisdictionType DEF CourtTable
<1> HIDE DEF courtsOf, judgesOf
<1>7. courts' \in CourtTable /\ courts'[t0] = courtsOf /\ \A t \in Tenants \ {t0} : courts'[t] = courts[t]
  BY <1>3, <1>4, <1>6, GraphTypes DEF CourtTable
<1>8. judges'[t0] = judgesOf /\ \A t \in Tenants \ {t0} : judges'[t] = judges[t]
  BY <1>3, <1>4, GraphTypes DEF JudgeTable
<1>9. judges' \in JudgeTable
  <2>1. \A k \in names : home(k) \in Slug \cup {NoCourt}
    BY <1>3
  <2> HIDE DEF home
  <2>2. judgesOf \in [Key -> JudgeRow \cup {NoJudge}]
    BY <1>3, <2>1, GraphTypes, PopulatedJudgeKeeps DEF judgesOf, JudgeTable
  <2> QED BY <1>3, <1>4, <2>2, GraphTypes DEF JudgeTable
<1>10. ASSUME NEW t \in Tenants, NEW k \in Key PROVE RowChange(t, k)
  <2>1. CASE t # t0
    BY <1>8, <2>1 DEF RowChange
  <2>2. CASE t = t0 /\ k \notin DOMAIN me.seen
    BY <1>8, <2>2 DEF RowChange, judgesOf
  <2>3. CASE t = t0 /\ k \in DOMAIN me.seen
    <3>1. judges'[t][k] = PopulatedJudge(judges[t][k], home(k))
      BY <1>8, <2>3 DEF judgesOf
    <3>2. home(k) \in Slug \cup {NoCourt}
      BY <1>3, <2>3
    <3>3. home(k) # NoCourt => courts'[t][home(k)] # NoCourt
      BY <1>6, <1>7, <2>3
    <3> HIDE DEF home
    <3> QED BY <3>1, <3>2, <3>3 DEF RowChange
  <2> QED BY <2>1, <2>2, <2>3
<1>11. attorneys' \in AttorneyTable
  BY <1>5, GraphTypes
<1>12. \A t \in Tenants, a \in Counsel : RateChange(t, a)
  BY <1>5 DEF RateChange
<1> HIDE DEF t0, me
<1> QED BY <1>6, <1>7, <1>9, <1>10, <1>11, <1>12 DEF Changes

LEMMA ExtractCommitChanges ==
  ASSUME TypeOK, NEW r \in Runs, ExtractCommit(r)
  PROVE  Changes
<1> DEFINE me == run[r]
           t0 == me.tenant
           judgesOf == [k \in Key |-> IF k \in DOMAIN me.patch
                                      THEN ExtractedBio(judges[t0][k], me.patch[k])
                                      ELSE judges[t0][k]]
           attorneysOf == [a \in Counsel |-> IF a \in NamesOfCounsel(me.batch)
                                             THEN WinRate(me.batch, a) ELSE attorneys[t0][a]]
<1>1. me.pc = "winrates" /\ RunOk(me)
  BY GraphTypes DEF ExtractCommit
<1>2. PICK names \in SUBSET Key : me \in ExtractRun("winrates", Counsel, names)
  BY <1>1, Shape
<1>3. t0 \in Tenants /\ me.batch \in SUBSET Docs /\ me.patch \in [names -> Tally]
  BY <1>2 DEF ExtractRun
<1>4. /\ judges' = [judges EXCEPT ![t0] = judgesOf]
      /\ attorneys' = [attorneys EXCEPT ![t0] = attorneysOf]
      /\ UNCHANGED courts
  BY DEF ExtractCommit, Key
<1>5. /\ attorneysOf \in [Counsel -> Rate \cup {None}]
      /\ \A a \in Counsel : \/ attorneysOf[a] = attorneys[t0][a]
                            \/ a \in NamesOfCounsel(me.batch) /\ attorneysOf[a] = WinRate(me.batch, a)
  <2>1. \A a : WinRate(me.batch, a) \in Rate
    BY <1>3, WinRateType
  <2> QED BY <1>3, <2>1, GraphTypes DEF AttorneyTable
<1>6. judgesOf \in [Key -> JudgeRow \cup {NoJudge}]
  <2>1. \A row \in JudgeRow \cup {NoJudge}, tally \in Tally : ExtractedBio(row, tally) \in JudgeRow
    BY ExtractedBioKeeps
  <2>2. \A k \in Key : judges[t0][k] \in JudgeRow \cup {NoJudge}
    BY <1>3, GraphTypes DEF JudgeTable
  <2> QED BY <1>3, <2>1, <2>2
<1> HIDE DEF judgesOf, attorneysOf
<1>7. /\ attorneys' \in AttorneyTable /\ attorneys'[t0] = attorneysOf
      /\ \A t \in Tenants \ {t0} : attorneys'[t] = attorneys[t]
  BY <1>3, <1>4, <1>5, GraphTypes DEF AttorneyTable
<1>8. /\ judges' \in JudgeTable /\ judges'[t0] = judgesOf
      /\ \A t \in Tenants \ {t0} : judges'[t] = judges[t]
  BY <1>3, <1>4, <1>6, GraphTypes DEF JudgeTable
<1>9. ASSUME NEW t \in Tenants, NEW k \in Key PROVE RowChange(t, k)
  <2>1. CASE t # t0
    BY <1>8, <2>1 DEF RowChange
  <2>2. CASE t = t0 /\ k \notin DOMAIN me.patch
    BY <1>8, <2>2 DEF RowChange, judgesOf
  <2>3. CASE t = t0 /\ k \in DOMAIN me.patch
    <3>1. judges'[t][k] = ExtractedBio(judges[t][k], me.patch[k])
      BY <1>8, <2>3 DEF judgesOf
    <3>2. me.patch[k] \in Tally
      BY <1>3, <2>3
    <3> QED BY <1>1, <2>3, <3>1, <3>2 DEF RowChange
  <2> QED BY <2>1, <2>2, <2>3
<1>10. \A t \in Tenants, a \in Counsel : RateChange(t, a)
  BY <1>5, <1>7 DEF RateChange
<1>11. courts' \in CourtTable /\ \A t \in Tenants, c \in Slug : courts[t][c] # NoCourt => courts'[t][c] # NoCourt
  BY <1>4, GraphTypes
<1> QED BY <1>7, <1>8, <1>9, <1>10, <1>11 DEF Changes

LEMMA ImportUpdateChanges ==
  ASSUME TypeOK, MatchHolds, NEW r \in Runs, ImportUpdate(r)
  PROVE  Changes
<1> DEFINE me == run[r]
           t0 == me.tenant
           k0 == me.hit.judge
           bio == [entry |-> Head(me.todo), confidence |-> me.hit.confidence]
           new == [judges[t0][k0] EXCEPT ![me.source] = bio]
<1>1. /\ me.pc = "update" /\ t0 \in Tenants /\ k0 \in Key /\ me.source \in Sources
      /\ bio \in Bio(me.source)
  BY ImportUpdateMoves
<1>2. judges[t0][k0] \in JudgeRow /\ judges[t0][k0] # NoJudge
  BY <1>1, GraphTypes DEF MatchHolds, JudgeTable
<1>3. new \in JudgeRow
  BY <1>1, <1>2, ScoreWritten
<1>4. judges' = [judges EXCEPT ![t0][k0] = new] /\ UNCHANGED <<courts, attorneys>>
  BY DEF ImportUpdate
<1> HIDE DEF new
<1>5. /\ judges' \in JudgeTable /\ judges'[t0][k0] = new
      /\ \A t \in Tenants, k \in Key : t # t0 \/ k # k0 => judges'[t][k] = judges[t][k]
  BY <1>1, <1>3, <1>4, GraphTypes DEF JudgeTable
<1>6. ASSUME NEW t \in Tenants, NEW k \in Key PROVE RowChange(t, k)
  <2>1. CASE t # t0 \/ k # k0
    BY <1>5, <2>1 DEF RowChange
  <2>2. CASE t = t0 /\ k = k0
    BY <1>1, <1>2, <1>5, <2>2 DEF RowChange, new
  <2> QED BY <2>1, <2>2
<1> QED BY <1>4, <1>5, <1>6, GraphTypes DEF Changes, RateChange

LEMMA GraphChanges ==
  ASSUME TypeOK, MatchHolds, [Next]_vars
  PROVE  Changes
<1>1. ASSUME NEW r \in Runs, Populating(r) \/ ExtractGoesOn(r) PROVE Changes
  BY <1>1, PopulatingSeen, ExtractGoesOnSeen, Unchanged
<1>2. ASSUME NEW r \in Runs, Importing(r) PROVE Changes
  BY <1>2, ImportingSeen, ImportUpdateChanges, Unchanged
<1>3. ASSUME NEW r \in Runs, Ending(r) PROVE Changes
  BY <1>3, EndingSeen, PopulateCommitChanges, ExtractCommitChanges, Unchanged
<1>4. ASSUME NEW d \in Docs, Publish(d) PROVE Changes
  BY <1>4, Unchanged DEF Publish, graph
<1>5. CASE UNCHANGED vars
  BY <1>5, Unchanged DEF vars
<1> QED BY <1>1, <1>2, <1>3, <1>4, <1>5, Kinds

\* What is known of a judge stays (BioKept, of one step).
LEMMA RowsKept ==
  ASSUME TypeOK, Changes, NEW t \in Tenants, NEW k \in Key, judges[t][k] # NoJudge
  PROVE  /\ judges'[t][k] # NoJudge
         /\ judges'[t][k].court = judges[t][k].court
         /\ judges[t][k].severity # None => judges'[t][k].severity # None
         /\ \A s \in Sources : judges[t][k][s] # NoScore => judges'[t][k][s] # NoScore
<1>1. judges[t][k] \in JudgeRow
  BY GraphTypes DEF JudgeTable
<1>2. RowChange(t, k)
  BY DEF Changes
<1>3. CASE judges'[t][k] = judges[t][k]
  BY <1>3
<1>4. ASSUME NEW c \in Slug \cup {NoCourt}, judges'[t][k] = PopulatedJudge(judges[t][k], c)
      PROVE  judges'[t][k] = judges[t][k]
  BY <1>1, <1>4, PopulatedJudgeKeeps
<1>5. ASSUME NEW tally \in Tally, judges'[t][k] = ExtractedBio(judges[t][k], tally)
      PROVE  /\ judges'[t][k] # NoJudge
             /\ judges'[t][k].court = judges[t][k].court /\ judges'[t][k].severity # None
             /\ \A s \in Sources : judges'[t][k][s] = judges[t][k][s]
  BY <1>1, <1>5, ExtractedBioKeeps, JudgesAssumption
<1>6. ASSUME NEW s \in Sources, NEW bio \in Bio(s), judges'[t][k] = [judges[t][k] EXCEPT ![s] = bio]
      PROVE  /\ judges'[t][k] # NoJudge
             /\ judges'[t][k].court = judges[t][k].court
             /\ judges'[t][k].severity = judges[t][k].severity
             /\ \A other \in Sources : \/ judges'[t][k][other] # NoScore
                                       \/ judges'[t][k][other] = judges[t][k][other]
  BY <1>1, <1>6, ScoreWritten, JudgesAssumption
<1> QED BY <1>2, <1>3, <1>4, <1>5, <1>6 DEF RowChange

-----------------------------------------------------------------------------
(* The type invariant *)

LEMMA FeaturesOk ==
  ASSUME TypeOK, [Next]_vars
  PROVE  /\ DOMAIN features' = Docs
         /\ \A d \in Docs : features'[d] # None => d \in corpus' /\ features'[d] = Feature[d]
<1>1. /\ DOMAIN features = Docs
      /\ \A d \in Docs : features[d] # None => d \in corpus /\ features[d] = Feature[d]
  BY DEF TypeOK
<1>2. corpus \subseteq corpus'
  BY RunsOk
<1>3. CASE UNCHANGED features
  BY <1>1, <1>2, <1>3
<1>4. ASSUME NEW r \in Runs, ExtractCommit(r)
      PROVE  /\ DOMAIN features' = Docs
             /\ \A d \in Docs : features'[d] # None => d \in corpus /\ features'[d] = Feature[d]
  <2>1. run[r].pc = "winrates"
    BY <1>4 DEF ExtractCommit
  <2>2. run[r].batch \subseteq corpus
    BY <2>1 DEF TypeOK, Extracting
  <2>3. features' = [d \in Docs |-> IF d \in run[r].batch THEN Feature[d] ELSE features[d]]
    BY <1>4 DEF ExtractCommit
  <2> QED BY <1>1, <2>2, <2>3
<1>5. ASSUME NEW r \in Runs, Populating(r) \/ ExtractGoesOn(r) \/ Importing(r)
      PROVE  UNCHANGED features
  BY <1>5, PopulatingSeen, ExtractGoesOnSeen, ImportingSeen
<1>6. ASSUME NEW r \in Runs, Ending(r) PROVE ExtractCommit(r) \/ UNCHANGED features
  BY <1>6, EndingSeen DEF PopulateCommit
<1>7. (\E d \in Docs : Publish(d)) \/ UNCHANGED vars => UNCHANGED features
  BY DEF Publish, vars
<1> QED BY <1>2, <1>3, <1>4, <1>5, <1>6, <1>7, Kinds

\* A judge's court has a row of the judge's tenant.
LEMMA CourtsThere ==
  ASSUME TypeOK, Changes, NEW t \in Tenants, NEW k \in Key,
         judges'[t][k] # NoJudge, judges'[t][k].court # NoCourt
  PROVE  courts'[t][judges'[t][k].court] # NoCourt
<1>1. judges'[t][k] \in JudgeRow
  BY DEF Changes, JudgeTable
<1>2. judges'[t][k].court \in Slug
  BY <1>1 DEF JudgeRow
<1>3. CASE judges[t][k] # NoJudge
  <2>1. judges'[t][k].court = judges[t][k].court
    BY <1>3, RowsKept
  <2>2. courts[t][judges[t][k].court] # NoCourt
    BY <1>3, <2>1 DEF TypeOK
  <2> QED BY <1>2, <2>1, <2>2 DEF Changes
<1>4. CASE judges[t][k] = NoJudge
  <2>1. RowChange(t, k)
    BY DEF Changes
  <2>2. ASSUME NEW c \in Slug \cup {NoCourt}, c # NoCourt => courts'[t][c] # NoCourt,
               judges'[t][k] = PopulatedJudge(judges[t][k], c)
        PROVE  courts'[t][judges'[t][k].court] # NoCourt
    BY <1>4, <2>2, NewJudgeType DEF PopulatedJudge
  <2>3. ASSUME NEW tally \in Tally, judges'[t][k] = ExtractedBio(judges[t][k], tally)
        PROVE  FALSE
    <3>1. ExtractedBio(NoJudge, tally).court = NewJudge(NoCourt).court
      BY ExtractedBioKeeps
    <3> QED BY <1>4, <2>3, <3>1, NewJudgeType
  <2> QED BY <1>4, <2>1, <2>2, <2>3 DEF RowChange
<1> QED BY <1>3, <1>4

LEMMA TypesInit == Init => TypeOK
<1> SUFFICES ASSUME Init PROVE TypeOK
  OBVIOUS
<1>1. corpus \subseteq Docs /\ faults \in 0..Faults
  BY JudgesAssumption DEF Init
<1>2. /\ DOMAIN features = Docs /\ \A d \in Docs : features[d] = None
      /\ DOMAIN run = Runs /\ \A r \in Runs : run[r] = Idle
  BY DEF Init
<1>3. courts \in CourtTable /\ judges \in JudgeTable /\ attorneys \in AttorneyTable
  BY DEF Init, CourtTable, JudgeTable, AttorneyTable, Slug, Key
<1>4. \A t \in Tenants, k \in Key : judges[t][k] = NoJudge
  BY DEF Init, Key
<1>5. \A r \in Runs : RunOk(run[r])
  BY <1>2 DEF RunOk
<1>6. Extracting = {}
  BY <1>2 DEF Extracting, Idle
<1> QED BY <1>1, <1>2, <1>3, <1>4, <1>5, <1>6 DEF TypeOK, CourtTable, JudgeTable, AttorneyTable

LEMMA TypesStep ==
  ASSUME TypeOK, MatchHolds, [Next]_vars
  PROVE  TypeOK'
<1>1. Changes
  BY GraphChanges
<1>2. courts' \in CourtTable /\ judges' \in JudgeTable /\ attorneys' \in AttorneyTable
  BY <1>1 DEF Changes
<1>3. \A t \in Tenants, k \in Key :
        judges'[t][k] # NoJudge /\ judges'[t][k].court # NoCourt =>
          courts'[t][judges'[t][k].court] # NoCourt
  BY <1>1, CourtsThere
<1>4. /\ DOMAIN features' = Docs
      /\ \A d \in Docs : features'[d] # None => d \in corpus' /\ features'[d] = Feature[d]
  BY FeaturesOk
<1>5. /\ DOMAIN run' = Runs /\ corpus' \subseteq Docs /\ faults' \in 0..Faults
      /\ \A q \in Runs : RunOk(run'[q])
      /\ \A q \in Runs : run'[q].pc \in {"docs", "severity", "winrates"} =>
           run'[q].batch \subseteq corpus'
  BY RunsOk
<1>6. \A q \in Extracting' : run'[q].batch \subseteq corpus'
  BY <1>5 DEF Extracting
<1> QED BY <1>2, <1>3, <1>4, <1>5, <1>6 DEF TypeOK, CourtTable, JudgeTable, AttorneyTable

-----------------------------------------------------------------------------
(* A match holds until its score is written *)

LEMMA MatchHoldsStep ==
  ASSUME TypeOK, MatchHolds, [Next]_vars
  PROVE  MatchHolds'
<1> DEFINE Ok(me) == me.pc = "update" =>
             LET row == judges'[me.tenant][me.hit.judge]
             IN  row # NoJudge /\ row.court = Home(me.hit.confidence, Head(me.todo))
<1> SUFFICES ASSUME NEW q \in Runs PROVE Ok(run'[q])
  BY DEF MatchHolds
<1>1. Changes
  BY GraphChanges
<1>2. Ok(run[q])
  <2> SUFFICES ASSUME run[q].pc = "update" PROVE Ok(run[q])
    OBVIOUS
  <2>1. PICK s \in Sources : run[q] \in ImportRun("update", Hit, s)
    BY Shape, GraphTypes
  <2>2. run[q].tenant \in Tenants /\ run[q].hit.judge \in Key
    BY <2>1 DEF ImportRun, Hit
  <2>3. /\ judges[run[q].tenant][run[q].hit.judge] # NoJudge
        /\ judges[run[q].tenant][run[q].hit.judge].court
             = Home(run[q].hit.confidence, Head(run[q].todo))
    BY DEF MatchHolds
  <2> QED BY <1>1, <2>2, <2>3, RowsKept
<1> HIDE DEF Ok
<1>3. CASE run'[q] = run[q]
  BY <1>2, <1>3
<1>4. ASSUME run'[q].pc # "update" PROVE Ok(run'[q])
  BY <1>4 DEF Ok
<1>5. ASSUME NEW r \in Runs, ImportMatch(r) PROVE Ok(run'[q])
  <2>1. Moves(r)
    BY <1>5, ImportMatchMoves
  <2>2. UNCHANGED judges
    BY <1>5 DEF ImportMatch, graph
  <2>3. CASE q = r
    <3>1. \/ run'[r].pc = "match"
          \/ /\ run'[r].pc = "update"
             /\ LET row == judges[run'[r].tenant][run'[r].hit.judge]
                IN  row # NoJudge /\ row.court = Home(run'[r].hit.confidence, Head(run'[r].todo))
      BY <1>5, ImportMatchMoves
    <3> QED BY <2>2, <2>3, <3>1 DEF Ok
  <2>4. CASE q # r
    BY <1>3, <2>1, <2>4 DEF Moves
  <2> QED BY <2>3, <2>4
<1>6. ASSUME NEW r \in Runs, Moves(r), run'[r].pc # "update" PROVE Ok(run'[q])
  BY <1>3, <1>4, <1>6 DEF Moves
<1>7. ASSUME NEW r \in Runs, Populating(r) \/ ExtractGoesOn(r) \/ Ending(r) PROVE Ok(run'[q])
  BY <1>6, <1>7, PopulatingMoves, ExtractGoesOnMoves, EndingMoves DEF Idle
<1>8. ASSUME NEW r \in Runs, Importing(r) PROVE Ok(run'[q])
  <2>1. ASSUME NEW t \in Tenants, NEW s \in Sources, ImportStart(r, t, s)
        PROVE  Moves(r) /\ run'[r].pc # "update"
    BY <2>1, ImportStartMoves
  <2>2. CASE ImportUpdate(r)
    BY <1>6, <2>2, ImportUpdateMoves
  <2> QED BY <1>5, <1>6, <1>8, <2>1, <2>2 DEF Importing
<1>9. (\E d \in Docs : Publish(d)) \/ UNCHANGED vars => run'[q] = run[q]
  BY DEF Publish, vars
<1> QED BY <1>3, <1>7, <1>8, <1>9, Kinds

-----------------------------------------------------------------------------
(* The order of populate-kg *)

LEMMA CourtRank ==
  ASSUME NEW t, NEW x \in Slug
  PROVE  Rank(<<"courts", t, x>>) = Position(x, Courts) /\ Rank(<<"courts", t, x>>) \in 1..Len(Courts)
<1>1. PICK i \in DOMAIN Courts : Courts[i] = x
  BY DEF Slug, ToSet
<1>2. Position(x, Courts) = i
  BY <1>1, PositionIs, JudgesAssumption
<1>3. DOMAIN Courts = 1..Len(Courts)
  BY JudgesAssumption, LenProperties
<1> QED BY <1>2, <1>3 DEF Rank

LEMMA JudgeRank ==
  ASSUME NEW t, NEW x \in Key
  PROVE  /\ Rank(<<"judges", t, x>>) = Len(Courts) + Position(x, Keys)
         /\ Rank(<<"judges", t, x>>) \in (Len(Courts) + 1)..(Len(Courts) + Len(Keys))
         /\ Position(x, Keys) \in Nat
<1>1. PICK i \in DOMAIN Keys : Keys[i] = x
  BY DEF Key, ToSet
<1>2. Position(x, Keys) = i
  BY <1>1, PositionIs, JudgesAssumption
<1>3. DOMAIN Keys = 1..Len(Keys) /\ Len(Keys) \in Nat /\ Len(Courts) \in Nat
  BY JudgesAssumption, LenProperties
<1> QED BY <1>2, <1>3 DEF Rank

\* The rank of what a populate-kg is about to write.
LEMMA RowRank ==
  ASSUME NEW me, RunOk(me), me.pc \in {"courts", "judges"}, NEW n \in DOMAIN me.todo
  PROVE  Rank(RowAt(me, n)) \in 1..(Len(Courts) + Len(Keys))
<1>1. Len(Courts) \in Nat /\ Len(Keys) \in Nat
  BY JudgesAssumption, LenProperties
<1>2. CASE me.pc = "courts"
  <2>1. me.todo \in Seq(Slug)
    BY <1>2, Shape DEF CourtsRun
  <2>2. me.todo[n] \in Slug
    BY <2>1, LenProperties, ElementOfSeq
  <2> QED BY <1>1, <1>2, <2>2, CourtRank DEF RowAt
<1>3. CASE me.pc = "judges"
  <2>1. me.todo \in Seq(Key)
    BY <1>3, Shape DEF JudgesRun
  <2>2. me.todo[n] \in Key
    BY <2>1, LenProperties, ElementOfSeq
  <2> QED BY <1>1, <1>3, <2>2, JudgeRank DEF RowAt
<1> QED BY <1>2, <1>3

UpwardRun(me) ==
  /\ me.pc \in {"courts", "judges"} => Rising(me)
  /\ me.pc = "courts" => \A h \in me.held : h[1] = "courts"

LEMMA UpwardStart ==
  ASSUME TypeOK, NEW r \in Runs, NEW t \in Tenants, PopulateStart(r, t)
  PROVE  UpwardRun(run'[r])
<1> DEFINE me == run'[r]
<1>1. me \in CourtsRun /\ me.held = {}
  BY PopulateStartMoves
<1>2. PICK S : me.todo = InOrder(S, Courts)
  BY PopulateStartMoves
<1>3. \A i, j \in DOMAIN me.todo : i < j => Position(me.todo[i], Courts) < Position(me.todo[j], Courts)
  BY <1>2, InOrderRises, JudgesAssumption
<1>4. me.pc = "courts" /\ \A i \in DOMAIN me.todo : me.todo[i] \in Slug
  BY <1>1, LenProperties, ElementOfSeq DEF CourtsRun
<1>5. \A i \in DOMAIN me.todo : Rank(RowAt(me, i)) = Position(me.todo[i], Courts)
  BY <1>4, CourtRank DEF RowAt
<1> HIDE DEF me
<1>6. Rising(me)
  BY <1>1, <1>3, <1>5 DEF Rising
<1> QED BY <1>1, <1>4, <1>6 DEF UpwardRun, me

LEMMA UpwardInsert ==
  ASSUME TypeOK, Upward, NEW r \in Runs, NEW pc \in {"courts", "judges"}, Insert(r, pc)
  PROVE  UpwardRun(run'[r])
<1> DEFINE me == run[r]
           new == run'[r]
           row == <<pc, me.tenant, Head(me.todo)>>
<1>1. /\ me.pc = pc /\ me.todo # <<>> /\ new.pc = pc /\ new.tenant = me.tenant
      /\ new.todo = Tail(me.todo) /\ new.held \subseteq me.held \cup {row}
  BY InsertMoves
<1>2. UpwardRun(me) /\ RunOk(me)
  BY GraphTypes DEF Upward, UpwardRun
<1>3. Rising(me)
  BY <1>1, <1>2 DEF UpwardRun
<1>4. PICK T : me.todo \in Seq(T)
  BY <1>1, <1>2, Shape DEF CourtsRun, JudgesRun
<1>5. /\ Head(me.todo) = me.todo[1] /\ 1 \in DOMAIN me.todo
      /\ DOMAIN new.todo = 1..(Len(me.todo) - 1) /\ Len(me.todo) \in Nat
      /\ \A i \in DOMAIN new.todo : i + 1 \in DOMAIN me.todo /\ new.todo[i] = me.todo[i + 1]
  BY <1>1, <1>4, TailOf, LenProperties
<1>6. row = RowAt(me, 1) /\ \A i \in DOMAIN new.todo : RowAt(new, i) = RowAt(me, i + 1)
  BY <1>1, <1>5 DEF RowAt
<1> HIDE DEF me, new, row
<1>7. ASSUME NEW i \in DOMAIN new.todo, NEW j \in DOMAIN new.todo, i < j
      PROVE  Rank(RowAt(new, i)) < Rank(RowAt(new, j))
  <2>1. i + 1 \in DOMAIN me.todo /\ j + 1 \in DOMAIN me.todo /\ i + 1 < j + 1
    BY <1>5, <1>7
  <2> QED BY <1>3, <1>6, <2>1 DEF Rising
<1>8. ASSUME NEW i \in DOMAIN new.todo, NEW h \in new.held
      PROVE  Rank(h) < Rank(RowAt(new, i))
  <2>1. i + 1 \in DOMAIN me.todo /\ 1 < i + 1
    BY <1>5
  <2>2. h \in me.held \/ h = row
    BY <1>1
  <2> QED BY <1>3, <1>5, <1>6, <2>1, <2>2 DEF Rising
<1>9. Rising(new)
  BY <1>7, <1>8 DEF Rising
<1>10. pc = "courts" => \A h \in new.held : h[1] = "courts"
  BY <1>1, <1>2 DEF UpwardRun, row
<1> QED BY <1>1, <1>9, <1>10 DEF UpwardRun, new

LEMMA UpwardScan ==
  ASSUME TypeOK, Upward, NEW r \in Runs, PopulateScan(r)
  PROVE  UpwardRun(run'[r])
<1> DEFINE me == run[r]
           new == run'[r]
<1>1. /\ Moves(r) /\ me.pc = "courts" /\ new.pc = "judges"
      /\ new.held = me.held /\ new.tenant = me.tenant
  BY PopulateScanMoves
<1>2. PICK S : new.todo = InOrder(S, Keys)
  BY PopulateScanMoves
<1>3. \A i, j \in DOMAIN new.todo : i < j => Position(new.todo[i], Keys) < Position(new.todo[j], Keys)
  BY <1>2, InOrderRises, JudgesAssumption
<1>4. /\ new.todo \in Seq(Key) /\ \A i \in DOMAIN new.todo : new.todo[i] \in Key
  <2>1. new.todo \in Seq(Key)
    BY <1>2, InOrderRises, JudgesAssumption
  <2> QED BY <2>1, LenProperties, ElementOfSeq
<1>5. \A h \in me.held : h \in Rows /\ h[1] = "courts"
  <2>1. me \in CourtsRun
    BY <1>1, Shape, GraphTypes
  <2>2. me.held \subseteq Rows
    BY <2>1 DEF CourtsRun
  <2> QED BY <1>1, <2>2 DEF Upward
<1>6. Len(Courts) \in Nat /\ Len(Keys) \in Nat
  BY JudgesAssumption, LenProperties
<1> HIDE DEF me, new
<1>7. \A h \in me.held : Rank(h) \in 1..Len(Courts)
  <2> TAKE h \in me.held
  <2>1. PICK t \in Tenants, x \in Slug : h = <<"courts", t, x>>
    BY <1>5 DEF Rows
  <2> QED BY <2>1, CourtRank
<1>8. \A i \in DOMAIN new.todo :
        /\ Rank(RowAt(new, i)) = Len(Courts) + Position(new.todo[i], Keys)
        /\ Rank(RowAt(new, i)) \in (Len(Courts) + 1)..(Len(Courts) + Len(Keys))
        /\ Position(new.todo[i], Keys) \in Nat
  BY <1>1, <1>4, JudgeRank DEF RowAt
<1>9. Rising(new)
  BY <1>1, <1>3, <1>6, <1>7, <1>8 DEF Rising
<1> QED BY <1>1, <1>9 DEF UpwardRun, new

LEMMA UpwardStep ==
  ASSUME TypeOK, Upward, [Next]_vars
  PROVE  Upward'
<1> SUFFICES ASSUME NEW q \in Runs PROVE UpwardRun(run'[q])
  BY DEF Upward, UpwardRun
<1>1. CASE run'[q] = run[q]
  BY <1>1 DEF Upward, UpwardRun
<1>2. ASSUME run'[q].pc \notin {"courts", "judges"} PROVE UpwardRun(run'[q])
  BY <1>2 DEF UpwardRun
<1>3. ASSUME NEW r \in Runs, Populating(r) PROVE UpwardRun(run'[q])
  <2>1. Moves(r)
    BY <1>3, PopulatingMoves
  <2>2. UpwardRun(run'[r])
    BY <1>3, UpwardStart, UpwardInsert, UpwardScan DEF Populating, PopulateCourt, PopulateJudge
  <2> QED BY <1>1, <2>1, <2>2 DEF Moves
<1>4. ASSUME NEW r \in Runs, Moves(r), run'[r].pc \notin {"courts", "judges"} PROVE UpwardRun(run'[q])
  BY <1>1, <1>2, <1>4 DEF Moves
<1>5. ASSUME NEW r \in Runs, ExtractGoesOn(r) \/ Importing(r) \/ Ending(r) PROVE UpwardRun(run'[q])
  BY <1>4, <1>5, ExtractGoesOnMoves, ImportingMoves, EndingMoves DEF Idle
<1>6. (\E d \in Docs : Publish(d)) \/ UNCHANGED vars => run'[q] = run[q]
  BY DEF Publish, vars
<1> QED BY <1>1, <1>3, <1>5, <1>6, Kinds

-----------------------------------------------------------------------------
(* The tallies of a run *)

PatchOfBatch(me) ==
  /\ me.pc \in {"docs", "severity", "winrates"} =>
       \A k \in DOMAIN me.patch : me.patch[k] \in Tallies(me.batch, k)
  /\ me.pc = "severity" => Listed(me.todo, me.batch)

BatchTallied(me) ==
  me.pc \in {"severity", "winrates"} =>
    \A d \in me.batch : \A k \in KeysOf(AllNames[d]) :
      \/ k \in DOMAIN me.patch
      \/ me.pc = "severity" /\ <<Text[d].court, k>> \in ToSet(me.todo)

TallyRun(me) == PatchOfBatch(me) /\ BatchTallied(me)

LEMMA TallyRuns == PatchRight /\ AllTallied <=> \A q \in Runs : TallyRun(run[q])
BY DEF PatchRight, AllTallied, TallyRun, PatchOfBatch, BatchTallied, Extracting

LEMMA TallyOfJudge ==
  ASSUME TypeOK, NEW r \in Runs, ExtractJudge(r), TallyRun(run[r])
  PROVE  TallyRun(run'[r])
<1> DEFINE me == run[r]
           new == run'[r]
           pair == Head(me.todo)
<1>1. /\ me.pc = "severity" /\ new.pc = "severity" /\ new.batch = me.batch /\ new.todo = Tail(me.todo)
      /\ me.todo \in Seq(Slug \X Key) /\ me.todo # <<>> /\ pair \in Slug \X Key
      /\ DOMAIN new.patch = DOMAIN me.patch \cup {pair[2]}
      /\ \A k \in DOMAIN me.patch : k # pair[2] => new.patch[k] = me.patch[k]
      /\ new.patch[pair[2]] = Severity(me.batch, pair[1], pair[2])
  BY ExtractJudgeMoves
<1>2. /\ ToSet(me.todo) \subseteq {pair} \cup ToSet(new.todo)
      /\ ToSet(new.todo) \subseteq ToSet(me.todo) /\ pair \in ToSet(me.todo)
  <2>1. /\ ToSet(me.todo) \subseteq {pair} \cup ToSet(new.todo)
        /\ ToSet(new.todo) \subseteq ToSet(me.todo)
        /\ 1 \in DOMAIN me.todo /\ pair = me.todo[1]
    BY <1>1, TailOf
  <2> HIDE DEF new, pair
  <2> QED BY <2>1 DEF ToSet
<1> HIDE DEF new, pair
<1>3. PatchOfBatch(new)
  <2>1. Listed(me.todo, me.batch)
    BY <1>1 DEF TallyRun, PatchOfBatch
  <2>2. Listed(new.todo, new.batch)
    BY <1>1, <1>2, <2>1 DEF Listed
  <2>3. new.patch[pair[2]] \in Tallies(me.batch, pair[2])
    BY <1>1, <1>2, <2>1 DEF Listed, Tallies
  <2>4. \A k \in DOMAIN me.patch : me.patch[k] \in Tallies(me.batch, k)
    BY <1>1 DEF TallyRun, PatchOfBatch
  <2> QED BY <1>1, <2>2, <2>3, <2>4 DEF PatchOfBatch
<1>4. ASSUME NEW d \in new.batch, NEW k \in KeysOf(AllNames[d])
      PROVE  k \in DOMAIN new.patch \/ <<Text[d].court, k>> \in ToSet(new.todo)
  <2>1. k \in DOMAIN me.patch \/ <<Text[d].court, k>> \in ToSet(me.todo)
    BY <1>1 DEF TallyRun, BatchTallied
  <2>2. <<Text[d].court, k>> = pair => k = pair[2]
    OBVIOUS
  <2> QED BY <1>1, <1>2, <2>1, <2>2
<1>5. BatchTallied(new)
  BY <1>1, <1>4 DEF BatchTallied
<1> QED BY <1>3, <1>5 DEF TallyRun, new

LEMMA TallyStep ==
  ASSUME TypeOK, PatchRight, AllTallied, [Next]_vars
  PROVE  PatchRight' /\ AllTallied'
<1> DEFINE Goal == \A q \in Runs : TallyRun(run'[q])
<1>1. \A q \in Runs : TallyRun(run[q])
  BY TallyRuns
<1>2. Goal => PatchRight' /\ AllTallied'
  BY DEF PatchRight, AllTallied, TallyRun, PatchOfBatch, BatchTallied, Extracting
<1> HIDE DEF Goal
<1>3. ASSUME NEW r \in Runs, Moves(r), TallyRun(run'[r]) PROVE Goal
  BY <1>1, <1>3 DEF Goal, Moves
<1>4. ASSUME NEW r \in Runs, Moves(r), run'[r].pc \notin {"docs", "severity", "winrates"} PROVE Goal
  <2>1. TallyRun(run'[r])
    BY <1>4 DEF TallyRun, PatchOfBatch, BatchTallied
  <2> QED BY <1>3, <1>4, <2>1
<1>5. ASSUME NEW r \in Runs, NEW t \in Tenants, ExtractStart(r, t) PROVE Goal
  <2>1. Moves(r) /\ run'[r].pc = "docs" /\ run'[r].patch = <<>>
    BY <1>5, ExtractStartMoves
  <2>2. TallyRun(run'[r])
    BY <2>1 DEF TallyRun, PatchOfBatch, BatchTallied
  <2> QED BY <1>3, <2>1, <2>2
<1>6. ASSUME NEW r \in Runs, ExtractDoc(r) PROVE Goal
  <2>1. /\ Moves(r) /\ run[r].pc = "docs" /\ run'[r].pc = "docs"
        /\ run'[r].patch = run[r].patch /\ run'[r].batch = run[r].batch
    BY <1>6, ExtractDocMoves
  <2>2. TallyRun(run'[r])
    BY <1>1, <2>1 DEF TallyRun, PatchOfBatch, BatchTallied
  <2> QED BY <1>3, <2>1, <2>2
<1>7. ASSUME NEW r \in Runs, ExtractTally(r) PROVE Goal
  <2>1. /\ Moves(r) /\ run[r].pc = "docs" /\ run'[r].pc = "severity"
        /\ run'[r].patch = run[r].patch /\ run'[r].batch = run[r].batch
        /\ \A d \in run[r].batch : \A k \in KeysOf(AllNames[d]) :
             <<Text[d].court, k>> \in ToSet(run'[r].todo)
        /\ Listed(run'[r].todo, run[r].batch)
    BY <1>7, ExtractTallyMoves
  <2>2. TallyRun(run'[r])
    BY <1>1, <2>1 DEF TallyRun, PatchOfBatch, BatchTallied
  <2> QED BY <1>3, <2>1, <2>2
<1>8. ASSUME NEW r \in Runs, ExtractJudge(r) PROVE Goal
  BY <1>1, <1>3, <1>8, TallyOfJudge, ExtractJudgeMoves
<1>9. ASSUME NEW r \in Runs, ExtractCounsel(r) PROVE Goal
  <2>1. /\ Moves(r) /\ run[r].pc = "severity" /\ run'[r].pc = "winrates" /\ run[r].todo = <<>>
        /\ run'[r].patch = run[r].patch /\ run'[r].batch = run[r].batch
    BY <1>9, ExtractCounselMoves
  <2>2. ToSet(run[r].todo) = {}
    BY <2>1 DEF ToSet
  <2>3. TallyRun(run'[r])
    BY <1>1, <2>1, <2>2 DEF TallyRun, PatchOfBatch, BatchTallied
  <2> QED BY <1>3, <2>1, <2>3
<1>10. ASSUME NEW r \in Runs, ExtractAttorney(r) PROVE Goal
  <2>1. /\ Moves(r) /\ run[r].pc = "winrates" /\ run'[r].pc = "winrates"
        /\ run'[r].patch = run[r].patch /\ run'[r].batch = run[r].batch
    BY <1>10, ExtractAttorneyMoves
  <2>2. TallyRun(run'[r])
    BY <1>1, <2>1 DEF TallyRun, PatchOfBatch, BatchTallied
  <2> QED BY <1>3, <2>1, <2>2
<1>11. ASSUME NEW r \in Runs, ExtractGoesOn(r) PROVE Goal
  BY <1>5, <1>6, <1>7, <1>8, <1>9, <1>10, <1>11 DEF ExtractGoesOn
<1>12. ASSUME NEW r \in Runs, Populating(r) \/ Importing(r) \/ Ending(r) PROVE Goal
  BY <1>4, <1>12, PopulatingMoves, ImportingMoves, EndingMoves DEF Idle
<1>13. (\E d \in Docs : Publish(d)) \/ UNCHANGED vars => UNCHANGED run
  BY DEF Publish, vars
<1>14. UNCHANGED run => Goal
  BY <1>1 DEF Goal
<1> QED BY <1>2, <1>11, <1>12, <1>13, <1>14, Kinds

-----------------------------------------------------------------------------
(* No deadlock without an extract-features *)

\* What a populate-kg waits for is held by one that is further on.
LEMMA WaitsForLater ==
  ASSUME TypeOK, Upward, NEW r \in Runs, run[r].pc \in {"courts", "judges"},
         NEW q \in Blockers(r), run[q].pc \in {"courts", "judges"}, Blockers(q) # {}
  PROVE  /\ 1 \in DOMAIN run[r].todo /\ 1 \in DOMAIN run[q].todo
         /\ Rank(RowAt(run[r], 1)) < Rank(RowAt(run[q], 1))
<1>1. /\ Item(r) # <<>> /\ Item(q) # <<>> /\ q \in Runs
      /\ RowOf(r, Item(r)) \in Held(q)
  BY DEF Blockers
<1>2. ASSUME NEW p \in Runs, run[p].pc \in {"courts", "judges"}, Item(p) # <<>>
      PROVE  run[p].todo # <<>> /\ 1 \in DOMAIN run[p].todo /\ Head(run[p].todo) = run[p].todo[1]
  <2>1. run[p].todo # <<>>
    BY <1>2 DEF Item
  <2>2. \E T : run[p].todo \in Seq(T)
    BY <1>2, Shape, GraphTypes DEF CourtsRun, JudgesRun
  <2> QED BY <2>1, <2>2, TailOf
<1>3. RowOf(r, Item(r)) = RowAt(run[r], 1)
  BY <1>1, <1>2, NextRow DEF RowAt
<1>4. Held(q) = run[q].held
  BY DEF Held
<1>5. Rising(run[q])
  BY <1>1 DEF Upward
<1> QED BY <1>1, <1>2, <1>3, <1>4, <1>5 DEF Rising

\* Only transactions hold rows while others wait.
LEMMA HoldersPopulate ==
  ASSUME TypeOK, NEW r \in Runs \ Extracting, NEW q \in Runs, r \in Blockers(q)
  PROVE  run[r].pc \in {"courts", "judges"}
<1>1. Held(r) # {}
  BY DEF Blockers
<1>2. run[r].pc \notin {"idle", "match", "update", "docs", "severity", "winrates"}
  BY <1>1 DEF Held, Extracting
<1> QED BY <1>2, Shape, GraphTypes

LEMMA NoDeadlock ==
  ASSUME TypeOK, Upward
  PROVE  OnlyExtractDeadlocks
<1> SUFFICES ASSUME NEW S \in SUBSET (Runs \ Extracting), Deadlocked(S)
             PROVE  FALSE
  BY DEF OnlyExtractDeadlocks
<1> DEFINE rank == [r \in S |-> Rank(RowAt(run[r], 1))]
           R == {rank[r] : r \in S}
           last == Len(Courts) + Len(Keys)
<1>0. \A r \in S : run[r].pc \in {"courts", "judges"}
  BY HoldersPopulate DEF Deadlocked
<1>1. S # {} /\ \A r \in S : \E q \in S : q \in Blockers(r)
  BY DEF Deadlocked
<1>2. \A r \in S : \E q \in S : 1 \in DOMAIN run[r].todo /\ rank[r] < rank[q]
  <2> TAKE r \in S
  <2>1. PICK q \in S : q \in Blockers(r)
    BY <1>1
  <2>2. Blockers(q) # {}
    BY <1>1
  <2> QED BY <1>0, <2>1, <2>2, WaitsForLater
<1>3. last \in Nat
  BY JudgesAssumption, LenProperties
<1>4. \A r \in S : rank[r] \in 1..last
  BY <1>0, <1>2, RowRank, GraphTypes
<1> HIDE DEF rank, last
<1>5. R \in SUBSET (1..last) /\ R # {}
  BY <1>1, <1>4
<1>6. R \in SUBSET Int /\ IsFiniteSet(R)
  <2>1. IsFiniteSet(1..last)
    BY <1>3, FS_Interval
  <2>2. IsFiniteSet(R)
    BY <1>5, <2>1, FS_Subset
  <2>3. \A x \in 1..last : x \in Int
    BY <1>3
  <2> HIDE DEF R
  <2> QED BY <1>5, <2>2, <2>3
<1> HIDE DEF R
<1>7. Max(R) \in R /\ \A x \in R : x <= Max(R)
  BY <1>5, <1>6, MaxIsGreatest
<1>8. PICK r \in S : rank[r] = Max(R)
  BY <1>7 DEF R
<1>9. PICK q \in S : rank[r] < rank[q]
  BY <1>2
<1>10. rank[q] <= Max(R)
  BY <1>7 DEF R
<1>11. rank[r] \in Int /\ rank[q] \in Int
  BY <1>3, <1>4
<1> QED BY <1>8, <1>9, <1>10, <1>11

-----------------------------------------------------------------------------
(* Scores, tallies and documents *)

LEMMA ScoresStep ==
  ASSUME TypeOK, MatchHolds, ScoresOnOwnCourt, Changes
  PROVE  ScoresOnOwnCourt'
<1> DEFINE Own(row, s) == row[s] # NoScore => row.court = Home(row[s].confidence, row[s].entry)
<1> SUFFICES ASSUME NEW t \in Tenants, NEW k \in Key, NEW s \in Sources, judges'[t][k] # NoJudge
             PROVE  Own(judges'[t][k], s)
  BY DEF ScoresOnOwnCourt, Key, Home
<1> DEFINE old == judges[t][k]
           new == judges'[t][k]
<1>1. old \in JudgeRow \cup {NoJudge} /\ RowChange(t, k)
  BY GraphTypes DEF JudgeTable, Changes
<1>2. old # NoJudge => Own(old, s)
  BY DEF ScoresOnOwnCourt, Key, Home
<1>3. CASE new = old
  BY <1>2, <1>3
<1>4. ASSUME NEW c \in Slug \cup {NoCourt}, new = PopulatedJudge(old, c) PROVE Own(new, s)
  BY <1>1, <1>2, <1>4, PopulatedJudgeKeeps, NewJudgeType
<1>5. ASSUME NEW tally \in Tally, new = ExtractedBio(old, tally) PROVE Own(new, s)
  <2>1. CASE old = NoJudge
    <3>1. new[s] = NewJudge(NoCourt)[s]
      BY <1>1, <1>5, <2>1, ExtractedBioKeeps
    <3> QED BY <3>1, NewJudgeType
  <2>2. CASE old # NoJudge
    <3>1. new[s] = old[s] /\ new.court = old.court
      BY <1>1, <1>5, <2>2, ExtractedBioKeeps
    <3> QED BY <1>2, <2>2, <3>1
  <2> QED BY <2>1, <2>2
<1>6. ASSUME NEW r \in Runs, run[r].pc = "update", run[r].tenant = t, run[r].hit.judge = k,
             old # NoJudge, run[r].source \in Sources,
             NEW bio \in Bio(run[r].source),
             bio = [entry |-> Head(run[r].todo), confidence |-> run[r].hit.confidence],
             new = [old EXCEPT ![run[r].source] = bio]
      PROVE  Own(new, s)
  <2>1. old.court = Home(bio.confidence, bio.entry)
    BY <1>6 DEF MatchHolds
  <2>2. /\ new[run[r].source] = bio /\ new.court = old.court
        /\ \A other \in Sources \ {run[r].source} : new[other] = old[other]
    BY <1>1, <1>6, ScoreWritten
  <2>3. CASE s = run[r].source
    BY <2>1, <2>2, <2>3
  <2>4. CASE s # run[r].source
    <3>1. new[s] = old[s]
      BY <2>2, <2>4
    <3> QED BY <1>2, <1>6, <2>2, <3>1
  <2> QED BY <2>3, <2>4
<1> HIDE DEF Own, new, old
<1> QED BY <1>1, <1>3, <1>4, <1>5, <1>6 DEF RowChange, new, old

\* Only a commit of extract-features marks documents.
LEMMA NewlyMarked ==
  ASSUME [Next]_vars, NEW d \in Docs
  PROVE  \/ features'[d] = features[d]
         \/ \E r \in Runs : ExtractCommit(r) /\ d \in run[r].batch
<1>1. ASSUME NEW r \in Runs, ExtractCommit(r), d \notin run[r].batch PROVE features'[d] = features[d]
  BY <1>1 DEF ExtractCommit
<1>2. ASSUME NEW r \in Runs, Populating(r) \/ ExtractGoesOn(r) \/ Importing(r)
      PROVE  UNCHANGED features
  BY <1>2, PopulatingSeen, ExtractGoesOnSeen, ImportingSeen
<1>3. ASSUME NEW r \in Runs, Ending(r) PROVE ExtractCommit(r) \/ UNCHANGED features
  BY <1>3, EndingSeen DEF PopulateCommit
<1>4. (\E x \in Docs : Publish(x)) \/ UNCHANGED vars => UNCHANGED features
  BY DEF Publish, vars
<1> QED BY <1>1, <1>2, <1>3, <1>4, Kinds

LEMMA CommitMarks ==
  ASSUME TypeOK, NEW r \in Runs, ExtractCommit(r)
  PROVE  /\ run[r].pc = "winrates" /\ r \in Extracting
         /\ run[r].batch \in SUBSET corpus /\ run[r].batch \in SUBSET Docs
         /\ run[r].batch \subseteq Marked' /\ Marked' \ Marked \subseteq run[r].batch
<1>1. run[r].pc = "winrates" /\ r \in Extracting
  BY DEF ExtractCommit, Extracting
<1>2. run[r].batch \in SUBSET corpus /\ run[r].batch \in SUBSET Docs
  BY <1>1 DEF TypeOK
<1>3. features' = [d \in Docs |-> IF d \in run[r].batch THEN Feature[d] ELSE features[d]]
  BY DEF ExtractCommit
<1>4. \A d \in Docs : Feature[d] # None
  BY JudgesAssumption
<1> QED BY <1>1, <1>2, <1>3, <1>4 DEF Marked

LEMMA MarkedGrows ==
  ASSUME TypeOK, [Next]_vars
  PROVE  Marked \subseteq Marked'
<1> SUFFICES ASSUME NEW d \in Docs, features[d] # None PROVE d \in Marked'
  BY DEF Marked
<1>1. CASE features'[d] = features[d]
  BY <1>1 DEF Marked
<1>2. ASSUME NEW r \in Runs, ExtractCommit(r), d \in run[r].batch PROVE d \in Marked'
  BY <1>2, CommitMarks
<1> QED BY <1>1, <1>2, NewlyMarked

LEMMA TallyOfMarkedStep ==
  ASSUME TypeOK, PatchRight, TallyOfMarked, Changes, [Next]_vars
  PROVE  TallyOfMarked'
<1> DEFINE Of(tally, k) == \E batch \in SUBSET Marked' : tally \in Tallies(batch, k)
           RateOf(rate, a) ==
             \E batch \in SUBSET Marked' : a \in NamesOfCounsel(batch) /\ rate = WinRate(batch, a)
<1>0. Marked \subseteq Marked'
  BY MarkedGrows
<1>1. ASSUME NEW t \in Tenants, NEW k \in Key,
             judges'[t][k] # NoJudge, judges'[t][k].severity # None
      PROVE  Of(judges'[t][k].severity, k)
  <2> DEFINE old == judges[t][k]
             new == judges'[t][k]
  <2>1. old \in JudgeRow \cup {NoJudge} /\ RowChange(t, k)
    BY GraphTypes DEF JudgeTable, Changes
  <2>2. ASSUME old # NoJudge, old.severity # None PROVE Of(old.severity, k)
    BY <1>0, <2>2 DEF TallyOfMarked
  <2>3. CASE new = old
    BY <1>1, <2>2, <2>3
  <2>4. ASSUME NEW c \in Slug \cup {NoCourt}, new = PopulatedJudge(old, c) PROVE Of(new.severity, k)
    <3>1. CASE old # NoJudge
      BY <1>1, <2>1, <2>2, <2>4, <3>1, PopulatedJudgeKeeps
    <3>2. CASE old = NoJudge
      <4>1. new.severity = None
        BY <2>4, <3>2, PopulatedJudgeKeeps, NewJudgeType
      <4> QED BY <1>1, <4>1
    <3> QED BY <3>1, <3>2
  <2>5. ASSUME NEW r \in Runs, ExtractCommit(r), k \in DOMAIN run[r].patch,
               run[r].patch[k] \in Tally, new = ExtractedBio(old, run[r].patch[k])
        PROVE  Of(new.severity, k)
    <3>1. run[r].batch \in SUBSET Marked' /\ r \in Extracting
      BY <2>5, CommitMarks
    <3>2. run[r].patch[k] \in Tallies(run[r].batch, k)
      BY <2>5, <3>1 DEF PatchRight
    <3>3. new.severity = run[r].patch[k]
      BY <2>1, <2>5, ExtractedBioKeeps
    <3> QED BY <3>1, <3>2, <3>3
  <2>6. ASSUME NEW s \in Sources, NEW bio \in Bio(s), old # NoJudge, new = [old EXCEPT ![s] = bio]
        PROVE  Of(new.severity, k)
    <3>1. new.severity = old.severity
      BY <2>1, <2>6, ScoreWritten
    <3> QED BY <1>1, <2>2, <2>6, <3>1
  <2> HIDE DEF Of
  <2> QED BY <2>1, <2>3, <2>4, <2>5, <2>6 DEF RowChange
<1>2. ASSUME NEW t \in Tenants, NEW a \in Counsel, attorneys'[t][a] # None
      PROVE  RateOf(attorneys'[t][a], a)
  <2>1. CASE attorneys'[t][a] = attorneys[t][a]
    BY <1>0, <1>2, <2>1 DEF TallyOfMarked
  <2>2. ASSUME NEW r \in Runs, ExtractCommit(r), a \in NamesOfCounsel(run[r].batch),
               attorneys'[t][a] = WinRate(run[r].batch, a)
        PROVE  RateOf(attorneys'[t][a], a)
    BY <2>2, CommitMarks
  <2> HIDE DEF RateOf
  <2> QED BY <2>1, <2>2 DEF Changes, RateChange
<1> QED BY <1>1, <1>2 DEF TallyOfMarked

\* The commit that marks documents writes the tallies over its batch.
LEMMA CommitCounts ==
  ASSUME TypeOK, PatchRight, AllTallied, NEW r \in Runs, ExtractCommit(r)
  PROVE  /\ run[r].tenant \in Tenants
         /\ \A d \in run[r].batch, k \in Key :
              k \in KeysOf(AllNames[d]) =>
                /\ judges'[run[r].tenant][k] # NoJudge
                /\ judges'[run[r].tenant][k].severity \in Tallies(run[r].batch, k)
         /\ \A a \in NamesOfCounsel(run[r].batch) :
              attorneys'[run[r].tenant][a] = WinRate(run[r].batch, a)
<1> DEFINE me == run[r]
           t == me.tenant
<1>1. me.pc = "winrates" /\ r \in Extracting
  BY CommitMarks
<1>2. PICK names \in SUBSET Key : me \in ExtractRun("winrates", Counsel, names)
  BY <1>1, Shape, GraphTypes
<1>3. t \in Tenants /\ me.batch \in SUBSET Docs /\ me.patch \in [names -> Tally]
  BY <1>2 DEF ExtractRun
<1>4. ASSUME NEW d \in me.batch, NEW k \in Key, k \in KeysOf(AllNames[d])
      PROVE  judges'[t][k] # NoJudge /\ judges'[t][k].severity \in Tallies(me.batch, k)
  <2>1. k \in DOMAIN me.patch
    BY <1>1, <1>4 DEF AllTallied
  <2>2. me.patch[k] \in Tally /\ me.patch[k] \in Tallies(me.batch, k)
    BY <1>1, <1>3, <2>1 DEF PatchRight
  <2>3. judges'[t][k] = ExtractedBio(judges[t][k], me.patch[k])
    BY <1>3, <2>1, <2>2, GraphTypes DEF ExtractCommit, Key, JudgeTable
  <2>4. judges[t][k] \in JudgeRow \cup {NoJudge}
    BY <1>3, <2>2, GraphTypes DEF JudgeTable
  <2>5. judges'[t][k] \in JudgeRow /\ judges'[t][k].severity = me.patch[k]
    BY <2>2, <2>3, <2>4, ExtractedBioKeeps
  <2> QED BY <2>2, <2>5, JudgesAssumption
<1>5. ASSUME NEW a \in NamesOfCounsel(me.batch) PROVE attorneys'[t][a] = WinRate(me.batch, a)
  <2>1. a \in Counsel
    BY <1>3, CounselNamed
  <2> QED BY <1>3, <2>1, GraphTypes DEF ExtractCommit, AttorneyTable
<1> QED BY <1>3, <1>4, <1>5

LEMMA CountedStep ==
  ASSUME TypeOK, PatchRight, AllTallied, [Next]_vars, Marked' # Marked
  PROVE  \E t \in Tenants, batch \in SUBSET corpus :
           /\ Marked' \ Marked \subseteq batch
           /\ \A d \in batch, k \in Key :
                k \in KeysOf(AllNames[d]) =>
                  judges'[t][k] # NoJudge /\ judges'[t][k].severity \in Tallies(batch, k)
           /\ \A a \in NamesOfCounsel(batch) : attorneys'[t][a] = WinRate(batch, a)
<1>1. PICK d \in Docs : d \in Marked' /\ d \notin Marked
  BY MarkedGrows DEF Marked
<1>2. features'[d] # features[d]
  BY <1>1 DEF Marked
<1>3. PICK r \in Runs : ExtractCommit(r)
  BY <1>2, NewlyMarked
<1> DEFINE t0 == run[r].tenant
           batch0 == run[r].batch
<1>4. batch0 \in SUBSET corpus /\ Marked' \ Marked \subseteq batch0
  BY <1>3, CommitMarks
<1>5. /\ t0 \in Tenants
      /\ \A x \in batch0, k \in Key :
           k \in KeysOf(AllNames[x]) =>
             judges'[t0][k] # NoJudge /\ judges'[t0][k].severity \in Tallies(batch0, k)
      /\ \A a \in NamesOfCounsel(batch0) : attorneys'[t0][a] = WinRate(batch0, a)
  BY <1>3, CommitCounts
<1> HIDE DEF t0, batch0
<1> QED BY <1>4, <1>5

-----------------------------------------------------------------------------
(* The inductive invariant and the theorems *)

\* OnlyExtractDeadlocks needs Upward, since what a run holds now decides whom
\* it blocks later; ScoresOnOwnCourt needs MatchHolds, as an importer writes in a
\* later transaction than it reads; the tallies, which only the commit writes,
\* need PatchRight for what they count and AllTallied for their being all there.
IInv ==
  /\ TypeOK
  /\ Upward
  /\ MatchHolds
  /\ PatchRight /\ AllTallied
  /\ ScoresOnOwnCourt
  /\ TallyOfMarked

LEMMA InitIInv == Init => IInv
<1> SUFFICES ASSUME Init PROVE IInv
  OBVIOUS
<1>1. TypeOK
  BY TypesInit
<1>2. \A r \in Runs : run[r].pc = "idle"
  BY DEF Init, Idle
<1>3. Upward /\ MatchHolds
  BY <1>2 DEF Upward, MatchHolds
<1>4. PatchRight /\ AllTallied
  BY <1>2 DEF PatchRight, AllTallied, Extracting
<1>5. \A t \in Tenants, k \in Key : judges[t][k] = NoJudge
  BY DEF Init, Key
<1>6. \A t \in Tenants, a \in Counsel : attorneys[t][a] = None
  BY DEF Init
<1>7. ScoresOnOwnCourt /\ TallyOfMarked
  BY <1>5, <1>6 DEF ScoresOnOwnCourt, TallyOfMarked, Key
<1> QED BY <1>1, <1>3, <1>4, <1>7 DEF IInv

LEMMA StepIInv == IInv /\ [Next]_vars => IInv'
<1> SUFFICES ASSUME IInv, [Next]_vars PROVE IInv'
  OBVIOUS
<1>1. /\ TypeOK /\ Upward /\ MatchHolds /\ PatchRight /\ AllTallied
      /\ ScoresOnOwnCourt /\ TallyOfMarked
  BY DEF IInv
<1>2. Changes
  BY <1>1, GraphChanges
<1>3. TypeOK' /\ Upward' /\ MatchHolds'
  BY <1>1, TypesStep, UpwardStep, MatchHoldsStep
<1>4. PatchRight' /\ AllTallied'
  BY <1>1, TallyStep
<1>5. ScoresOnOwnCourt'
  BY <1>1, <1>2, ScoresStep
<1>6. TallyOfMarked'
  BY <1>1, <1>2, TallyOfMarkedStep
<1> QED BY <1>3, <1>4, <1>5, <1>6 DEF IInv

LEMMA IInvHolds == Spec => []IInv
BY InitIInv, StepIInv, PTL DEF Spec

\* Whatever the commands do to the graph at the same time, a judge's court has a
\* row of the same tenant, tallies count no more losses than cases, only stored
\* documents have features, and scores are entries of a release that have one.
THEOREM TypeCorrect == Spec => []TypeOK
<1>1. IInv => TypeOK
  BY DEF IInv
<1> QED BY <1>1, IInvHolds, PTL

\* run_extraction: the step that marks documents writes the tallies, over one
\* batch with all of them in it, of every judge and attorney of that batch,
\* whichever runs are killed, overlap or lose a deadlock.
THEOREM Together == Spec => CountedWhenMarked
<1>1. IInv /\ [Next]_vars =>
        [Marked' # Marked =>
           \E t \in Tenants, batch \in SUBSET corpus :
             /\ Marked' \ Marked \subseteq batch
             /\ \A d \in batch, k \in Key :
                  k \in KeysOf(AllNames[d]) =>
                    judges'[t][k] # NoJudge /\ judges'[t][k].severity \in Tallies(batch, k)
             /\ \A a \in NamesOfCounsel(batch) : attorneys'[t][a] = WinRate(batch, a)]_vars
  BY CountedStep DEF IInv
<1> QED BY <1>1, IInvHolds, PTL DEF Spec, CountedWhenMarked

\* Extractions of the same or of other documents never add up: a stored tally is
\* exactly that of one set of marked documents, a judge's in one court.
THEOREM NotCountedTwice == Spec => []TallyOfMarked
<1>1. IInv => TallyOfMarked
  BY DEF IInv
<1> QED BY <1>1, IInvHolds, PTL

\* match_row and the UPDATE are two transactions, and still a score is only on a
\* judge of its row's court, or, matched by name alone, on a judge of no court.
THEOREM OwnCourt == Spec => []ScoresOnOwnCourt
<1>1. IInv => ScoresOnOwnCourt
  BY DEF IInv
<1> QED BY <1>1, IInvHolds, PTL

\* Any number of populate-kg and importers, over any number of courts and judges,
\* never wait for each other in a circle: all insert courts before judges, in one
\* order, and an importer's statement is a transaction of its own.
THEOREM NoCircle == Spec => []OnlyExtractDeadlocks
<1>1. IInv => OnlyExtractDeadlocks
  BY NoDeadlock DEF IInv
<1> QED BY <1>1, IInvHolds, PTL

\* For any release, also one whose rows are out of order, repeat a term or have
\* no score: the gateway shows the latest scored term up to the decision's year.
THEOREM RightTerm == Spec => []ShownTermRight
<1>1. IInv => ShownTermRight
  BY ShownRight DEF IInv
<1> QED BY <1>1, IInvHolds, PTL

\* No step of any command takes from a judge the row, the court, the tally or a
\* score that another command wrote.
THEOREM Kept == Spec => BioKept
<1>1. IInv /\ [Next]_vars =>
        [\A t \in Tenants, k \in ToSet(Keys) : judges[t][k] # NoJudge =>
           /\ judges'[t][k] # NoJudge
           /\ judges'[t][k].court = judges[t][k].court
           /\ judges[t][k].severity # None => judges'[t][k].severity # None
           /\ \A s \in Sources : judges[t][k][s] # NoScore => judges'[t][k][s] # NoScore]_vars
  BY GraphChanges, RowsKept DEF IInv, Key
<1> QED BY <1>1, IInvHolds, PTL DEF Spec, BioKept

=============================================================================
