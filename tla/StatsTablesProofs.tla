---------------------------- MODULE StatsTablesProofs ----------------------------
(***************************************************************************)
(* What the operators of StatsTables and StatsCommands do, for any songs   *)
(* and any rows: the sums of play counts first, which are a fold over a    *)
(* set; then the rows that db_process and the commands write; at last what *)
(* eugene reads of an answer, line by line, row by row.                    *)
(***************************************************************************)
EXTENDS StatsCommands, FiniteSetTheorems, SequenceTheorems, WellFoundedInduction, TLAPS

(* What is true of no number at all has no first number of which it is     *)
(* true: an induction, for sets that are written out. *)
LEMMA FirstOne ==
    ASSUME NEW S \in SUBSET Nat, S # {}
    PROVE  \E n \in S : n = 0 \/ n - 1 \in Nat \ S
<1> DEFINE less == OpToRel(<, Nat)
<1>1. PICK n \in S : \A j \in S : ~ (<<j, n>> \in less)
  <2> HIDE DEF less
  <2> QED
    BY NatLessThanWellFounded, WFMin DEF less
<1>2. n \in Nat
  OBVIOUS
<1>3. n - 1 \in S => n = 0
  <2> SUFFICES ASSUME n - 1 \in S, n # 0 PROVE FALSE
    OBVIOUS
  <2>1. n - 1 \in Nat /\ n - 1 < n
    BY <1>2
  <2>2. <<n - 1, n>> \in less
    BY <1>2, <2>1 DEF OpToRel
  <2> QED
    BY <1>1, <2>2
<1> QED
  BY <1>2, <1>3

-----------------------------------------------------------------------------
(* Total is a fold: a function on the sets of songs, each of which adds    *)
(* the song it is said to begin with to the others. *)
Begins_with(set) == CHOOSE x \in set : TRUE

Sum_step(songs, sum, set) ==
    IF set = {} THEN 0
    ELSE songs[Begins_with(set)].count + sum[set \ {Begins_with(set)}]

Sums(songs, uris) ==
    CHOOSE sum : sum = [set \in SUBSET uris |-> Sum_step(songs, sum, set)]

LEMMA TotalIsSum == ASSUME NEW songs, NEW uris PROVE Total(songs, uris) = Sums(songs, uris)[uris]
BY DEF Total, MapThenSumSet, MapThenFoldSet, Sums, Sum_step, Begins_with

LEMMA BeginsInside ==
    ASSUME NEW set, IsFiniteSet(set), set # {}
    PROVE  /\ Begins_with(set) \in set
           /\ Cardinality(set) \in Nat \ {0}
           /\ IsFiniteSet(set \ {Begins_with(set)})
           /\ Cardinality(set \ {Begins_with(set)}) = Cardinality(set) - 1
<1>1. Begins_with(set) \in set
  BY DEF Begins_with
<1>2. Cardinality(set) \in Nat /\ Cardinality(set) # 0
  BY FS_CardinalityType, FS_EmptySet
<1> QED
  BY <1>1, <1>2, FS_RemoveElement

LEMMA SumsExist ==
    ASSUME NEW songs, NEW uris, IsFiniteSet(uris)
    PROVE  \E sum : sum = [set \in SUBSET uris |-> Sum_step(songs, sum, set)]
<1> DEFINE Good(n) ==
             \E sum : /\ sum = [set \in SUBSET uris |-> sum[set]]
                      /\ \A set \in SUBSET uris :
                           Cardinality(set) <= n => sum[set] = Sum_step(songs, sum, set)
           bad == {n \in Nat : ~ Good(n)}
<1>1. \A set \in SUBSET uris : IsFiniteSet(set) /\ Cardinality(set) \in Nat
  BY FS_Subset, FS_CardinalityType
<1>2. Good(0)
  <2> DEFINE sum == [set \in SUBSET uris |-> 0]
  <2>1. \A set \in SUBSET uris : Cardinality(set) <= 0 => set = {}
    BY <1>1, FS_EmptySet
  <2>2. \A set \in SUBSET uris : Cardinality(set) <= 0 => sum[set] = Sum_step(songs, sum, set)
    BY <2>1 DEF Sum_step
  <2>3. sum = [set \in SUBSET uris |-> sum[set]]
    OBVIOUS
  <2> QED
    BY <2>2, <2>3
<1>3. ASSUME NEW n \in Nat, Good(n) PROVE Good(n + 1)
  <2>1. PICK g : /\ g = [set \in SUBSET uris |-> g[set]]
                 /\ \A set \in SUBSET uris :
                      Cardinality(set) <= n => g[set] = Sum_step(songs, g, set)
    BY <1>3
  <2> DEFINE h == [set \in SUBSET uris |->
                     IF Cardinality(set) <= n THEN g[set] ELSE Sum_step(songs, g, set)]
  <2>2. \A set \in SUBSET uris : h[set] = Sum_step(songs, g, set)
    BY <2>1
  <2>3. \A set \in SUBSET uris : Cardinality(set) <= n => h[set] = g[set]
    OBVIOUS
  <2>4. h = [set \in SUBSET uris |-> h[set]]
    OBVIOUS
  <2> HIDE DEF h
  <2>5. ASSUME NEW set \in SUBSET uris, Cardinality(set) <= n + 1
        PROVE  Sum_step(songs, g, set) = Sum_step(songs, h, set)
    <3>1. CASE set = {}
      BY <3>1 DEF Sum_step
    <3>2. CASE set # {}
      <4>1. /\ set \ {Begins_with(set)} \in SUBSET uris
            /\ Cardinality(set \ {Begins_with(set)}) = Cardinality(set) - 1
            /\ Cardinality(set) \in Nat
        BY <1>1, <3>2, BeginsInside
      <4>2. h[set \ {Begins_with(set)}] = g[set \ {Begins_with(set)}]
        BY <2>3, <2>5, <4>1
      <4> QED
        BY <3>2, <4>2 DEF Sum_step
    <3> QED
      BY <3>1, <3>2
  <2> QED
    BY <2>2, <2>4, <2>5
<1>4. bad = {}
  <2> SUFFICES ASSUME bad # {} PROVE FALSE
    OBVIOUS
  <2> HIDE DEF Good
  <2>1. PICK n \in bad : n = 0 \/ n - 1 \in Nat \ bad
    BY FirstOne
  <2>2. n # 0 /\ n \in Nat /\ n - 1 \in Nat /\ Good(n - 1)
    BY <1>2, <2>1
  <2>3. Good((n - 1) + 1)
    BY <1>3, <2>2
  <2> QED
    BY <2>1, <2>2, <2>3
<1>5. Good(Cardinality(uris))
  <2> HIDE DEF Good
  <2> QED
    BY <1>1, <1>4
<1>6. PICK sum : /\ sum = [set \in SUBSET uris |-> sum[set]]
                 /\ \A set \in SUBSET uris :
                      Cardinality(set) <= Cardinality(uris) => sum[set] = Sum_step(songs, sum, set)
  BY <1>5
<1>7. \A set \in SUBSET uris : Cardinality(set) <= Cardinality(uris)
  BY FS_Subset
<1>8. sum = [set \in SUBSET uris |-> Sum_step(songs, sum, set)]
  BY <1>6, <1>7
<1> QED
  BY <1>8

LEMMA SumsStep ==
    ASSUME NEW songs, NEW uris, IsFiniteSet(uris), NEW set \in SUBSET uris
    PROVE  Sums(songs, uris)[set] = Sum_step(songs, Sums(songs, uris), set)
<1>1. Sums(songs, uris) = [t \in SUBSET uris |-> Sum_step(songs, Sums(songs, uris), t)]
  BY SumsExist DEF Sums
<1> QED
  BY <1>1

(* Only the counts of the songs summed up matter. *)
LEMMA SumsSame ==
    ASSUME NEW songs, NEW a, IsFiniteSet(a), NEW others, NEW b, IsFiniteSet(b),
           NEW set \in SUBSET (a \intersect b),
           \A x \in set : songs[x].count = others[x].count
    PROVE  Sums(songs, a)[set] = Sums(others, b)[set]
<1> DEFINE Wrong(t) == /\ \A x \in t : songs[x].count = others[x].count
                       /\ Sums(songs, a)[t] # Sums(others, b)[t]
           bad == {n \in Nat : \E t \in SUBSET (a \intersect b) : Cardinality(t) = n /\ Wrong(t)}
<1>1. \A t \in SUBSET (a \intersect b) : IsFiniteSet(t) /\ Cardinality(t) \in Nat
  BY FS_Subset, FS_CardinalityType
<1>2. ASSUME NEW n \in bad PROVE n # 0 /\ n - 1 \in bad
  <2>1. PICK t \in SUBSET (a \intersect b) : Cardinality(t) = n /\ Wrong(t)
    OBVIOUS
  <2>2. /\ t \in SUBSET a /\ t \in SUBSET b
        /\ Sums(songs, a)[t] = Sum_step(songs, Sums(songs, a), t)
        /\ Sums(others, b)[t] = Sum_step(others, Sums(others, b), t)
    BY SumsStep
  <2>3. t # {}
    BY <2>1, <2>2 DEF Sum_step
  <2> DEFINE less == t \ {Begins_with(t)}
  <2>4. /\ Begins_with(t) \in t /\ Cardinality(t) \in Nat \ {0}
        /\ less \in SUBSET (a \intersect b) /\ Cardinality(less) = n - 1
    BY <1>1, <2>1, <2>3, BeginsInside
  <2>5. Sums(songs, a)[less] # Sums(others, b)[less]
    BY <2>1, <2>2, <2>3, <2>4 DEF Sum_step
  <2>6. Wrong(less)
    BY <2>1, <2>5
  <2> HIDE DEF Wrong, less
  <2> QED
    BY <2>1, <2>4, <2>6
<1>3. bad = {}
  <2> SUFFICES ASSUME bad # {} PROVE FALSE
    OBVIOUS
  <2> HIDE DEF Wrong
  <2>1. bad \in SUBSET Nat
    OBVIOUS
  <2> HIDE DEF bad
  <2> QED
    BY <1>2, <2>1, FirstOne
<1>4. ~ Wrong(set)
  <2> HIDE DEF Wrong
  <2> QED
    BY <1>1, <1>3
<1> QED
  BY <1>4

LEMMA TotalSame ==
    ASSUME NEW songs, NEW others, NEW uris, IsFiniteSet(uris),
           \A x \in uris : songs[x].count = others[x].count
    PROVE  Total(songs, uris) = Total(others, uris)
BY TotalIsSum, SumsSame

LEMMA TotalOfNone == ASSUME NEW songs PROVE Total(songs, {}) = 0
<1>1. IsFiniteSet({})
  BY FS_EmptySet
<1>2. Sums(songs, {})[{}] = Sum_step(songs, Sums(songs, {}), {})
  BY <1>1, SumsStep
<1> QED
  BY <1>2, TotalIsSum DEF Sum_step

LEMMA TotalBegins ==
    ASSUME NEW songs, NEW uris, IsFiniteSet(uris), uris # {}
    PROVE  Total(songs, uris) =
             songs[Begins_with(uris)].count + Total(songs, uris \ {Begins_with(uris)})
<1> DEFINE less == uris \ {Begins_with(uris)}
<1>1. less \in SUBSET uris /\ IsFiniteSet(less)
  BY BeginsInside
<1>2. Sums(songs, uris)[uris] = songs[Begins_with(uris)].count + Sums(songs, uris)[less]
  BY SumsStep DEF Sum_step
<1>3. Sums(songs, uris)[less] = Sums(songs, less)[less]
  BY <1>1, SumsSame
<1> HIDE DEF less
<1>4. Total(songs, uris) = songs[Begins_with(uris)].count + Total(songs, less)
  BY <1>2, <1>3, TotalIsSum
<1> QED
  BY <1>4 DEF less

LEMMA TotalIsInt ==
    ASSUME NEW songs, NEW uris, IsFiniteSet(uris), \A x \in uris : songs[x].count \in Int
    PROVE  Total(songs, uris) \in Int
<1> DEFINE bad == {n \in Nat : \E t \in SUBSET uris : Cardinality(t) = n /\ Total(songs, t) \notin Int}
<1>1. \A t \in SUBSET uris : IsFiniteSet(t) /\ Cardinality(t) \in Nat
  BY FS_Subset, FS_CardinalityType
<1>2. ASSUME NEW n \in bad PROVE n # 0 /\ n - 1 \in bad
  <2>1. PICK t \in SUBSET uris : Cardinality(t) = n /\ Total(songs, t) \notin Int
    OBVIOUS
  <2>2. t # {}
    BY <2>1, TotalOfNone
  <2> DEFINE less == t \ {Begins_with(t)}
  <2>3. /\ Begins_with(t) \in t /\ Cardinality(t) \in Nat \ {0}
        /\ less \in SUBSET uris /\ Cardinality(less) = n - 1
        /\ Total(songs, t) = songs[Begins_with(t)].count + Total(songs, less)
    BY <1>1, <2>1, <2>2, BeginsInside, TotalBegins
  <2> HIDE DEF less
  <2>4. Total(songs, less) \notin Int
    BY <2>1, <2>3
  <2> QED
    BY <2>1, <2>3, <2>4
<1>3. bad = {}
  <2> SUFFICES ASSUME bad # {} PROVE FALSE
    OBVIOUS
  <2>1. bad \in SUBSET Nat
    OBVIOUS
  <2> HIDE DEF bad
  <2> QED
    BY <1>2, <2>1, FirstOne
<1> QED
  BY <1>1, <1>3

(* A sum may begin with any of its songs. *)
LEMMA TotalLess ==
    ASSUME NEW songs, NEW uris, IsFiniteSet(uris), \A x \in uris : songs[x].count \in Int,
           NEW one \in uris
    PROVE  Total(songs, uris) = songs[one].count + Total(songs, uris \ {one})
<1> DEFINE Wrong(t) == \E x \in t : Total(songs, t) # songs[x].count + Total(songs, t \ {x})
           bad == {n \in Nat : \E t \in SUBSET uris : Cardinality(t) = n /\ Wrong(t)}
<1>1. \A t \in SUBSET uris : IsFiniteSet(t) /\ Cardinality(t) \in Nat /\ Total(songs, t) \in Int
  BY FS_Subset, FS_CardinalityType, TotalIsInt
<1>2. ASSUME NEW n \in bad PROVE n # 0 /\ n - 1 \in bad
  <2>1. PICK t \in SUBSET uris : Cardinality(t) = n /\ Wrong(t)
    OBVIOUS
  <2>2. PICK x \in t : Total(songs, t) # songs[x].count + Total(songs, t \ {x})
    BY <2>1
  <2> DEFINE y == Begins_with(t)
             less == t \ {y}
  <2>3. /\ y \in t /\ Cardinality(t) \in Nat \ {0}
        /\ less \in SUBSET uris /\ Cardinality(less) = n - 1
        /\ Total(songs, t) = songs[y].count + Total(songs, less)
    BY <1>1, <2>1, <2>2, BeginsInside, TotalBegins
  <2> HIDE DEF y
  <2>4. x # y
    BY <2>2, <2>3
  <2>5. n # 0
    BY <2>1, <2>3
  <2> HIDE DEF less
  <2>6. CASE Wrong(less)
    <3> HIDE DEF Wrong
    <3> QED
      BY <2>3, <2>5, <2>6
  <2>7. CASE ~ Wrong(less)
    <3>1. t \ {x} \in SUBSET uris /\ Cardinality(t \ {x}) = n - 1 /\ y \in t \ {x}
      BY <1>1, <2>1, <2>3, <2>4, FS_RemoveElement
    <3>2. x \in less /\ less \ {x} \in SUBSET uris
      BY <2>3, <2>4 DEF less
    <3>3. Total(songs, less) = songs[x].count + Total(songs, less \ {x})
      BY <2>7, <3>2
    <3>4. (t \ {x}) \ {y} = less \ {x}
      BY DEF less
    <3>5. /\ songs[x].count \in Int /\ songs[y].count \in Int
          /\ Total(songs, less \ {x}) \in Int
      BY <1>1, <2>3, <3>2
    <3>6. Total(songs, t \ {x}) # songs[y].count + Total(songs, less \ {x})
      <4> HIDE DEF Wrong
      <4> QED
        BY <2>2, <2>3, <3>3, <3>5
    <3>7. Wrong(t \ {x})
      BY <3>1, <3>4, <3>6
    <3> HIDE DEF Wrong
    <3> QED
      BY <2>5, <3>1, <3>7
  <2> QED
    BY <2>6, <2>7
<1>3. bad = {}
  <2> SUFFICES ASSUME bad # {} PROVE FALSE
    OBVIOUS
  <2> HIDE DEF Wrong
  <2>1. bad \in SUBSET Nat
    OBVIOUS
  <2> HIDE DEF bad
  <2> QED
    BY <1>2, <2>1, FirstOne
<1>4. ~ Wrong(uris)
  <2> HIDE DEF Wrong
  <2> QED
    BY <1>1, <1>3
<1> QED
  BY <1>4

-----------------------------------------------------------------------------
(* Remove_tag goes over the tags from the first to the last.               *)
Remove_step(tags, tag, new, i) ==
    IF i = 0 THEN <<>>
    ELSE IF tags[i] = tag THEN new[i - 1] ELSE Append(new[i - 1], tags[i])

Removals(tags, tag) ==
    CHOOSE new : new = [i \in 0 .. Len(tags) |-> Remove_step(tags, tag, new, i)]

LEMMA RemovalsExist ==
    ASSUME NEW tags \in Seq(Tags), NEW tag
    PROVE  \E new : new = [i \in 0 .. Len(tags) |-> Remove_step(tags, tag, new, i)]
<1> DEFINE len == Len(tags)
           Good(n) ==
             \E new : /\ new = [i \in 0 .. len |-> new[i]]
                      /\ \A i \in 0 .. len : i <= n => new[i] = Remove_step(tags, tag, new, i)
           bad == {n \in Nat : ~ Good(n)}
<1>1. len \in Nat
  OBVIOUS
<1> HIDE DEF len
<1>2. Good(0)
  <2> DEFINE new == [i \in 0 .. len |-> <<>>]
  <2>1. \A i \in 0 .. len : i <= 0 => new[i] = Remove_step(tags, tag, new, i)
    BY <1>1 DEF Remove_step
  <2>2. new = [i \in 0 .. len |-> new[i]]
    OBVIOUS
  <2> QED
    BY <2>1, <2>2
<1>3. ASSUME NEW n \in Nat, Good(n) PROVE Good(n + 1)
  <2>1. PICK g : /\ g = [i \in 0 .. len |-> g[i]]
                 /\ \A i \in 0 .. len : i <= n => g[i] = Remove_step(tags, tag, g, i)
    BY <1>3
  <2> DEFINE h == [i \in 0 .. len |-> IF i <= n THEN g[i] ELSE Remove_step(tags, tag, g, i)]
  <2>2. /\ \A i \in 0 .. len : h[i] = Remove_step(tags, tag, g, i)
        /\ \A i \in 0 .. len : i <= n => h[i] = g[i]
        /\ h = [i \in 0 .. len |-> h[i]]
    BY <2>1
  <2> HIDE DEF h
  <2>3. \A i \in 0 .. len : i <= n + 1 => Remove_step(tags, tag, g, i) = Remove_step(tags, tag, h, i)
    BY <1>1, <2>2 DEF Remove_step
  <2> QED
    BY <2>2, <2>3
<1>4. bad = {}
  <2> SUFFICES ASSUME bad # {} PROVE FALSE
    OBVIOUS
  <2> HIDE DEF Good
  <2>1. PICK n \in bad : n = 0 \/ n - 1 \in Nat \ bad
    BY FirstOne
  <2>2. n # 0 /\ n \in Nat /\ n - 1 \in Nat /\ Good(n - 1)
    BY <1>2, <2>1
  <2>3. Good((n - 1) + 1)
    BY <1>3, <2>2
  <2> QED
    BY <2>1, <2>2, <2>3
<1>5. Good(len)
  <2> HIDE DEF Good
  <2> QED
    BY <1>1, <1>4
<1>6. PICK new : /\ new = [i \in 0 .. len |-> new[i]]
                 /\ \A i \in 0 .. len : i <= len => new[i] = Remove_step(tags, tag, new, i)
  BY <1>5
<1>7. new = [i \in 0 .. len |-> Remove_step(tags, tag, new, i)]
  BY <1>1, <1>6
<1> QED
  BY <1>7 DEF len

LEMMA AppendSet ==
    ASSUME NEW s \in Seq(Tags), NEW x \in Tags
    PROVE  Append(s, x) \in Seq(Tags) /\ ToSet(Append(s, x)) = ToSet(s) \union {x}
<1> DEFINE t == Append(s, x)
<1>1. /\ t \in Seq(Tags) /\ Len(s) \in Nat /\ DOMAIN s = 1 .. Len(s)
      /\ DOMAIN t = 1 .. Len(s) + 1 /\ t[Len(s) + 1] = x
      /\ \A i \in 1 .. Len(s) : t[i] = s[i]
  BY AppendProperties
<1> HIDE DEF t
<1>2. \A y \in ToSet(t) : y \in ToSet(s) \union {x}
  BY <1>1 DEF ToSet
<1>3. \A y \in ToSet(s) \union {x} : y \in ToSet(t)
  BY <1>1 DEF ToSet
<1> QED
  BY <1>1, <1>2, <1>3 DEF t

(* The tag is gone, wherever it was, and the other tags are there still.   *)
LEMMA Remove_tagIs ==
    ASSUME NEW tags \in Seq(Tags), NEW tag
    PROVE  /\ Remove_tag(tags, tag) \in Seq(Tags)
           /\ ToSet(Remove_tag(tags, tag)) = ToSet(tags) \ {tag}
<1> DEFINE len == Len(tags)
           new == Removals(tags, tag)
           First(n) == {tags[j] : j \in 1 .. n}
           Well(n) == new[n] \in Seq(Tags) /\ ToSet(new[n]) = First(n) \ {tag}
           bad == {n \in Nat : n <= len /\ ~ Well(n)}
<1>1. new = [i \in 0 .. len |-> Remove_step(tags, tag, new, i)]
  BY RemovalsExist DEF Removals
<1>2. Remove_tag(tags, tag) = new[len]
  BY DEF Remove_tag, Removals, Remove_step
<1>3. len \in Nat /\ DOMAIN tags = 1 .. len /\ \A i \in 1 .. len : tags[i] \in Tags
  BY ElementOfSeq
<1> HIDE DEF len, new
<1>4. ASSUME NEW n \in bad PROVE n # 0 /\ n - 1 \in bad
  <2> n \in 0 .. len
    BY <1>3
  <2>1. new[n] = Remove_step(tags, tag, new, n)
    BY <1>1
  <2>2. n # 0
    <3>1. CASE n = 0
      <4>1. First(0) = {} /\ ToSet(<<>>) = {} /\ new[0] = <<>>
        BY <1>3, <2>1, <3>1 DEF Remove_step, ToSet
      <4> QED
        BY <3>1, <4>1, EmptySeq
    <3> QED
      BY <3>1
  <2>3. n - 1 \in Nat /\ n \in 1 .. len /\ tags[n] \in Tags
    BY <1>3, <2>2
  <2>4. First(n) = First(n - 1) \union {tags[n]}
    <3>1. \A j \in 1 .. n : j \in 1 .. n - 1 \/ j = n
      BY <2>3
    <3>2. n \in 1 .. n /\ \A j \in 1 .. n - 1 : j \in 1 .. n
      BY <2>3
    <3> QED
      BY <3>1, <3>2
  <2>5. CASE Well(n - 1)
    <3> DEFINE before == new[n - 1]
    <3>1. before \in Seq(Tags) /\ ToSet(before) = First(n - 1) \ {tag}
      BY <2>5
    <3>2. new[n] = IF tags[n] = tag THEN before ELSE Append(before, tags[n])
      BY <2>1, <2>2 DEF Remove_step
    <3> HIDE DEF before, First
    <3>3. /\ Append(before, tags[n]) \in Seq(Tags)
          /\ ToSet(Append(before, tags[n])) = ToSet(before) \union {tags[n]}
      BY <2>3, <3>1, AppendSet
    <3> QED
      BY <2>4, <3>1, <3>2, <3>3
  <2> QED
    BY <1>3, <2>2, <2>3, <2>5
<1>5. bad = {}
  <2> SUFFICES ASSUME bad # {} PROVE FALSE
    OBVIOUS
  <2>1. bad \in SUBSET Nat
    OBVIOUS
  <2> HIDE DEF bad
  <2> QED
    BY <1>4, <2>1, FirstOne
<1>6. Well(len)
  BY <1>3, <1>5
<1>7. ToSet(tags) = First(len)
  BY <1>3 DEF ToSet
<1> QED
  BY <1>2, <1>6, <1>7

-----------------------------------------------------------------------------
(* The rows that db_process writes.                                        *)
RowOK(row) == row \in Rows /\ row.karma \in 0 .. 100

LEMMA NewRowOK ==
    ASSUME NEW count \in Int
    PROVE  RowOK(NewRow(count)) /\ NewRow(count).count = count
<1>1. <<>> \in Seq(Tags)
  BY EmptySeq
<1> QED
  BY <1>1 DEF RowOK, Rows, NewRow

LEMMA HeardOK ==
    ASSUME NEW row, RowOK(row), NEW p \in Int
    PROVE  /\ RowOK(Heard(row, p)) /\ Heard(row, p).count = row.count
           /\ Heard(row, p).tags = row.tags
<1>1. CASE IsPercentage(p)
  <2> DEFINE karma == Karma(row.karma, p)
             k == [row EXCEPT !.karma = karma]
             r == [k EXCEPT !.last_played = 1]
  <2>1. karma \in 0 .. 100
    BY <1>1 DEF RowOK, IsPercentage, Karma
  <2>2. Heard(row, p) = r
    BY <1>1 DEF Heard
  <2>3. karma \in Int
    BY <2>1
  <2> HIDE DEF karma
  <2>4. k \in Rows /\ k.karma = karma /\ k.count = row.count /\ k.tags = row.tags
    BY <2>3 DEF RowOK, Rows
  <2> HIDE DEF k
  <2>5. r \in Rows /\ r.karma = karma /\ r.count = row.count /\ r.tags = row.tags
    BY <2>4 DEF Rows
  <2> QED
    BY <2>1, <2>2, <2>5 DEF RowOK, k
<1>2. CASE ~ IsPercentage(p)
  BY <1>2 DEF Heard
<1> QED
  BY <1>1, <1>2

LEMMA InsertedOK ==
    ASSUME NEW kind \in Kinds, NEW s \in Songs, NEW increment \in Int, NEW p \in Int
    PROVE  /\ RowOK(Insert_song(increment, p)) /\ Insert_song(increment, p).count = increment
           /\ RowOK(Insert_entry(kind, s, increment))
           /\ Insert_entry(kind, s, increment).count = increment
           /\ kind = "album" => Insert_entry(kind, s, increment).artist = ArtistTagOf[s]
<1>1. RowOK(NewRow(increment)) /\ NewRow(increment).count = increment
  BY NewRowOK
<1>2. RowOK(Insert_song(increment, p)) /\ Insert_song(increment, p).count = increment
  BY <1>1, HeardOK DEF Insert_song
<1>3. (IF kind = "album" THEN ArtistTagOf[s] ELSE None) \in {ArtistTagOf[t] : t \in Songs} \union {None}
  OBVIOUS
<1> QED
  BY <1>1, <1>2, <1>3 DEF RowOK, Rows, Insert_entry

LEMMA UpdatedOK ==
    ASSUME NEW kind \in Kinds, NEW s \in Songs, NEW increment \in Int, NEW p \in Int,
           NEW row, RowOK(row)
    PROVE  /\ RowOK(Update_song(row, increment, p))
           /\ Update_song(row, increment, p).count = row.count + increment
           /\ Update_song(row, increment, p).tags = row.tags
           /\ RowOK(Update_entry(kind, row, s, increment))
           /\ Update_entry(kind, row, s, increment).count = row.count + increment
           /\ Update_entry(kind, row, s, increment).tags = row.tags
           /\ kind = "album" => Update_entry(kind, row, s, increment).artist = ArtistTagOf[s]
<1> DEFINE more == [row EXCEPT !.count = @ + increment]
<1>1. RowOK(more) /\ more.count = row.count + increment /\ more.tags = row.tags
  BY DEF RowOK, Rows
<1>2. /\ RowOK(Update_song(row, increment, p))
      /\ Update_song(row, increment, p).count = row.count + increment
      /\ Update_song(row, increment, p).tags = row.tags
  BY <1>1, HeardOK DEF Update_song
<1>3. (IF kind = "album" THEN ArtistTagOf[s] ELSE row.artist)
        \in {ArtistTagOf[t] : t \in Songs} \union {None}
  BY DEF RowOK, Rows
<1> QED
  BY <1>2, <1>3 DEF RowOK, Rows, Update_entry

(* What db_process leaves of a table: one row more, or one row changed.    *)
OneRowWritten(new, table, kind, n, s, increment) ==
    /\ DOMAIN new = DOMAIN table \union {n} /\ n \in Names(kind)
    /\ \A m \in DOMAIN new : m # n => new[m] = table[m]
    /\ RowOK(new[n])
    /\ new[n].count = increment + (IF n \in DOMAIN table THEN table[n].count ELSE 0)
    /\ n \in DOMAIN table => new[n].tags = table[n].tags
    /\ kind = "album" => new[n].artist = ArtistTagOf[s]

LEMMA WrittenIs ==
    ASSUME NEW tables, TablesOK(tables), NEW kind \in Kinds, NEW s \in Songs,
           NameOf(kind, s) # None, NEW increment \in Int, NEW p \in Int
    PROVE  OneRowWritten(Written(tables[kind], kind, s, increment, p), tables[kind],
                         kind, NameOf(kind, s), s, increment)
<1> DEFINE n == NameOf(kind, s)
           table == tables[kind]
           new == Written(table, kind, s, increment, p)
           Result == OneRowWritten(new, table, kind, n, s, increment)
<1>1. n \in Names(kind)
  BY DEF Names
<1>2. DOMAIN new = DOMAIN table \union {n} /\ \A m \in DOMAIN new : m # n => new[m] = table[m]
  BY DEF Written
<1> HIDE DEF n, table, new
<1>3. ASSUME n \in DOMAIN table PROVE Result
  <2> DEFINE row == table[n]
             song == Update_song(row, increment, p)
             entry == Update_entry(kind, row, s, increment)
  <2>1. RowOK(row)
    BY <1>3 DEF TablesOK, RowOK, table
  <2>2. new[n] = IF kind = "song" THEN song ELSE entry
    BY <1>3 DEF Written, n, new
  <2>3. row.count \in Int
    BY <2>1 DEF RowOK, Rows
  <2> HIDE DEF row
  <2>4. /\ RowOK(song) /\ song.count = row.count + increment
        /\ RowOK(entry) /\ entry.count = row.count + increment
        /\ song.tags = row.tags /\ entry.tags = row.tags
        /\ kind = "album" => entry.artist = ArtistTagOf[s]
    BY <2>1, <2>3, UpdatedOK
  <2> HIDE DEF song, entry
  <2>5. new[n].count = increment + row.count
    BY <2>2, <2>3, <2>4
  <2> QED
    BY <1>1, <1>2, <1>3, <2>2, <2>4, <2>5 DEF row, OneRowWritten
<1>4. ASSUME n \notin DOMAIN table PROVE Result
  <2>1. new[n] = IF kind = "song" THEN Insert_song(increment, p)
                                  ELSE Insert_entry(kind, s, increment)
    BY <1>4 DEF Written, n, new
  <2>2. /\ RowOK(new[n]) /\ new[n].count = increment
        /\ kind = "album" => new[n].artist = ArtistTagOf[s]
    BY <2>1, InsertedOK
  <2> QED
    BY <1>1, <1>2, <1>4, <2>2 DEF OneRowWritten
<1> QED
  BY <1>3, <1>4 DEF n, table, new

(* What the tables are made of, and what it leaves of them. *)
LEMMA TablesAre ==
    ASSUME NEW tables
    PROVE  /\ History \notin Kinds
           /\ TablesOK(tables) <=>
                /\ DOMAIN tables = Kinds \union {History}
                /\ DOMAIN tables[History] \subseteq Songs
                /\ \A s \in DOMAIN tables[History] : tables[History][s].count \in Int
                /\ \A k \in Kinds : \A m \in DOMAIN tables[k] :
                     m \in Names(k) /\ RowOK(tables[k][m])
BY DEF TablesOK, RowOK, History, Kinds

(* One song was counted, and the others were not. *)
CountedOnce(songs, new, one, i) ==
    /\ DOMAIN new = DOMAIN songs \union {one}
    /\ \A x \in DOMAIN new : x # one => new[x].count = songs[x].count
    /\ new[one].count = i + (IF one \in DOMAIN songs THEN songs[one].count ELSE 0)

LEMMA CountedIs ==
    ASSUME NEW heard, DOMAIN heard \subseteq Songs, \A x \in DOMAIN heard : heard[x].count \in Int,
           NEW s \in Songs, NEW increment \in Int
    PROVE  /\ CountedOnce(heard, Counted(heard, s, increment), s, increment)
           /\ DOMAIN Counted(heard, s, increment) \subseteq Songs
           /\ \A x \in DOMAIN Counted(heard, s, increment) :
                Counted(heard, s, increment)[x].count \in Int
BY DEF Counted, CountedOnce

TableProcessed(new, tables, kind, s, increment) ==
    /\ OneRowWritten(new[kind], tables[kind], kind, NameOf(kind, s), s, increment)
    /\ \A k \in Kinds : k # kind => new[k] = tables[k]
    /\ IF kind = "song" THEN new[History] = Counted(tables[History], s, increment)
       ELSE new[History] = tables[History]

LEMMA ProcessedOK ==
    ASSUME NEW tables, TablesOK(tables), NEW kind \in Kinds, NEW s \in Songs,
           NameOf(kind, s) # None, NEW increment \in Int, NEW p \in Int
    PROVE  /\ TablesOK(Processed(tables, kind, s, increment, p))
           /\ TableProcessed(Processed(tables, kind, s, increment, p), tables, kind, s, increment)
<1> DEFINE n == NameOf(kind, s)
           one == Written(tables[kind], kind, s, increment, p)
           heard == Counted(tables[History], s, increment)
           u == Processed(tables, kind, s, increment, p)
<1>1. /\ DOMAIN tables = Kinds \union {History} /\ History \notin Kinds
      /\ DOMAIN tables[History] \subseteq Songs
      /\ \A x \in DOMAIN tables[History] : tables[History][x].count \in Int
      /\ \A k \in Kinds : \A m \in DOMAIN tables[k] : m \in Names(k) /\ RowOK(tables[k][m])
  BY TablesAre
<1>2. OneRowWritten(one, tables[kind], kind, n, s, increment)
  BY WrittenIs
<1>3. DOMAIN heard \subseteq Songs /\ \A x \in DOMAIN heard : heard[x].count \in Int
  BY <1>1, CountedIs
<1>4. /\ DOMAIN u = Kinds \union {History} /\ u[kind] = one
      /\ \A k \in Kinds : k # kind => u[k] = tables[k]
      /\ u[History] = IF kind = "song" THEN heard ELSE tables[History]
  BY <1>1 DEF Processed
<1> HIDE DEF one, n, heard, u
<1>5. \A k \in Kinds : \A m \in DOMAIN u[k] : m \in Names(k) /\ RowOK(u[k][m])
  BY <1>1, <1>2, <1>4 DEF OneRowWritten
<1>6. TablesOK(u)
  BY <1>1, <1>3, <1>4, <1>5, TablesAre
<1>7. TableProcessed(u, tables, kind, s, increment)
  BY <1>2, <1>4 DEF TableProcessed, n, heard, one
<1> QED
  BY <1>6, <1>7 DEF u

-----------------------------------------------------------------------------
(* The rows that commands change.                                          *)
LEMMA PrefixSelf == ASSUME NEW s \in Seq(Tags) PROVE IsPrefix(s, s)
BY DEF IsPrefix

LEMMA PrefixAppend == ASSUME NEW s \in Seq(Tags), NEW x \in Tags PROVE IsPrefix(s, Append(s, x))
<1> DEFINE t == Append(s, x)
<1>1. Len(s) \in Nat /\ t \in Seq(Tags) /\ Len(t) = Len(s) + 1
  BY AppendProperties
<1>2. \A i \in 1 .. Len(s) : t[i] = s[i]
  OBVIOUS
<1> HIDE DEF t
<1>3. SubSeq(s, 1, Len(s)) = SubSeq(t, 1, Len(s))
  BY <1>1, <1>2
<1>4. IsPrefix(s, t)
  BY <1>1, <1>3 DEF IsPrefix
<1> QED
  BY <1>4 DEF t

LEMMA PrefixSet ==
    ASSUME NEW s \in Seq(Tags), NEW t \in Seq(Tags), IsPrefix(s, t)
    PROVE  ToSet(s) \subseteq ToSet(t)
<1>1. Len(s) \in Nat /\ Len(t) \in Nat /\ DOMAIN s = 1 .. Len(s) /\ DOMAIN t = 1 .. Len(t)
  OBVIOUS
<1>2. Len(s) <= Len(t) /\ SubSeq(s, 1, Len(s)) = SubSeq(t, 1, Len(s))
  BY DEF IsPrefix
<1>3. ASSUME NEW i \in 1 .. Len(s) PROVE s[i] = t[i] /\ i \in 1 .. Len(t)
  <2>1. SubSeq(s, 1, Len(s))[i] = s[i] /\ SubSeq(t, 1, Len(s))[i] = t[i]
    BY <1>1, <1>2
  <2> QED
    BY <1>1, <1>2, <2>1
<1> QED
  BY <1>1, <1>3 DEF ToSet

(* What every command leaves of a row: only count changes play counts, and *)
(* tags are added at the end. *)
RowChange(old, new, op) ==
    /\ RowOK(new) /\ new.artist = old.artist /\ IsPrefix(old.tags, new.tags)
    /\ op # "count" => new.count = old.count

(* The row that the handler of a command but rmtag writes. *)
Set(row, c) ==
    CASE c.op \in {"kill", "unkill"} -> Kill(row, c.op = "kill")
      [] c.op \in {"love", "hate"}   -> Love(row, c.op = "love")
      [] c.op = "rate"               -> Rate(row, c.arg)
      [] c.op = "rate_absolute"      -> Rate_absolute(row, c.arg)
      [] c.op = "count"              -> Count(row, c.arg)
      [] c.op = "karma"              -> Set_karma(row, c.arg)
      [] c.op = "addtag"             -> Add_tag(row, c.arg)

Changes(c) == CommandOK(c) /\ ~ IsLook(c) /\ c.op # "rmtag"

(* The last arguments with which a handler changes rows. *)
Valid(c) ==
    /\ c.op \in {"count", "rate", "rate_absolute"} => c.arg \in Int
    /\ c.op = "karma" => c.arg \in 1 .. 99
    /\ c.op = "addtag" => c.arg \in Tags

LEMMA SetOK ==
    ASSUME NEW row, RowOK(row), NEW c, Changes(c), Valid(c)
    PROVE  RowChange(row, Set(row, c), c.op)
<1>1. /\ row \in Rows /\ row.tags \in Seq(Tags) /\ row.karma \in 0 .. 100
      /\ IsPrefix(row.tags, row.tags)
  BY PrefixSelf DEF RowOK, Rows
<1>2. CASE c.op \in {"kill", "unkill"}
  <2>1. Set(row, c) = Kill(row, c.op = "kill")
    BY <1>2 DEF Set
  <2> QED
    BY <1>1, <2>1 DEF Kill, RowChange, RowOK, Rows
<1>3. CASE c.op \in {"love", "hate"}
  <2>1. Set(row, c) = Love(row, c.op = "love")
    BY <1>3 DEF Set
  <2> QED
    BY <1>1, <2>1 DEF Love, RowChange, RowOK, Rows
<1>4. CASE c.op = "rate"
  <2>1. Set(row, c) = Rate(row, c.arg) /\ c.arg \in Int
    BY <1>4 DEF Set, Valid
  <2> QED
    BY <1>1, <2>1 DEF Rate, RowChange, RowOK, Rows
<1>5. CASE c.op = "rate_absolute"
  <2>1. Set(row, c) = Rate_absolute(row, c.arg) /\ c.arg \in Int
    BY <1>5 DEF Set, Valid
  <2> QED
    BY <1>1, <2>1 DEF Rate_absolute, RowChange, RowOK, Rows
<1>6. CASE c.op = "count"
  <2>1. Set(row, c) = Count(row, c.arg) /\ c.arg \in Int
    BY <1>6 DEF Set, Valid
  <2> QED
    BY <1>1, <1>6, <2>1 DEF Count, RowChange, RowOK, Rows
<1>7. CASE c.op = "karma"
  <2>1. Set(row, c) = Set_karma(row, c.arg) /\ c.arg \in 0 .. 100
    BY <1>7 DEF Set, Valid
  <2> DEFINE n == c.arg
             r == [row EXCEPT !.karma = n]
  <2>2. n \in Int /\ n \in 0 .. 100 /\ Set(row, c) = r
    BY <2>1 DEF Set_karma
  <2> HIDE DEF n
  <2>3. r \in Rows /\ r.karma = n /\ r.tags = row.tags /\ r.artist = row.artist
          /\ r.count = row.count
    BY <1>1, <2>2 DEF Rows
  <2> HIDE DEF r
  <2> QED
    BY <1>1, <2>2, <2>3 DEF RowChange, RowOK
<1>8. CASE c.op = "addtag"
  <2>1. Set(row, c) = Add_tag(row, c.arg) /\ c.arg \in Tags
    BY <1>8 DEF Set, Valid
  <2>2. IsPrefix(row.tags, Append(row.tags, c.arg)) /\ Append(row.tags, c.arg) \in Seq(Tags)
    BY <1>1, <2>1, PrefixAppend, AppendProperties
  <2> QED
    BY <1>1, <2>1, <2>2 DEF Add_tag, RowChange, RowOK, Rows
<1> QED
  BY <1>2, <1>3, <1>4, <1>5, <1>6, <1>7, <1>8 DEF Changes, CommandOK, Ops, IsLook

LEMMA ChangingIs ==
    ASSUME NEW tables, NEW c, Changes(c), Changing(tables, c).answer # ACK
    PROVE  /\ Valid(c) /\ c.where # None
           /\ Changing(tables, c).tables =
                [tables EXCEPT ![c.kind] =
                   [n \in DOMAIN tables[c.kind] |->
                      IF n \in Selected(tables[c.kind], c.where)
                      THEN Set(tables[c.kind][n], c) ELSE tables[c.kind][n]]]
<1>1. Failed(tables).answer = ACK
  BY DEF Failed
<1>2. c.where # None
  BY <1>1 DEF Changing
<1>3. CASE c.op \in {"kill", "unkill"}
  BY <1>2, <1>3 DEF Changing, Handle_kill, Changed, Sql_update_entry, Set, Valid
<1>4. CASE c.op \in {"love", "hate"}
  BY <1>2, <1>4 DEF Changing, Handle_love, Changed, Sql_update_entry, Set, Valid
<1>5. CASE c.op = "rate"
  <2>1. Changing(tables, c) = Handle_rate(tables, c)
    BY <1>2, <1>5 DEF Changing
  <2>2. c.arg \in Int
    BY <1>1, <1>5, <2>1 DEF Handle_rate, Changes, CommandOK, Args
  <2> QED
    BY <1>1, <1>2, <1>5, <2>1, <2>2 DEF Handle_rate, Changed, Sql_update_entry, Set, Valid
<1>6. CASE c.op = "rate_absolute"
  <2>1. Changing(tables, c) = Handle_rate_absolute(tables, c)
    BY <1>2, <1>6 DEF Changing
  <2>2. c.arg \in Int
    BY <1>1, <1>6, <2>1 DEF Handle_rate_absolute, Changes, CommandOK, Args
  <2> QED
    BY <1>1, <1>2, <1>6, <2>1, <2>2 DEF Handle_rate_absolute, Changed, Sql_update_entry, Set, Valid
<1>7. CASE c.op = "count"
  <2>1. Changing(tables, c) = Handle_count(tables, c)
    BY <1>2, <1>7 DEF Changing
  <2>2. c.arg \in Int
    BY <1>1, <1>7, <2>1 DEF Handle_count, Changes, CommandOK, Args
  <2> QED
    BY <1>1, <1>2, <1>7, <2>1, <2>2 DEF Handle_count, Changed, Sql_update_entry, Set, Valid
<1>8. CASE c.op = "karma"
  <2>1. Changing(tables, c) = Handle_karma(tables, c)
    BY <1>2, <1>8 DEF Changing
  <2>2. c.arg \in 1 .. 99
    BY <1>1, <1>8, <2>1 DEF Handle_karma
  <2> QED
    BY <1>1, <1>2, <1>8, <2>1, <2>2 DEF Handle_karma, Changed, Sql_update_entry, Set, Valid
<1>9. CASE c.op = "addtag"
  <2>1. Changing(tables, c) = Handle_addtag(tables, c)
    BY <1>2, <1>9 DEF Changing
  <2>2. c.arg \in Tags
    BY <1>1, <1>9, <2>1 DEF Handle_addtag, Changes, CommandOK, Args
  <2> QED
    BY <1>1, <1>2, <1>9, <2>1, <2>2 DEF Handle_addtag, Changed, Sql_update_entry, Set, Valid
<1> QED
  BY <1>3, <1>4, <1>5, <1>6, <1>7, <1>8, <1>9 DEF Changes, CommandOK, Ops, IsLook

(* What every command but rmtag leaves of the tables. *)
TablesChange(tables, new, op) ==
    /\ TablesOK(new) /\ new[History] = tables[History]
    /\ \A kind \in Kinds :
         /\ DOMAIN new[kind] = DOMAIN tables[kind]
         /\ \A n \in DOMAIN tables[kind] : RowChange(tables[kind][n], new[kind][n], op)

LEMMA ChangingOK ==
    ASSUME NEW tables, TablesOK(tables), NEW c, Changes(c), Changing(tables, c).answer # ACK
    PROVE  TablesChange(tables, Changing(tables, c).tables, c.op)
<1> DEFINE new == Changing(tables, c).tables
           k == c.kind
           t == [n \in DOMAIN tables[k] |->
                   IF n \in Selected(tables[k], c.where) THEN Set(tables[k][n], c) ELSE tables[k][n]]
<1>1. Valid(c) /\ new = [tables EXCEPT ![k] = t]
  BY ChangingIs
<1>2. /\ k \in Kinds /\ DOMAIN tables = Kinds \union {History} /\ History \notin Kinds
      /\ DOMAIN tables[History] \subseteq Songs
      /\ \A s \in DOMAIN tables[History] : tables[History][s].count \in Int
  BY TablesAre DEF Changes, CommandOK
<1>3. \A kind \in Kinds : \A n \in DOMAIN tables[kind] :
        /\ n \in Names(kind) /\ RowOK(tables[kind][n])
        /\ RowChange(tables[kind][n], tables[kind][n], c.op)
  BY PrefixSelf DEF TablesOK, RowOK, RowChange, Rows
<1>4. DOMAIN t = DOMAIN tables[k] /\ \A n \in DOMAIN t : RowChange(tables[k][n], t[n], c.op)
  BY <1>1, <1>2, <1>3, SetOK
<1> HIDE DEF t, new, k
<1>5. \A kind \in Kinds :
        /\ DOMAIN new[kind] = DOMAIN tables[kind]
        /\ \A n \in DOMAIN tables[kind] : RowChange(tables[kind][n], new[kind][n], c.op)
  BY <1>1, <1>2, <1>3, <1>4
<1>6. DOMAIN new = Kinds \union {History} /\ new[History] = tables[History]
  BY <1>1, <1>2
<1>7. TablesOK(new)
  BY <1>2, <1>3, <1>5, <1>6, TablesAre DEF RowChange
<1> QED
  BY <1>5, <1>6, <1>7 DEF TablesChange, new

-----------------------------------------------------------------------------
(***************************************************************************)
(* Play counts.  A debt is a song whose own row is written, with the kinds *)
(* of which its rows are still to be: the tables are balanced when what is *)
(* missing is accounted for by debts.  own is the debt of mpdcron, the     *)
(* only process that counts, if it has one, and increment what it counts.  *)
(***************************************************************************)
LEMMA TotalWritten ==
    ASSUME NEW songs, NEW new, NEW one, NEW i \in Int, CountedOnce(songs, new, one, i),
           IsFiniteSet(DOMAIN songs), \A x \in DOMAIN songs : songs[x].count \in Int, NEW A
    PROVE  /\ Total(new, A \intersect DOMAIN new) =
                Total(songs, A \intersect DOMAIN songs) + (IF one \in A THEN i ELSE 0)
           /\ Total(songs, A \intersect DOMAIN songs) \in Int
<1> USE DEF CountedOnce
<1> DEFINE old == A \intersect DOMAIN songs
           all == A \intersect DOMAIN new
           less == old \ {one}
<1>1. /\ IsFiniteSet(old) /\ IsFiniteSet(less) /\ IsFiniteSet(all)
  <2>1. IsFiniteSet(DOMAIN new)
    BY FS_AddElement
  <2> QED
    BY <2>1, FS_Subset
<1>2. Total(songs, old) \in Int /\ Total(songs, less) \in Int
  BY <1>1, TotalIsInt
<1>3. \A x \in all : new[x].count \in Int
  OBVIOUS
<1>4. Total(new, less) = Total(songs, less)
  BY <1>1, TotalSame
<1>5. CASE one \notin A
  <2>1. all = less /\ old = less
    BY <1>5
  <2> HIDE DEF all, old, less
  <2>2. Total(new, all) = Total(songs, old) + 0 /\ Total(songs, old) \in Int
    BY <1>2, <1>4, <2>1
  <2> QED
    BY <1>5, <2>2 DEF all, old
<1>6. CASE one \in A
  <2>1. all \ {one} = less /\ one \in all
    BY <1>6
  <2>2. Total(new, all) = new[one].count + Total(new, less)
    BY <1>1, <1>3, <2>1, TotalLess
  <2>3. CASE one \in DOMAIN songs
    <3>1. one \in old /\ \A x \in old : songs[x].count \in Int
      BY <1>6, <2>3
    <3>2. Total(songs, old) = songs[one].count + Total(songs, less)
      BY <1>1, <3>1, TotalLess
    <3>3. songs[one].count \in Int /\ new[one].count = i + songs[one].count
      BY <2>3
    <3> HIDE DEF all, old, less
    <3> QED
      BY <1>2, <1>4, <1>6, <2>2, <3>2, <3>3 DEF all, old
  <2>4. CASE one \notin DOMAIN songs
    <3>1. less = old /\ new[one].count = i
      BY <2>4
    <3> HIDE DEF all, old, less
    <3> QED
      BY <1>2, <1>4, <1>6, <2>2, <3>1 DEF all, old
  <2> QED
    BY <2>3, <2>4
<1> QED
  BY <1>5, <1>6

(* The kinds of the rows of a song that come from one on. *)
Later == [song |-> Kinds, artist |-> Kinds \ {"song"}, album |-> {"album", "genre"},
          genre |-> {"genre"}]

Debt(s, at) == [song |-> s, kinds |-> {k \in Later[at] : NameOf(k, s) # None}]

Lacks(debts, k, n) == \E d \in debts : k \in d.kinds /\ NameOf(k, d.song) = n

Uncounted(own, increment, k, n) == IF Lacks(own, k, n) THEN increment ELSE 0

CountIn(table, n) == IF n \in DOMAIN table THEN table[n].count ELSE 0

SongsOf(k, n) == {s \in Songs : NameOf(k, s) = n}

(* Each song has its rows, but those that are to come, and each row a song. *)
RowsAreThere(tables, debts) ==
    /\ \A d \in debts : d.song \in DOMAIN tables[History]
    /\ \A k \in Kinds :
         /\ \A s \in DOMAIN tables[History] :
              NameOf(k, s) # None =>
                NameOf(k, s) \in DOMAIN tables[k] \/ Lacks(debts, k, NameOf(k, s))
         /\ \A n \in DOMAIN tables[k] : \E s \in DOMAIN tables[History] : NameOf(k, s) = n

(* What the songs have been counted has been counted in the rows, but what *)
(* is to come. *)
CountsAgree(tables, own, increment) ==
    \A k \in Kinds : \A n \in Names(k) :
        CountIn(tables[k], n) + Uncounted(own, increment, k, n) =
          Total(tables[History], SongsOf(k, n) \intersect DOMAIN tables[History])

Balanced(tables, debts, own, increment, total) ==
    /\ RowsAreThere(tables, debts)
    /\ CountsAgree(tables, own, increment)
    /\ PlayCount(tables) = total

LEMMA NamesFinite == ASSUME NEW kind PROVE IsFiniteSet(Names(kind))
<1> DEFINE f == [s \in Songs |-> NameOf(kind, s)]
           T == {NameOf(kind, s) : s \in Songs}
<1>1. f \in Surjection(Songs, T)
  BY DEF Surjection
<1> HIDE DEF f, T
<1>2. IsFiniteSet(T)
  BY <1>1, SongsAssumption, FS_Surjection
<1>3. Names(kind) \subseteq T
  BY DEF Names, T
<1> QED
  BY <1>2, <1>3, FS_Subset

LEMMA TablesFinite ==
    ASSUME NEW tables, TablesOK(tables)
    PROVE  /\ DOMAIN tables[History] \subseteq Songs
           /\ IsFiniteSet(DOMAIN tables[History])
           /\ \A s \in DOMAIN tables[History] : tables[History][s].count \in Int
           /\ \A k \in Kinds : \A n \in DOMAIN tables[k] :
                n \in Names(k) /\ tables[k][n].count \in Int
           /\ "song" \in Kinds /\ IsFiniteSet(DOMAIN tables["song"])
<1>1. IsFiniteSet(DOMAIN tables[History])
  BY TablesAre, SongsAssumption, FS_Subset
<1>2. "song" \in Kinds
  BY DEF Kinds
<1>3. \A k \in Kinds : \A n \in DOMAIN tables[k] : n \in Names(k) /\ tables[k][n].count \in Int
  BY TablesAre DEF RowOK, Rows
<1>4. IsFiniteSet(DOMAIN tables["song"])
  <2>1. DOMAIN tables["song"] \subseteq Names("song")
    BY <1>2, <1>3
  <2> QED
    BY <2>1, NamesFinite, FS_Subset
<1> QED
  BY <1>1, <1>2, <1>3, <1>4, TablesAre

LEMMA SamePlayCount ==
    ASSUME NEW tables, TablesOK(tables), NEW new, DOMAIN new["song"] = DOMAIN tables["song"],
           \A n \in DOMAIN tables["song"] : new["song"][n].count = tables["song"][n].count
    PROVE  PlayCount(new) = PlayCount(tables)
BY TablesFinite, TotalSame DEF PlayCount

(* Nothing that commands do but count disturbs the balance.                *)
LEMMA BalancedSame ==
    ASSUME NEW tables, TablesOK(tables), NEW new, new[History] = tables[History],
           \A k \in Kinds : /\ DOMAIN new[k] = DOMAIN tables[k]
                            /\ \A n \in DOMAIN tables[k] : new[k][n].count = tables[k][n].count,
           NEW debts, NEW own, NEW increment, NEW total,
           Balanced(tables, debts, own, increment, total)
    PROVE  Balanced(new, debts, own, increment, total)
<1>1. RowsAreThere(new, debts)
  BY DEF Balanced, RowsAreThere
<1>2. CountsAgree(new, own, increment)
  <2>1. \A k \in Kinds : \A n : CountIn(new[k], n) = CountIn(tables[k], n)
    BY DEF CountIn
  <2> QED
    BY <2>1 DEF Balanced, CountsAgree
<1>3. PlayCount(new) = total
  BY TablesFinite, SamePlayCount DEF Balanced
<1> QED
  BY <1>1, <1>2, <1>3 DEF Balanced

(* A song has been counted: its rows are to come. *)
LEMMA SongCounted ==
    ASSUME NEW tables, TablesOK(tables), NEW new, NEW s \in Songs, NEW i \in Int,
           CountedOnce(tables[History], new[History], s, i),
           \A k \in Kinds : new[k] = tables[k],
           NEW debts, NEW own, NEW increment, NEW total,
           Balanced(tables, debts, own, increment, total),
           NEW mine, NEW counts,
           \/ i = 0 /\ mine = own /\ counts = increment
           \/ own = {} /\ mine = {Debt(s, "song")} /\ counts = i
    PROVE  Balanced(new, debts \union {Debt(s, "song")}, mine, counts, total)
<1> DEFINE songs == tables[History]
           after == new[History]
           debt == Debt(s, "song")
           owed == debts \union {debt}
<1>1. /\ IsFiniteSet(DOMAIN songs) /\ DOMAIN songs \subseteq Songs
      /\ \A x \in DOMAIN songs : songs[x].count \in Int
      /\ \A k \in Kinds : \A n \in DOMAIN tables[k] : tables[k][n].count \in Int
  BY TablesFinite
<1>2. CountedOnce(songs, after, s, i) /\ DOMAIN after = DOMAIN songs \union {s}
  BY DEF CountedOnce
<1>3. \A A : /\ Total(after, A \intersect DOMAIN after) =
                  Total(songs, A \intersect DOMAIN songs) + (IF s \in A THEN i ELSE 0)
             /\ Total(songs, A \intersect DOMAIN songs) \in Int
  <2> SUFFICES ASSUME NEW A
               PROVE  /\ Total(after, A \intersect DOMAIN after) =
                           Total(songs, A \intersect DOMAIN songs) + (IF s \in A THEN i ELSE 0)
                      /\ Total(songs, A \intersect DOMAIN songs) \in Int
    OBVIOUS
  <2> HIDE DEF songs, after
  <2> QED
    BY <1>1, <1>2, TotalWritten
<1>4. debt.song = s /\ \A k \in Kinds : k \in debt.kinds <=> NameOf(k, s) # None
  BY DEF Debt, Later
<1>5. RowsAreThere(new, owed)
  <2>1. RowsAreThere(tables, debts)
    BY DEF Balanced
  <2> HIDE DEF debt
  <2>2. \A d \in owed : d.song \in DOMAIN after
    BY <1>2, <1>4, <2>1 DEF RowsAreThere
  <2>3. ASSUME NEW k \in Kinds, NEW x \in DOMAIN after, NameOf(k, x) # None
        PROVE  NameOf(k, x) \in DOMAIN new[k] \/ Lacks(owed, k, NameOf(k, x))
    <3>1. CASE x = s
      BY <1>4, <2>3, <3>1 DEF Lacks
    <3>2. CASE x # s
      BY <1>2, <2>1, <2>3, <3>2 DEF RowsAreThere, Lacks
    <3> QED
      BY <3>1, <3>2
  <2>4. \A k \in Kinds : \A n \in DOMAIN new[k] : \E x \in DOMAIN after : NameOf(k, x) = n
    BY <1>2, <2>1 DEF RowsAreThere
  <2> QED
    BY <2>2, <2>3, <2>4 DEF RowsAreThere
<1>6. CountsAgree(new, mine, counts)
  <2> SUFFICES ASSUME NEW k \in Kinds, NEW n \in Names(k)
               PROVE  CountIn(new[k], n) + Uncounted(mine, counts, k, n) =
                        Total(after, SongsOf(k, n) \intersect DOMAIN after)
    BY DEF CountsAgree
  <2> DEFINE count == CountIn(tables[k], n)
             sum == Total(songs, SongsOf(k, n) \intersect DOMAIN songs)
             sum2 == Total(after, SongsOf(k, n) \intersect DOMAIN after)
  <2>1. count \in Int /\ CountIn(new[k], n) = count /\ n # None
    BY <1>1 DEF CountIn, Names
  <2>2. count + Uncounted(own, increment, k, n) = sum
    BY DEF Balanced, CountsAgree
  <2>3. sum2 = sum + (IF NameOf(k, s) = n THEN i ELSE 0) /\ sum \in Int
    BY <1>3 DEF SongsOf
  <2> HIDE DEF count, sum, sum2
  <2>4. CASE i = 0 /\ mine = own /\ counts = increment
    BY <2>1, <2>2, <2>3, <2>4 DEF sum2
  <2>5. CASE own = {} /\ mine = {debt} /\ counts = i
    <3>1. Uncounted(own, increment, k, n) = 0
      BY <2>5 DEF Uncounted, Lacks
    <3>2. Uncounted(mine, counts, k, n) = IF NameOf(k, s) = n THEN i ELSE 0
      BY <1>4, <2>1, <2>5 DEF Uncounted, Lacks
    <3> QED
      BY <2>1, <2>2, <2>3, <3>1, <3>2 DEF sum2
  <2> QED
    BY <2>4, <2>5
<1>7. PlayCount(new) = total
  BY TablesFinite DEF Balanced, PlayCount
<1> QED
  BY <1>5, <1>6, <1>7 DEF Balanced

(* What mpdcron owes afterwards, when a row of one kind was counted i: what*)
(* it did before, or less when the row was its own. *)
OwnChanges(own, increment, mine, counts, debt, kind, i) ==
    \/ i = 0 /\ mine = own /\ counts = increment
    \/ /\ own = {debt} /\ increment = i /\ (mine # {} => counts = i)
       /\ \A k \in Kinds : \A n :
            Lacks(mine, k, n) <=> k \in debt.kinds \ {kind} /\ NameOf(k, debt.song) = n

TotalThen(total, kind, i) == IF kind = "song" THEN total + i ELSE total

(* A row of a song is written, and so much of its debt is paid.            *)
LEMMA EntryWritten ==
    ASSUME NEW tables, TablesOK(tables), NEW new, NEW s \in Songs, NEW i \in Int,
           NEW kind \in Kinds, NameOf(kind, s) # None,
           OneRowWritten(new[kind], tables[kind], kind, NameOf(kind, s), s, i),
           \A k \in Kinds : k # kind => new[k] = tables[k],
           new[History] = tables[History],
           NEW debts, NEW own, NEW increment, NEW total,
           Balanced(tables, debts, own, increment, total), Debt(s, kind) \in debts,
           NEW after, NEW mine, NEW counts,
           \A d \in debts : d \in after \/ d = Debt(s, kind),
           \A d \in after : d \in debts \/ d.song = s,
           \A k \in Debt(s, kind).kinds \ {kind} : Lacks(after, k, NameOf(k, s)),
           OwnChanges(own, increment, mine, counts, Debt(s, kind), kind, i)
    PROVE  Balanced(new, after, mine, counts, TotalThen(total, kind, i))
<1> DEFINE songs == tables[History]
           name == NameOf(kind, s)
           debt == Debt(s, kind)
<1>1. /\ new[History] = songs
      /\ \A k \in Kinds : \A n \in DOMAIN tables[k] : tables[k][n].count \in Int
  BY TablesFinite
<1>2. /\ DOMAIN new[kind] = DOMAIN tables[kind] \union {name}
      /\ \A n \in DOMAIN new[kind] : n # name => new[kind][n] = tables[kind][n]
      /\ new[kind][name].count = i + (IF name \in DOMAIN tables[kind] THEN tables[kind][name].count ELSE 0)
  BY DEF OneRowWritten
<1>3. debt.song = s /\ kind \in debt.kinds /\ RowsAreThere(tables, debts)
  BY DEF Debt, Later, Kinds, Balanced
<1> HIDE DEF debt
<1>4. s \in DOMAIN songs
  BY <1>3 DEF RowsAreThere, debt
<1>5. RowsAreThere(new, after)
  <2>1. \A d \in after : d.song \in DOMAIN songs
    BY <1>3, <1>4 DEF RowsAreThere
  <2>2. ASSUME NEW k \in Kinds, NEW x \in DOMAIN songs, NameOf(k, x) # None
        PROVE  NameOf(k, x) \in DOMAIN new[k] \/ Lacks(after, k, NameOf(k, x))
    <3>1. CASE NameOf(k, x) \in DOMAIN tables[k]
      BY <1>1, <1>2, <3>1
    <3>2. CASE Lacks(debts, k, NameOf(k, x))
      <4>1. PICK d \in debts : k \in d.kinds /\ NameOf(k, d.song) = NameOf(k, x)
        BY <3>2 DEF Lacks
      <4>2. CASE d \in after
        BY <4>1, <4>2 DEF Lacks
      <4>3. CASE d = debt
        BY <1>2, <1>3, <4>1, <4>3 DEF debt
      <4> QED
        BY <4>2, <4>3 DEF debt
    <3> QED
      BY <1>3, <2>2, <3>1, <3>2 DEF RowsAreThere
  <2>3. ASSUME NEW k \in Kinds, NEW n \in DOMAIN new[k]
        PROVE  \E x \in DOMAIN songs : NameOf(k, x) = n
    <3>1. CASE n \in DOMAIN tables[k]
      BY <1>3, <3>1 DEF RowsAreThere
    <3>2. CASE n \notin DOMAIN tables[k]
      BY <1>1, <1>2, <1>4, <2>3, <3>2
    <3> QED
      BY <3>1, <3>2
  <2> QED
    BY <1>1, <2>1, <2>2, <2>3 DEF RowsAreThere
<1>6. CountsAgree(new, mine, counts)
  <2> SUFFICES ASSUME NEW k \in Kinds, NEW n \in Names(k)
               PROVE  CountIn(new[k], n) + Uncounted(mine, counts, k, n) =
                        CountIn(tables[k], n) + Uncounted(own, increment, k, n)
    BY <1>1 DEF CountsAgree, Balanced
  <2>1. CountIn(tables[k], n) \in Int
    BY <1>1 DEF CountIn
  <2>2. CountIn(new[k], n) = CountIn(tables[k], n) + (IF k = kind /\ n = name THEN i ELSE 0)
    <3>1. CASE k = kind /\ n = name
      BY <1>1, <1>2, <3>1 DEF CountIn
    <3>2. CASE ~ (k = kind /\ n = name)
      <4>1. CountIn(new[k], n) = CountIn(tables[k], n)
        BY <1>1, <1>2, <3>2 DEF CountIn
      <4> QED
        BY <2>1, <3>2, <4>1
    <3> QED
      BY <3>1, <3>2
  <2>3. CASE i = 0 /\ mine = own /\ counts = increment
    BY <2>1, <2>2, <2>3
  <2>4. CASE /\ own = {debt} /\ increment = i /\ (mine # {} => counts = i)
             /\ Lacks(mine, k, n) <=> k \in debt.kinds \ {kind} /\ NameOf(k, debt.song) = n
    <3>1. Lacks(own, k, n) <=> k \in debt.kinds /\ NameOf(k, s) = n
      BY <1>3, <2>4 DEF Lacks
    <3>2. Lacks(mine, k, n) => mine # {}
      BY DEF Lacks
    <3> QED
      BY <1>3, <2>1, <2>2, <2>4, <3>1, <3>2 DEF Uncounted
  <2> QED
    BY <2>3, <2>4 DEF debt, OwnChanges
<1>7. PlayCount(new) = TotalThen(total, kind, i)
  <2> DEFINE rows == tables["song"]
             written == new["song"]
  <2>1. PlayCount(tables) = total /\ IsFiniteSet(DOMAIN rows) /\ \A n \in DOMAIN rows : rows[n].count \in Int
    BY TablesFinite DEF Balanced
  <2>2. CASE kind = "song"
    <3>1. CountedOnce(rows, written, name, i)
      BY <2>2 DEF OneRowWritten, CountedOnce
    <3>2. DOMAIN written \intersect DOMAIN written = DOMAIN written /\ name \in DOMAIN written
      BY <3>1 DEF CountedOnce
    <3>3. DOMAIN written \intersect DOMAIN rows = DOMAIN rows
      BY <3>1 DEF CountedOnce
    <3> HIDE DEF rows, written, name
    <3>4. Total(written, DOMAIN written) = Total(rows, DOMAIN rows) + i
      BY <2>1, <3>1, <3>2, <3>3, TotalWritten
    <3> QED
      BY <2>1, <2>2, <3>4 DEF PlayCount, rows, written, TotalThen
  <2>3. CASE kind # "song"
    BY <2>1, <2>3, TablesFinite DEF PlayCount, TotalThen
  <2> QED
    BY <2>2, <2>3
<1> QED
  BY <1>5, <1>6, <1>7 DEF Balanced

(* The row of a song is written, as it is counted: the others are to come. *)
LEMMA SongWritten ==
    ASSUME NEW tables, TablesOK(tables), NEW new, NEW s \in Songs, NEW i \in Int,
           NameOf("song", s) # None, TableProcessed(new, tables, "song", s, i),
           NEW debts, NEW own, NEW increment, NEW total \in Int,
           Balanced(tables, debts, own, increment, total),
           NEW mine, NEW counts, NEW all,
           \/ i = 0 /\ mine = own /\ counts = increment /\ all = total
           \/ own = {} /\ mine = {Debt(s, "artist")} /\ counts = i /\ all = total + i
    PROVE  Balanced(new, debts \union {Debt(s, "artist")}, mine, counts, all)
<1> DEFINE mid == [k \in DOMAIN tables |-> IF k = History THEN new[History] ELSE tables[k]]
           owed == debts \union {Debt(s, "song")}
           mine1 == IF i = 0 /\ mine = own /\ counts = increment THEN own ELSE {Debt(s, "song")}
           after == debts \union {Debt(s, "artist")}
<1>1. /\ DOMAIN tables = Kinds \union {History} /\ History \notin Kinds /\ "song" \in Kinds
      /\ DOMAIN tables[History] \subseteq Songs
      /\ \A x \in DOMAIN tables[History] : tables[History][x].count \in Int
      /\ \A k \in Kinds : \A m \in DOMAIN tables[k] : m \in Names(k) /\ RowOK(tables[k][m])
  BY TablesAre DEF Kinds
<1>2. /\ OneRowWritten(new["song"], tables["song"], "song", NameOf("song", s), s, i)
      /\ \A k \in Kinds : k # "song" => new[k] = tables[k]
      /\ new[History] = Counted(tables[History], s, i)
  BY DEF TableProcessed
<1>3. /\ CountedOnce(tables[History], new[History], s, i)
      /\ DOMAIN new[History] \subseteq Songs
      /\ \A x \in DOMAIN new[History] : new[History][x].count \in Int
  BY <1>1, <1>2, CountedIs
<1>4. /\ DOMAIN mid = Kinds \union {History} /\ mid[History] = new[History]
      /\ \A k \in Kinds : mid[k] = tables[k]
  BY <1>1
<1> HIDE DEF mid
<1>5. TablesOK(mid)
  BY <1>1, <1>3, <1>4, TablesAre
<1>6. CountedOnce(tables[History], mid[History], s, i)
  BY <1>3, <1>4
<1>7. Balanced(mid, owed, mine1, counts, total)
  <2>1. CASE i = 0 /\ mine = own /\ counts = increment
    BY <1>4, <1>6, <2>1, SongCounted
  <2>2. CASE ~ (i = 0 /\ mine = own /\ counts = increment)
    BY <1>4, <1>6, <2>2, SongCounted
  <2> QED
    BY <2>1, <2>2
<1>8. /\ Debt(s, "song") \in owed
      /\ \A d \in owed : d \in after \/ d = Debt(s, "song")
      /\ \A d \in after : d \in owed \/ d.song = s
  BY DEF Debt
<1>9. \A k \in Debt(s, "song").kinds \ {"song"} : k \in Debt(s, "artist").kinds
  BY DEF Debt, Later, Kinds
<1>10. \A k \in Debt(s, "song").kinds \ {"song"} : Lacks(after, k, NameOf(k, s))
  <2>1. Debt(s, "artist") \in after /\ Debt(s, "artist").song = s
    BY DEF Debt
  <2> HIDE DEF after
  <2> QED
    BY <1>9, <2>1 DEF Lacks
<1>11. \A k \in Kinds : k # "song" => new[k] = mid[k]
  BY <1>2, <1>4
<1>12. OneRowWritten(new["song"], mid["song"], "song", NameOf("song", s), s, i) /\ new[History] = mid[History]
  BY <1>1, <1>2, <1>4
<1>13. all = TotalThen(total, "song", i)
  BY DEF TotalThen
<1>14. OwnChanges(mine1, counts, mine, counts, Debt(s, "song"), "song", i)
  <2>1. CASE i = 0 /\ mine = own /\ counts = increment
    BY <2>1 DEF OwnChanges
  <2>2. CASE ~ (i = 0 /\ mine = own /\ counts = increment)
    <3>1. mine = {Debt(s, "artist")} /\ counts = i
      BY <2>2
    <3>2. \A k \in Kinds : k \in Debt(s, "artist").kinds <=> k \in Debt(s, "song").kinds \ {"song"}
      BY DEF Debt, Later, Kinds
    <3>3. Debt(s, "artist").song = s /\ Debt(s, "song").song = s
      BY DEF Debt
    <3> QED
      BY <2>2, <3>1, <3>2, <3>3 DEF Lacks, OwnChanges
  <2> QED
    BY <2>1, <2>2
<1> HIDE DEF owed, mine1, after
<1>15. Balanced(new, after, mine, counts, all)
  <2> DEFINE kind == "song"
  <2>1. kind \in Kinds /\ OneRowWritten(new[kind], mid[kind], kind, NameOf(kind, s), s, i)
    BY <1>1, <1>12
  <2>2. /\ all = TotalThen(total, kind, i)
        /\ NameOf(kind, s) # None /\ Debt(s, kind) \in owed
        /\ \A d \in owed : d \in after \/ d = Debt(s, kind)
        /\ \A k \in Debt(s, kind).kinds \ {kind} : Lacks(after, k, NameOf(k, s))
        /\ \A k \in Kinds : k # kind => new[k] = mid[k]
    BY <1>8, <1>10, <1>11, <1>13
  <2>3. OwnChanges(mine1, counts, mine, counts, Debt(s, kind), kind, i)
    BY <1>14
  <2> HIDE DEF kind
  <2> QED
    BY <1>5, <1>7, <1>8, <1>12, <2>1, <2>2, <2>3, EntryWritten
<1> QED
  BY <1>15 DEF after

(* With no debts, the tables agree.                                        *)
LEMMA AgreeBalanced ==
    ASSUME NEW tables, TablesOK(tables), NEW increment, NEW total
    PROVE  Balanced(tables, {}, {}, increment, total) <=> Agree(tables) /\ PlayCount(tables) = total
<1> DEFINE songs == tables[History]
           Of(kind, n) == {s \in DOMAIN songs : NameOf(kind, s) = n}
<1>1. /\ DOMAIN songs \subseteq Songs
      /\ \A k \in Kinds : \A n \in DOMAIN tables[k] : n \in Names(k) /\ tables[k][n].count \in Int
  BY TablesFinite
<1>2. \A k, n : SongsOf(k, n) \intersect DOMAIN songs = Of(k, n)
  BY <1>1 DEF SongsOf
<1>3. \A k, n : Uncounted({}, increment, k, n) = 0 /\ ~ Lacks({}, k, n)
  BY DEF Uncounted, Lacks
<1>4. RowsAreThere(tables, {}) <=>
        \A k \in Kinds : DOMAIN tables[k] = {NameOf(k, s) : s \in DOMAIN songs} \ {None}
  BY <1>1, <1>3 DEF RowsAreThere, Names
<1>5. ASSUME RowsAreThere(tables, {})
      PROVE  CountsAgree(tables, {}, increment) <=>
               \A k \in Kinds : \A n \in DOMAIN tables[k] : tables[k][n].count = Total(songs, Of(k, n))
  <2>1. ASSUME NEW k \in Kinds, NEW n \in Names(k)
        PROVE  CountIn(tables[k], n) + 0 = Total(songs, Of(k, n)) <=>
                 (n \in DOMAIN tables[k] => tables[k][n].count = Total(songs, Of(k, n)))
    <3>1. CASE n \in DOMAIN tables[k]
      BY <1>1, <3>1 DEF CountIn
    <3>2. CASE n \notin DOMAIN tables[k]
      <4>1. Of(k, n) = {}
        BY <1>3, <1>5, <2>1, <3>2 DEF RowsAreThere, Names
      <4>2. Total(songs, Of(k, n)) = 0
        BY <4>1, TotalOfNone
      <4> QED
        BY <3>2, <4>2 DEF CountIn
    <3> QED
      BY <3>1, <3>2
  <2>2. CountsAgree(tables, {}, increment) <=>
          \A k \in Kinds : \A n \in Names(k) : CountIn(tables[k], n) + 0 = Total(songs, Of(k, n))
    BY <1>2, <1>3 DEF CountsAgree
  <2> HIDE DEF Of
  <2> QED
    BY <1>1, <2>1, <2>2
<1>6. Agree(tables) <=>
        /\ \A k \in Kinds : DOMAIN tables[k] = {NameOf(k, s) : s \in DOMAIN songs} \ {None}
        /\ \A k \in Kinds : \A n \in DOMAIN tables[k] : tables[k][n].count = Total(songs, Of(k, n))
  BY <1>1 DEF Agree
<1> QED
  BY <1>4, <1>5, <1>6 DEF Balanced

-----------------------------------------------------------------------------
(***************************************************************************)
(* How eugene reads what mpdcron answers.  To read the lines t takes it    *)
(* from before to after, whatever it has read to get to before.            *)
(***************************************************************************)
Values == Int \union Tags \union {None} \union {NameOf(k, s) : k \in Kinds, s \in Songs}
              \union {ArtistTagOf[s] : s \in Songs}
Keys == {"OK", "id", "file", "Artist", "Album", "Genre", "Play Count", "Love", "Kill", "Rating",
         "Karma", "Last Played", "Tag"}
Printed == [key : Keys, value : Values]

Read_step(answer, nameKey, keys, read, i) ==
    IF i = 0 THEN Unread ELSE Parse_line(read[i - 1], nameKey, keys, answer[i])

Readings(answer, nameKey, keys) ==
    CHOOSE read : read = [i \in 0 .. Len(answer) |-> Read_step(answer, nameKey, keys, read, i)]

Takes(nameKey, keys, t, before, after) ==
    \A s \in Seq(Printed) : Parsed(s, nameKey, keys) = before => Parsed(s \o t, nameKey, keys) = after

LEMMA ParsedIsReading ==
    ASSUME NEW answer, NEW nameKey, NEW keys
    PROVE  Parsed(answer, nameKey, keys) = Readings(answer, nameKey, keys)[Len(answer)]
BY DEF Parsed, Readings, Read_step

LEMMA ReadingsExist ==
    ASSUME NEW answer \in Seq(Printed), NEW nameKey, NEW keys
    PROVE  \E read : read = [i \in 0 .. Len(answer) |-> Read_step(answer, nameKey, keys, read, i)]
<1> DEFINE len == Len(answer)
           Step(read, i) == Read_step(answer, nameKey, keys, read, i)
           Good(n) ==
             \E read : /\ read = [i \in 0 .. len |-> read[i]]
                       /\ \A i \in 0 .. len : i <= n => read[i] = Step(read, i)
           bad == {n \in Nat : ~ Good(n)}
<1>1. len \in Nat
  OBVIOUS
<1> HIDE DEF len
<1>2. Good(0)
  <2> DEFINE read == [i \in 0 .. len |-> Unread]
  <2>1. \A i \in 0 .. len : i <= 0 => read[i] = Step(read, i)
    BY <1>1 DEF Read_step
  <2>2. read = [i \in 0 .. len |-> read[i]]
    OBVIOUS
  <2> QED
    BY <2>1, <2>2
<1>3. ASSUME NEW n \in Nat, Good(n) PROVE Good(n + 1)
  <2>1. PICK g : /\ g = [i \in 0 .. len |-> g[i]]
                 /\ \A i \in 0 .. len : i <= n => g[i] = Step(g, i)
    BY <1>3
  <2> DEFINE h == [i \in 0 .. len |-> IF i <= n THEN g[i] ELSE Step(g, i)]
  <2> HIDE DEF Step
  <2>2. /\ \A i \in 0 .. len : h[i] = Step(g, i)
        /\ \A i \in 0 .. len : i <= n => h[i] = g[i]
        /\ h = [i \in 0 .. len |-> h[i]]
    BY <2>1
  <2> HIDE DEF h
  <2>3. \A i \in 0 .. len : i <= n + 1 => Step(g, i) = Step(h, i)
    <3> SUFFICES ASSUME NEW i \in 0 .. len, i <= n + 1 PROVE Step(g, i) = Step(h, i)
      OBVIOUS
    <3>1. CASE i = 0
      BY <3>1 DEF Step, Read_step
    <3>2. CASE i # 0
      <4>1. i - 1 \in 0 .. len /\ i - 1 <= n
        BY <1>1, <3>2
      <4>2. h[i - 1] = g[i - 1]
        BY <2>2, <4>1
      <4> QED
        BY <3>2, <4>2 DEF Step, Read_step
    <3> QED
      BY <3>1, <3>2
  <2> QED
    BY <2>2, <2>3
<1>4. bad = {}
  <2> SUFFICES ASSUME bad # {} PROVE FALSE
    OBVIOUS
  <2> HIDE DEF Good
  <2>1. PICK n \in bad : n = 0 \/ n - 1 \in Nat \ bad
    BY FirstOne
  <2>2. n # 0 /\ n \in Nat /\ n - 1 \in Nat /\ Good(n - 1)
    BY <1>2, <2>1
  <2>3. Good((n - 1) + 1)
    BY <1>3, <2>2
  <2> QED
    BY <2>1, <2>2, <2>3
<1>5. Good(len)
  <2> HIDE DEF Good
  <2> QED
    BY <1>1, <1>4
<1> HIDE DEF Step
<1>6. PICK read : /\ read = [i \in 0 .. len |-> read[i]]
                  /\ \A i \in 0 .. len : i <= len => read[i] = Step(read, i)
  BY <1>5
<1>7. read = [i \in 0 .. len |-> Step(read, i)]
  BY <1>1, <1>6
<1> QED
  BY <1>7 DEF len, Step

LEMMA ReadingsStep ==
    ASSUME NEW answer \in Seq(Printed), NEW nameKey, NEW keys, NEW i \in 0 .. Len(answer)
    PROVE  Readings(answer, nameKey, keys)[i] =
             Read_step(answer, nameKey, keys, Readings(answer, nameKey, keys), i)
<1> DEFINE read == Readings(answer, nameKey, keys)
<1>1. read = [j \in 0 .. Len(answer) |-> Read_step(answer, nameKey, keys, read, j)]
  BY ReadingsExist DEF Readings
<1> HIDE DEF read
<1>2. read[i] = Read_step(answer, nameKey, keys, read, i)
  BY <1>1
<1> QED
  BY <1>2 DEF read

LEMMA NothingIsUnread ==
    ASSUME NEW nameKey, NEW keys
    PROVE  Parsed(<<>>, nameKey, keys) = Unread
<1> DEFINE none == <<>>
<1>1. none \in Seq(Printed) /\ Len(none) = 0
  BY EmptySeq
<1> HIDE DEF none
<1>2. 0 \in 0 .. Len(none)
  BY <1>1
<1>3. Readings(none, nameKey, keys)[0]
        = Read_step(none, nameKey, keys, Readings(none, nameKey, keys), 0)
  BY <1>1, <1>2, ReadingsStep
<1>4. Parsed(none, nameKey, keys) = Unread
  BY <1>1, <1>3, ParsedIsReading DEF Read_step
<1> QED
  BY <1>4 DEF none

(* The lines before the last are read as if it were not there.             *)
LEMMA ParsedAppend ==
    ASSUME NEW s \in Seq(Printed), NEW x \in Printed, NEW nameKey, NEW keys
    PROVE  Parsed(Append(s, x), nameKey, keys) =
             Parse_line(Parsed(s, nameKey, keys), nameKey, keys, x)
<1> DEFINE t == Append(s, x)
           old == Readings(s, nameKey, keys)
           new == Readings(t, nameKey, keys)
           len == Len(s)
           bad == {n \in Nat : n <= len /\ new[n] # old[n]}
<1>1. /\ t \in Seq(Printed) /\ Len(t) = len + 1 /\ t[len + 1] = x
      /\ \A i \in 1 .. len : t[i] = s[i]
  BY AppendProperties
<1>2. len \in Nat /\ Len(s) = len
  OBVIOUS
<1> HIDE DEF t, len
<1>3. \A i \in 0 .. len : old[i] = Read_step(s, nameKey, keys, old, i)
  BY <1>2, ReadingsStep
<1>4. \A i \in 0 .. len + 1 : new[i] = Read_step(t, nameKey, keys, new, i)
  BY <1>1, ReadingsStep
<1>5. /\ Parsed(s, nameKey, keys) = old[len] /\ Parsed(t, nameKey, keys) = new[len + 1]
  BY <1>1, <1>2, ParsedIsReading
<1> HIDE DEF old, new
<1>6. ASSUME NEW n \in bad PROVE n # 0 /\ n - 1 \in bad
  <2>1. n \in 0 .. len /\ n \in 0 .. len + 1 /\ n \in Nat
    BY <1>2
  <2>2. new[n] = Read_step(t, nameKey, keys, new, n) /\ old[n] = Read_step(s, nameKey, keys, old, n)
    BY <1>3, <1>4, <2>1
  <2>3. n # 0
    BY <2>2 DEF Read_step
  <2>4. n - 1 \in Nat /\ n - 1 <= len /\ t[n] = s[n]
    BY <1>1, <1>2, <2>1, <2>3
  <2>5. new[n - 1] # old[n - 1]
    BY <2>2, <2>3, <2>4 DEF Read_step
  <2> QED
    BY <2>3, <2>4, <2>5
<1>7. bad = {}
  <2> SUFFICES ASSUME bad # {} PROVE FALSE
    OBVIOUS
  <2>1. bad \in SUBSET Nat
    OBVIOUS
  <2> HIDE DEF bad
  <2> QED
    BY <1>6, <2>1, FirstOne
<1>8. new[len] = old[len]
  BY <1>2, <1>7
<1>9. new[len + 1] = Parse_line(new[len], nameKey, keys, x)
  <2>1. len + 1 \in 0 .. len + 1 /\ len + 1 # 0 /\ (len + 1) - 1 = len
    BY <1>2
  <2>2. new[len + 1] = Read_step(t, nameKey, keys, new, len + 1)
    BY <1>4, <2>1
  <2> QED
    BY <1>1, <2>1, <2>2 DEF Read_step
<1> QED
  BY <1>5, <1>8, <1>9 DEF t

LEMMA TakesOne ==
    ASSUME NEW nameKey, NEW keys, NEW before, NEW x \in Printed
    PROVE  Takes(nameKey, keys, <<x>>, before, Parse_line(before, nameKey, keys, x))
<1> SUFFICES ASSUME NEW s \in Seq(Printed), Parsed(s, nameKey, keys) = before
             PROVE  Parsed(s \o <<x>>, nameKey, keys) = Parse_line(before, nameKey, keys, x)
  BY DEF Takes
<1>1. s \o <<x>> = Append(s, x)
  OBVIOUS
<1>2. Parsed(Append(s, x), nameKey, keys) = Parse_line(Parsed(s, nameKey, keys), nameKey, keys, x)
  BY ParsedAppend
<1> QED
  BY <1>1, <1>2

LEMMA TakesBoth ==
    ASSUME NEW nameKey, NEW keys, NEW before, NEW between, NEW after,
           NEW t \in Seq(Printed), NEW u \in Seq(Printed),
           Takes(nameKey, keys, t, before, between), Takes(nameKey, keys, u, between, after)
    PROVE  Takes(nameKey, keys, t \o u, before, after) /\ t \o u \in Seq(Printed)
<1>1. t \o u \in Seq(Printed)
  BY ConcatProperties
<1>2. ASSUME NEW s \in Seq(Printed), Parsed(s, nameKey, keys) = before
      PROVE  Parsed(s \o (t \o u), nameKey, keys) = after
  <2>1. Parsed(s \o t, nameKey, keys) = between /\ s \o t \in Seq(Printed)
    BY <1>2, ConcatProperties DEF Takes
  <2>2. Parsed((s \o t) \o u, nameKey, keys) = after
    BY <2>1 DEF Takes
  <2>3. (s \o t) \o u = s \o (t \o u)
    BY ConcatAssociative
  <2> QED
    BY <2>2, <2>3
<1> QED
  BY <1>1, <1>2 DEF Takes

LEMMA TakesNone ==
    ASSUME NEW nameKey, NEW keys, NEW before
    PROVE  Takes(nameKey, keys, <<>>, before, before) /\ <<>> \in Seq(Printed)
<1>1. \A s \in Seq(Printed) : s \o <<>> = s
  BY ConcatEmptySeq
<1> QED
  BY <1>1, EmptySeq DEF Takes

(* A line fills in the entity that the line with its id began.             *)
Read_so_far(values) == [failed |-> 0, values |-> values]

KeysOf(kind) ==
    CASE kind = "album"  -> Counters \union {"Album", "Artist"}
      [] kind = "artist" -> Counters \union {"Artist"}
      [] kind = "genre"  -> Counters \union {"Genre"}
      [] kind = "song"   -> Counters \union {"file", "Karma", "Last Played"}

Reads(kind, t, before, after) ==
    /\ t \in Seq(Printed)
    /\ Takes(NameKey[kind], KeysOf(kind), t, Read_so_far(before), Read_so_far(after))

Filled_in(n, name, artist, count, love, kill, rating, karma, last_played, tags) ==
    [id |-> n, name |-> name, artist |-> artist, count |-> count, love |-> love, kill |-> kill,
     rating |-> rating, karma |-> karma, last_played |-> last_played, tags |-> tags]

LEMMA ParseIsParsed ==
    ASSUME NEW c, IsLook(c), c.kind \in Kinds, NEW answer
    PROVE  Parse(c, answer) = Parsed(answer, NameKey[c.kind], KeysOf(c.kind))
<1> DEFINE kind == c.kind
<1>1. CASE kind = "album"
  BY <1>1 DEF Parse, Parse_albums, NameKey, KeysOf
<1>2. CASE kind = "artist"
  BY <1>2 DEF Parse, Parse_artists, NameKey, KeysOf
<1>3. CASE kind = "genre"
  BY <1>3 DEF Parse, Parse_genres, NameKey, KeysOf
<1>4. CASE kind = "song"
  BY <1>4 DEF Parse, Parse_songs, NameKey, KeysOf
<1> QED
  BY <1>1, <1>2, <1>3, <1>4 DEF Kinds

LEMMA ReadsBoth ==
    ASSUME NEW kind, NEW before, NEW between, NEW after, NEW t, NEW u,
           Reads(kind, t, before, between), Reads(kind, u, between, after)
    PROVE  Reads(kind, t \o u, before, after)
BY TakesBoth DEF Reads

LEMMA ReadsNone == ASSUME NEW kind, NEW before PROVE Reads(kind, <<>>, before, before)
BY TakesNone DEF Reads

LEMMA ReadMore ==
    ASSUME NEW old, NEW new
    PROVE  /\ Read_so_far(old).failed = 0 /\ Read_so_far(old).values = old
           /\ [Read_so_far(old) EXCEPT !.values = new] = Read_so_far(new)
BY DEF Read_so_far

LEMMA ReadsId ==
    ASSUME NEW kind, NEW values, NEW n \in Values
    PROVE  Reads(kind, <<Pair("id", n)>>, values, Append(values, Entity(n)))
<1> DEFINE line == Pair("id", n)
           new == Append(values, Entity(n))
<1>1. line \in Printed /\ line.key = "id" /\ line.value = n
  BY DEF Pair, Printed, Keys
<1>2. /\ Read_so_far(values).failed = 0 /\ Read_so_far(values).values = values
      /\ [Read_so_far(values) EXCEPT !.values = new] = Read_so_far(new)
  BY ReadMore
<1> HIDE DEF line
<1>3. Parse_line(Read_so_far(values), NameKey[kind], KeysOf(kind), line)
        = Read_so_far(Append(values, Entity(n)))
  BY <1>1, <1>2 DEF Parse_line
<1>4. Takes(NameKey[kind], KeysOf(kind), <<line>>, Read_so_far(values),
            Read_so_far(Append(values, Entity(n))))
  BY <1>1, <1>3, TakesOne
<1>5. <<line>> \in Seq(Printed)
  BY <1>1
<1> QED
  BY <1>4, <1>5 DEF Reads, line

LEMMA LastAppended ==
    ASSUME NEW S, NEW values \in Seq(S), NEW e
    PROVE  /\ Append(values, e) # <<>>
           /\ Last(Append(values, e)) = e /\ Front(Append(values, e)) = values
<1> DEFINE T == S \union {e}
           new == Append(values, e)
           len == Len(values)
<1>1. values \in Seq(T) /\ e \in T
  BY SeqMonotonic
<1>2. /\ new \in Seq(T) /\ Len(new) = len + 1 /\ new[len + 1] = e /\ len \in Nat
      /\ \A i \in 1 .. len : new[i] = values[i]
  BY <1>1, AppendProperties
<1> HIDE DEF T, new
<1>3. Last(new) = e
  BY <1>2 DEF Last
<1>4. new # <<>>
  BY <1>2, EmptySeq
<1>5. Front(new) = values
  <2>1. Front(new) = SubSeq(new, 1, len)
    BY <1>2 DEF Front
  <2>2. \A i \in 1 .. len : new[i] \in T
    BY <1>2, ElementOfSeq
  <2>3. /\ Front(new) \in Seq(T) /\ Len(Front(new)) = len
        /\ \A i \in 1 .. len : Front(new)[i] = new[i]
    BY <1>2, <2>1, <2>2, SubSeqProperties
  <2> QED
    BY <1>1, <1>2, <2>3, SeqEqual
<1> QED
  BY <1>3, <1>4, <1>5 DEF new

LEMMA ReadsField ==
    ASSUME NEW kind, NEW S, NEW values \in Seq(S), NEW e, NEW line \in Printed,
           line.key \in KeysOf(kind), line.key \notin {"OK", "id"}
    PROVE  Reads(kind, <<line>>, Append(values, e), Append(values, Fill(e, NameKey[kind], line)))
<1> DEFINE old == Append(values, e)
           new == Append(values, Fill(e, NameKey[kind], line))
<1>1. old # <<>> /\ Append(Front(old), Fill(Last(old), NameKey[kind], line)) = new
  BY LastAppended
<1> HIDE DEF old, new
<1>2. /\ Read_so_far(old).failed = 0 /\ Read_so_far(old).values = old
      /\ [Read_so_far(old) EXCEPT !.values = new] = Read_so_far(new)
  BY ReadMore
<1>3. Parse_line(Read_so_far(old), NameKey[kind], KeysOf(kind), line) = Read_so_far(new)
  BY <1>1, <1>2 DEF Parse_line
<1>4. Takes(NameKey[kind], KeysOf(kind), <<line>>, Read_so_far(old), Read_so_far(new))
  BY <1>3, TakesOne
<1>5. <<line>> \in Seq(Printed)
  OBVIOUS
<1> QED
  BY <1>4, <1>5 DEF Reads, old, new

(* What each key is for.                                                   *)
Setting(e, field, v) == [e EXCEPT ![field] = v]

LEMMA FillName ==
    ASSUME NEW kind \in Kinds, NEW e, NEW v
    PROVE  /\ Fill(e, NameKey[kind], Pair(NameKey[kind], v)) = Setting(e, "name", v)
           /\ kind = "album" => Fill(e, NameKey[kind], Pair("Artist", v)) = Setting(e, "artist", v)
<1> DEFINE key == NameKey[kind]
<1>1. key \in {"file", "Artist", "Album", "Genre"} /\ (kind = "album" => key = "Album")
  BY DEF NameKey, Kinds
<1> HIDE DEF key
<1>2. Fill(e, key, Pair(key, v)) = Setting(e, "name", v)
  <2> DEFINE line == Pair(key, v)
  <2>1. line.key = key /\ line.value = v
    BY DEF Pair
  <2> HIDE DEF line
  <2>2. Fill(e, key, line) = Setting(e, "name", v)
    BY <2>1, <1>1 DEF Fill, Setting
  <2> QED
    BY <2>2 DEF line
<1>3. kind = "album" => Fill(e, key, Pair("Artist", v)) = Setting(e, "artist", v)
  <2> DEFINE line == Pair("Artist", v)
  <2>1. line.key = "Artist" /\ line.value = v
    BY DEF Pair
  <2> HIDE DEF line
  <2>2. kind = "album" => Fill(e, key, line) = Setting(e, "artist", v)
    BY <2>1, <1>1 DEF Fill, Setting
  <2> QED
    BY <2>2 DEF line
<1> QED
  BY <1>2, <1>3 DEF key

LEMMA FillCounter ==
    ASSUME NEW kind \in Kinds, NEW e, NEW v
    PROVE  /\ Fill(e, NameKey[kind], Pair("Play Count", v)) = Setting(e, "count", v)
           /\ Fill(e, NameKey[kind], Pair("Love", v)) = Setting(e, "love", v)
           /\ Fill(e, NameKey[kind], Pair("Kill", v)) = Setting(e, "kill", v)
           /\ Fill(e, NameKey[kind], Pair("Rating", v)) = Setting(e, "rating", v)
<1> DEFINE key == NameKey[kind]
<1>1. key \in {"file", "Artist", "Album", "Genre"} /\ (kind = "album" => key = "Album")
  BY DEF NameKey, Kinds
<1> HIDE DEF key
<1>2. Fill(e, key, Pair("Play Count", v)) = Setting(e, "count", v)
  <2> DEFINE line == Pair("Play Count", v)
  <2>1. line.key = "Play Count" /\ line.value = v
    BY DEF Pair
  <2> HIDE DEF line
  <2>2. Fill(e, key, line) = Setting(e, "count", v)
    BY <2>1, <1>1 DEF Fill, Setting
  <2> QED
    BY <2>2 DEF line
<1>3. Fill(e, key, Pair("Love", v)) = Setting(e, "love", v)
  <2> DEFINE line == Pair("Love", v)
  <2>1. line.key = "Love" /\ line.value = v
    BY DEF Pair
  <2> HIDE DEF line
  <2>2. Fill(e, key, line) = Setting(e, "love", v)
    BY <2>1, <1>1 DEF Fill, Setting
  <2> QED
    BY <2>2 DEF line
<1>4. Fill(e, key, Pair("Kill", v)) = Setting(e, "kill", v)
  <2> DEFINE line == Pair("Kill", v)
  <2>1. line.key = "Kill" /\ line.value = v
    BY DEF Pair
  <2> HIDE DEF line
  <2>2. Fill(e, key, line) = Setting(e, "kill", v)
    BY <2>1, <1>1 DEF Fill, Setting
  <2> QED
    BY <2>2 DEF line
<1>5. Fill(e, key, Pair("Rating", v)) = Setting(e, "rating", v)
  <2> DEFINE line == Pair("Rating", v)
  <2>1. line.key = "Rating" /\ line.value = v
    BY DEF Pair
  <2> HIDE DEF line
  <2>2. Fill(e, key, line) = Setting(e, "rating", v)
    BY <2>1, <1>1 DEF Fill, Setting
  <2> QED
    BY <2>2 DEF line
<1> QED
  BY <1>2, <1>3, <1>4, <1>5 DEF key

LEMMA FillPlayed ==
    ASSUME NEW kind \in Kinds, NEW e, NEW v
    PROVE  /\ Fill(e, NameKey[kind], Pair("Karma", v)) = Setting(e, "karma", v)
           /\ Fill(e, NameKey[kind], Pair("Last Played", v)) = Setting(e, "last_played", v)
<1> DEFINE key == NameKey[kind]
<1>1. key \in {"file", "Artist", "Album", "Genre"} /\ (kind = "album" => key = "Album")
  BY DEF NameKey, Kinds
<1> HIDE DEF key
<1>2. Fill(e, key, Pair("Karma", v)) = Setting(e, "karma", v)
  <2> DEFINE line == Pair("Karma", v)
  <2>1. line.key = "Karma" /\ line.value = v
    BY DEF Pair
  <2> HIDE DEF line
  <2>2. Fill(e, key, line) = Setting(e, "karma", v)
    BY <2>1, <1>1 DEF Fill, Setting
  <2> QED
    BY <2>2 DEF line
<1>3. Fill(e, key, Pair("Last Played", v)) = Setting(e, "last_played", v)
  <2> DEFINE line == Pair("Last Played", v)
  <2>1. line.key = "Last Played" /\ line.value = v
    BY DEF Pair
  <2> HIDE DEF line
  <2>2. Fill(e, key, line) = Setting(e, "last_played", v)
    BY <2>1, <1>1 DEF Fill, Setting
  <2> QED
    BY <2>2 DEF line
<1> QED
  BY <1>2, <1>3 DEF key

LEMMA FillTag ==
    ASSUME NEW kind \in Kinds, NEW e, NEW v
    PROVE  Fill(e, NameKey[kind], Pair("Tag", v)) = Setting(e, "tags", <<v>> \o e.tags)
<1> DEFINE line == Pair("Tag", v)
           key == NameKey[kind]
<1>1. line.key = "Tag" /\ line.value = v
  BY DEF Pair
<1>2. key # "Tag"
  BY DEF NameKey, Kinds
<1> HIDE DEF line, key
<1>3. Fill(e, key, line) = Setting(e, "tags", <<v>> \o e.tags)
  BY <1>1, <1>2 DEF Fill, Setting
<1> QED
  BY <1>3 DEF line, key

EntityFields == {"id", "name", "artist", "count", "love", "kill", "rating", "karma", "last_played",
                 "tags"}

LEMMA SameFields ==
    ASSUME NEW e, e = [f \in EntityFields |-> e[f]]
    PROVE  e = Filled_in(e.id, e.name, e.artist, e.count, e.love, e.kill, e.rating, e.karma,
                         e.last_played, e.tags)
BY DEF EntityFields, Filled_in

-----------------------------------------------------------------------------
(* What mpdcron prints of a row is read as one more entity: that row.      *)
LEMMA ReadsValue ==
    ASSUME NEW kind, NEW S, NEW values \in Seq(S), NEW e, NEW new, NEW key, NEW v \in Values,
           key \in KeysOf(kind) \intersect Keys, key \notin {"OK", "id"},
           Fill(e, NameKey[kind], Pair(key, v)) = new
    PROVE  Reads(kind, <<Pair(key, v)>>, Append(values, e), Append(values, new))
<1> DEFINE line == Pair(key, v)
<1>1. line \in Printed /\ line.key = key
  BY DEF Pair, Printed
<1> HIDE DEF line
<1>2. Reads(kind, <<line>>, Append(values, e), Append(values, Fill(e, NameKey[kind], line)))
  BY <1>1, ReadsField
<1> QED
  BY <1>2 DEF line

(* The name of a row, the artist if it is an album, and nothing else.      *)
Name_only(kind, n, row) ==
    Filled_in(n, n, IF kind = "album" THEN row.artist ELSE None, 0, 0, 0, 0, 0, 0, <<>>)

LEMMA Learnt_nameIs ==
    ASSUME NEW c, NEW n, NEW row
    PROVE  Learnt_name(c, n, row) = Name_only(c.kind, n, row)
<1> DEFINE artist == IF c.kind = "album" THEN row.artist ELSE None
           none == <<>>
           old == Entity(n)
           new == [old EXCEPT !.name = n, !.artist = artist]
<1> HIDE DEF artist, none
<1>1. /\ DOMAIN old = EntityFields /\ old.id = n /\ old.count = 0 /\ old.love = 0 /\ old.kill = 0
      /\ old.rating = 0 /\ old.karma = 0 /\ old.last_played = 0 /\ old.tags = none
  BY DEF Entity, EntityFields, none
<1> HIDE DEF old
<1>2. /\ DOMAIN new = EntityFields /\ new = [f \in DOMAIN new |-> new[f]]
      /\ new.name = n /\ new.artist = artist
      /\ \A f \in EntityFields \ {"name", "artist"} : new[f] = old[f]
  BY <1>1 DEF EntityFields
<1> HIDE DEF new
<1>3. new = Filled_in(new.id, new.name, new.artist, new.count, new.love, new.kill, new.rating,
                      new.karma, new.last_played, new.tags)
  BY <1>2, SameFields
<1>4. new = Filled_in(n, n, artist, 0, 0, 0, 0, 0, 0, none)
  BY <1>1, <1>2, <1>3 DEF EntityFields
<1> QED
  BY <1>4 DEF Learnt_name, Name_only, artist, none, old, new

LEMMA RowValues ==
    ASSUME NEW kind \in Kinds, NEW n \in Names(kind), NEW row \in Rows
    PROVE  /\ {n, row.artist, row.count, row.love, row.kill, row.rating, row.karma,
               row.last_played} \subseteq Values
           /\ row.last_played \in {0, 1}
           /\ row.tags \in Seq(Tags) /\ Tags \subseteq Values
<1>1. n \in Values
  BY DEF Names, Values
<1>2. /\ row.artist \in Values /\ row.tags \in Seq(Tags) /\ row.last_played \in {0, 1}
      /\ row.count \in Int /\ row.love \in Int /\ row.kill \in Int /\ row.rating \in Int
      /\ row.karma \in Int
  BY DEF Rows, Values
<1>3. Int \subseteq Values /\ Tags \subseteq Values
  BY DEF Values
<1> QED
  BY <1>1, <1>2, <1>3

LEMMA ListedIsRead ==
    ASSUME NEW kind \in Kinds, NEW n \in Names(kind), NEW row \in Rows,
           NEW S, NEW values \in Seq(S)
    PROVE  Reads(kind, Listed(kind, n, row), values, Append(values, Name_only(kind, n, row)))
<1> DEFINE key == NameKey[kind]
           none == <<>>
           zero == 0
           artist == row.artist
           e0 == Filled_in(n, None, None, zero, zero, zero, zero, zero, zero, none)
           e1 == Filled_in(n, n, None, zero, zero, zero, zero, zero, zero, none)
           e2 == Filled_in(n, n, artist, zero, zero, zero, zero, zero, zero, none)
<1>1. n \in Values /\ row.artist \in Values
  BY RowValues
<1>2. key \in KeysOf(kind) \intersect Keys /\ key \notin {"OK", "id"}
  <2>1. CASE kind = "song"
    BY <2>1 DEF NameKey, KeysOf, Keys
  <2>2. CASE kind = "artist"
    BY <2>2 DEF NameKey, KeysOf, Keys
  <2>3. CASE kind = "album"
    BY <2>3 DEF NameKey, KeysOf, Keys
  <2>4. CASE kind = "genre"
    BY <2>4 DEF NameKey, KeysOf, Keys
  <2> QED
    BY <2>1, <2>2, <2>3, <2>4 DEF Kinds
<1>3. Entity(n) = e0
  BY DEF Entity, Filled_in
<1>4. Name_only(kind, n, row) = IF kind = "album" THEN e2 ELSE e1
  BY DEF Name_only
<1> HIDE DEF none, zero, artist
<1>5. e1 = Setting(e0, "name", n)
  BY DEF Filled_in, Setting
<1>6. e2 = Setting(e1, "artist", artist)
  BY DEF Filled_in, Setting
<1>7. kind = "album" => "Artist" \in KeysOf(kind) \intersect Keys
  BY DEF KeysOf, Keys
<1> HIDE DEF e0, e1, e2
<1>8. Fill(e0, key, Pair(key, n)) = e1
  BY <1>5, FillName
<1>9. kind = "album" => Fill(e1, key, Pair("Artist", artist)) = e2
  BY <1>6, FillName
<1>10. Reads(kind, <<Pair("id", n)>>, values, Append(values, e0))
  BY <1>1, <1>3, ReadsId
<1>11. Reads(kind, <<Pair(key, n)>>, Append(values, e0), Append(values, e1))
  BY <1>1, <1>2, <1>8, ReadsValue
<1> HIDE DEF key
<1>12. <<Pair("id", n), Pair(key, n)>> = <<Pair("id", n)>> \o <<Pair(key, n)>>
  OBVIOUS
<1>13. Reads(kind, <<Pair("id", n), Pair(key, n)>>, values, Append(values, e1))
  BY <1>10, <1>11, <1>12, ReadsBoth
<1>14. CASE kind = "album"
  <2>1. Reads(kind, <<Pair("Artist", artist)>>, Append(values, e1), Append(values, e2))
    BY <1>1, <1>9, <1>7, <1>14, ReadsValue DEF key, artist
  <2>2. Listed(kind, n, row) = <<Pair("id", n), Pair(key, n)>> \o <<Pair("Artist", artist)>>
    BY <1>14 DEF Listed, key, artist
  <2> QED
    BY <1>4, <1>13, <1>14, <2>1, <2>2, ReadsBoth
<1>15. CASE kind # "album"
  <2>1. Reads(kind, <<>>, Append(values, e1), Append(values, e1))
    BY ReadsNone
  <2>2. Listed(kind, n, row) = <<Pair("id", n), Pair(key, n)>> \o <<>>
    BY <1>15 DEF Listed, key
  <2> QED
    BY <1>4, <1>13, <1>15, <2>1, <2>2, ReadsBoth
<1> QED
  BY <1>14, <1>15

(* All that mpdcron prints of a row with listinfo.                         *)
Infos_only(kind, n, row) ==
    Filled_in(n, n, IF kind = "album" THEN row.artist ELSE None,
              row.count, row.love, row.kill, row.rating,
              IF kind = "song" THEN row.karma ELSE 0,
              IF kind = "song" THEN row.last_played ELSE 0, <<>>)

Four(a, b, c, d) == <<a, b, c, d>>
Four_apart(a, b, c, d) == (<<a>> \o <<b>>) \o (<<c>> \o <<d>>)

LEMMA FourLines == ASSUME NEW a, NEW b, NEW c, NEW d PROVE Four(a, b, c, d) = Four_apart(a, b, c, d)
<1> DEFINE T == {a, b, c, d}
           first == <<a>> \o <<b>>
           last == <<c>> \o <<d>>
           all == <<a, b, c, d>>
<1>1. first \in Seq(T) /\ Len(first) = 2 /\ first[1] = a /\ first[2] = b
  OBVIOUS
<1>2. last \in Seq(T) /\ Len(last) = 2 /\ last[1] = c /\ last[2] = d
  OBVIOUS
<1>3. all \in Seq(T) /\ Len(all) = 4 /\ all[1] = a /\ all[2] = b /\ all[3] = c /\ all[4] = d
  OBVIOUS
<1> HIDE DEF first, last, all, T
<1>4. /\ first \o last \in Seq(T) /\ Len(first \o last) = 4
      /\ \A i \in 1 .. 4 : (first \o last)[i] = IF i <= 2 THEN first[i] ELSE last[i - 2]
  BY <1>1, <1>2, ConcatProperties
<1>5. \A i \in 1 .. 4 : all[i] = (first \o last)[i]
  BY <1>1, <1>2, <1>3, <1>4
<1>6. all = first \o last
  BY <1>3, <1>4, <1>5, SeqEqual
<1> QED
  BY <1>6 DEF all, first, last, Four, Four_apart

LEMMA InfosAreRead ==
    ASSUME NEW kind \in Kinds, NEW n \in Names(kind), NEW row \in Rows,
           NEW S, NEW values \in Seq(S)
    PROVE  Reads(kind, Infos(kind, n, row), values, Append(values, Infos_only(kind, n, row)))
<1> DEFINE none == <<>>
           zero == 0
           artist == IF kind = "album" THEN row.artist ELSE None
           count == row.count
           love == row.love
           kkill == row.kill
           rating == row.rating
           karma == row.karma
           played == row.last_played
           e0 == Filled_in(n, n, artist, zero, zero, zero, zero, zero, zero, none)
           e1 == Filled_in(n, n, artist, count, zero, zero, zero, zero, zero, none)
           e2 == Filled_in(n, n, artist, count, love, zero, zero, zero, zero, none)
           e3 == Filled_in(n, n, artist, count, love, kkill, zero, zero, zero, none)
           e4 == Filled_in(n, n, artist, count, love, kkill, rating, zero, zero, none)
           e5 == Filled_in(n, n, artist, count, love, kkill, rating, karma, zero, none)
           e6 == Filled_in(n, n, artist, count, love, kkill, rating, karma, played, none)
           four == <<Pair("Play Count", count), Pair("Love", love), Pair("Kill", kkill),
                     Pair("Rating", rating)>>
<1>1. {count, love, kkill, rating, karma, played} \subseteq Values /\ played \in {0, 1}
  BY RowValues
<1>2. /\ Name_only(kind, n, row) = e0
      /\ kind # "song" => Infos_only(kind, n, row) = e4
      /\ kind = "song" => Infos_only(kind, n, row) = e6
      /\ kind = "song" /\ played = 0 => Infos_only(kind, n, row) = e5
  BY DEF Name_only, Infos_only
<1>3. Reads(kind, Listed(kind, n, row), values, Append(values, e0))
  BY <1>2, ListedIsRead
<1>4. /\ Infos(kind, n, row) = (Listed(kind, n, row) \o four) \o
           (IF kind = "song"
            THEN <<Pair("Karma", karma)>> \o
                 (IF played = 1 THEN <<Pair("Last Played", 1)>> ELSE <<>>)
            ELSE <<>>)
  BY DEF Infos
<1> HIDE DEF none, zero, artist, count, love, kkill, rating, karma, played
<1>5. e1 = Setting(e0, "count", count)
  BY DEF Filled_in, Setting
<1>6. e2 = Setting(e1, "love", love)
  BY DEF Filled_in, Setting
<1>7. e3 = Setting(e2, "kill", kkill)
  BY DEF Filled_in, Setting
<1>8. e4 = Setting(e3, "rating", rating)
  BY DEF Filled_in, Setting
<1>9. e5 = Setting(e4, "karma", karma)
  BY DEF Filled_in, Setting
<1>10. e6 = Setting(e5, "last_played", played)
  BY DEF Filled_in, Setting
<1> HIDE DEF e0, e1, e2, e3, e4, e5, e6
<1>11. /\ {"Play Count", "Love", "Kill", "Rating"} \subseteq KeysOf(kind) \intersect Keys
       /\ kind = "song" => {"Karma", "Last Played"} \subseteq KeysOf(kind) \intersect Keys
  BY DEF KeysOf, Keys, Kinds, Counters
<1>12. Reads(kind, <<Pair("Play Count", count)>>, Append(values, e0), Append(values, e1))
  <2>1. Fill(e0, NameKey[kind], Pair("Play Count", count)) = e1
    BY <1>5, FillCounter
  <2> QED
    BY <1>1, <1>11, <2>1, ReadsValue
<1>13. Reads(kind, <<Pair("Love", love)>>, Append(values, e1), Append(values, e2))
  <2>1. Fill(e1, NameKey[kind], Pair("Love", love)) = e2
    BY <1>6, FillCounter
  <2> QED
    BY <1>1, <1>11, <2>1, ReadsValue
<1>14. Reads(kind, <<Pair("Kill", kkill)>>, Append(values, e2), Append(values, e3))
  <2>1. Fill(e2, NameKey[kind], Pair("Kill", kkill)) = e3
    BY <1>7, FillCounter
  <2> QED
    BY <1>1, <1>11, <2>1, ReadsValue
<1>15. Reads(kind, <<Pair("Rating", rating)>>, Append(values, e3), Append(values, e4))
  <2>1. Fill(e3, NameKey[kind], Pair("Rating", rating)) = e4
    BY <1>8, FillCounter
  <2> QED
    BY <1>1, <1>11, <2>1, ReadsValue
<1>16. Reads(kind, four, Append(values, e0), Append(values, e4))
  <2> DEFINE l1 == Pair("Play Count", count)
             l2 == Pair("Love", love)
             l3 == Pair("Kill", kkill)
             l4 == Pair("Rating", rating)
  <2> HIDE DEF l1, l2, l3, l4
  <2>1. Reads(kind, <<l1>> \o <<l2>>, Append(values, e0), Append(values, e2))
    BY <1>12, <1>13, ReadsBoth DEF l1, l2
  <2>2. Reads(kind, <<l3>> \o <<l4>>, Append(values, e2), Append(values, e4))
    BY <1>14, <1>15, ReadsBoth DEF l3, l4
  <2>3. Reads(kind, (<<l1>> \o <<l2>>) \o (<<l3>> \o <<l4>>), Append(values, e0), Append(values, e4))
    BY <2>1, <2>2, ReadsBoth
  <2>4. <<l1, l2, l3, l4>> = (<<l1>> \o <<l2>>) \o (<<l3>> \o <<l4>>)
    <3>1. Four(l1, l2, l3, l4) = Four_apart(l1, l2, l3, l4)
      BY FourLines
    <3> QED
      BY <3>1 DEF Four, Four_apart
  <2> QED
    BY <2>3, <2>4 DEF l1, l2, l3, l4
<1> HIDE DEF four
<1>17. Reads(kind, Listed(kind, n, row) \o four, values, Append(values, e4))
  BY <1>3, <1>16, ReadsBoth
<1>18. CASE kind # "song"
  <2>1. Reads(kind, <<>>, Append(values, e4), Append(values, e4))
    BY ReadsNone
  <2>2. Reads(kind, (Listed(kind, n, row) \o four) \o <<>>, values, Append(values, e4))
    BY <1>17, <2>1, ReadsBoth
  <2> QED
    BY <1>2, <1>4, <1>18, <2>2
<1>19. CASE kind = "song"
  <2>1. Reads(kind, <<Pair("Karma", karma)>>, Append(values, e4), Append(values, e5))
    <3>1. Fill(e4, NameKey[kind], Pair("Karma", karma)) = e5
      BY <1>9, FillPlayed
    <3> QED
      BY <1>1, <1>11, <1>19, <3>1, ReadsValue
  <2>2. CASE played = 0
    <3>1. Reads(kind, <<>>, Append(values, e5), Append(values, e5))
      BY ReadsNone
    <3>2. Reads(kind, <<Pair("Karma", karma)>> \o <<>>, Append(values, e4), Append(values, e5))
      BY <2>1, <3>1, ReadsBoth
    <3>3. Reads(kind, (Listed(kind, n, row) \o four) \o (<<Pair("Karma", karma)>> \o <<>>),
                values, Append(values, e5))
      BY <1>17, <3>2, ReadsBoth
    <3> QED
      BY <1>2, <1>4, <1>19, <2>2, <3>3
  <2>3. CASE played = 1
    <3>1. Reads(kind, <<Pair("Last Played", played)>>, Append(values, e5), Append(values, e6))
      <4>1. Fill(e5, NameKey[kind], Pair("Last Played", played)) = e6
        BY <1>10, FillPlayed
      <4> QED
        BY <1>1, <1>11, <1>19, <4>1, ReadsValue
    <3>2. Reads(kind, <<Pair("Karma", karma)>> \o <<Pair("Last Played", played)>>,
                Append(values, e4), Append(values, e6))
      BY <2>1, <3>1, ReadsBoth
    <3> DEFINE rest == <<Pair("Karma", karma)>> \o <<Pair("Last Played", played)>>
    <3>3. Infos(kind, n, row) = (Listed(kind, n, row) \o four) \o rest
      BY <1>4, <1>19, <2>3
    <3>4. Reads(kind, rest, Append(values, e4), Append(values, e6))
      BY <3>2
    <3> HIDE DEF rest
    <3>5. Reads(kind, (Listed(kind, n, row) \o four) \o rest, values, Append(values, e6))
      BY <1>17, <3>4, ReadsBoth
    <3> QED
      BY <1>2, <1>19, <3>3, <3>5
  <2> QED
    BY <1>1, <2>2, <2>3
<1> QED
  BY <1>18, <1>19

(* All that mpdcron prints of a row with listtags; a tag that is read      *)
(* comes before those that were read already. *)
Tags_only(kind, n, row, tags) ==
    Filled_in(n, n, IF kind = "album" THEN row.artist ELSE None, 0, 0, 0, 0, 0, 0, tags)

First_tags(row, k) == [i \in 1 .. k |-> Pair("Tag", row.tags[i])]

First_reversed(row, k) == [i \in 1 .. k |-> row.tags[k - i + 1]]

LEMMA MoreTags ==
    ASSUME NEW row \in Rows, NEW k \in 1 .. Len(row.tags)
    PROVE  /\ First_tags(row, k) = First_tags(row, k - 1) \o <<Pair("Tag", row.tags[k])>>
           /\ First_reversed(row, k) = <<row.tags[k]>> \o First_reversed(row, k - 1)
<1> DEFINE tags == row.tags
           lines == First_tags(row, k - 1)
           line == Pair("Tag", tags[k])
           reversed == First_reversed(row, k - 1)
           Lns == {Pair("Tag", t) : t \in Tags}
<1>1. tags \in Seq(Tags) /\ Len(tags) \in Nat
  BY DEF Rows
<1>2. \A i \in 1 .. k : tags[i] \in Tags
  BY <1>1, ElementOfSeq
<1>3. k - 1 \in Nat /\ k \in Nat /\ k \in 1 .. k
  BY <1>1
<1> HIDE DEF tags
<1>4. lines \in Seq(Lns) /\ Len(lines) = k - 1 /\ \A i \in 1 .. k - 1 : lines[i] = Pair("Tag", tags[i])
  BY <1>2, <1>3 DEF First_tags, tags
<1>5. /\ reversed \in Seq(Tags) /\ Len(reversed) = k - 1
      /\ \A i \in 1 .. k - 1 : reversed[i] = tags[k - 1 - i + 1]
  BY <1>2, <1>3 DEF First_reversed, tags
<1>6. /\ First_tags(row, k) \in Seq(Lns) /\ Len(First_tags(row, k)) = k
      /\ \A i \in 1 .. k : First_tags(row, k)[i] = Pair("Tag", tags[i])
  BY <1>2, <1>3 DEF First_tags, tags
<1>7. /\ First_reversed(row, k) \in Seq(Tags) /\ Len(First_reversed(row, k)) = k
      /\ \A i \in 1 .. k : First_reversed(row, k)[i] = tags[k - i + 1]
  BY <1>2, <1>3 DEF First_reversed, tags
<1>8. line \in Lns /\ tags[k] \in Tags
  BY <1>2, <1>3
<1> HIDE DEF lines, line, reversed, Lns
<1>9. /\ lines \o <<line>> \in Seq(Lns) /\ Len(lines \o <<line>>) = k
      /\ \A i \in 1 .. k : (lines \o <<line>>)[i] = IF i = k THEN line ELSE lines[i]
  BY <1>3, <1>4, <1>8
<1>10. /\ <<tags[k]>> \o reversed \in Seq(Tags) /\ Len(<<tags[k]>> \o reversed) = k
       /\ \A i \in 1 .. k : (<<tags[k]>> \o reversed)[i] = IF i = 1 THEN tags[k] ELSE reversed[i - 1]
  BY <1>3, <1>5, <1>8
<1>11. First_tags(row, k) = lines \o <<line>>
  <2>1. \A i \in 1 .. k : First_tags(row, k)[i] = (lines \o <<line>>)[i]
    BY <1>3, <1>4, <1>6, <1>9 DEF line
  <2> QED
    BY <1>3, <1>6, <1>9, <2>1, SeqEqual
<1>12. First_reversed(row, k) = <<tags[k]>> \o reversed
  <2>1. \A i \in 1 .. k : First_reversed(row, k)[i] = (<<tags[k]>> \o reversed)[i]
    <3> SUFFICES ASSUME NEW i \in 1 .. k
                 PROVE  First_reversed(row, k)[i] = (<<tags[k]>> \o reversed)[i]
      OBVIOUS
    <3>1. First_reversed(row, k)[i] = tags[k - i + 1]
      BY <1>7
    <3>2. CASE i = 1
      BY <1>3, <1>10, <3>1, <3>2
    <3>3. CASE i # 1
      <4>1. i - 1 \in 1 .. k - 1 /\ k - 1 - (i - 1) + 1 = k - i + 1
        BY <1>3, <3>3
      <4>2. reversed[i - 1] = tags[k - 1 - (i - 1) + 1]
        BY <1>5, <4>1
      <4> QED
        BY <1>10, <3>1, <3>3, <4>1, <4>2
    <3> QED
      BY <3>2, <3>3
  <2> QED
    BY <1>3, <1>7, <1>10, <2>1, SeqEqual
<1> QED
  BY <1>11, <1>12 DEF lines, line, reversed, tags

LEMMA FirstTagsAreRead ==
    ASSUME NEW kind \in Kinds, NEW n, NEW row \in Rows, NEW S, NEW values \in Seq(S),
           NEW k \in 1 .. Len(row.tags)
    PROVE  Reads(kind, <<Pair("Tag", row.tags[k])>>,
                 Append(values, Tags_only(kind, n, row, First_reversed(row, k - 1))),
                 Append(values, Tags_only(kind, n, row, First_reversed(row, k))))
<1> DEFINE before == First_reversed(row, k - 1)
           after == First_reversed(row, k)
           tag == row.tags[k]
           e == Tags_only(kind, n, row, before)
           artist == IF kind = "album" THEN row.artist ELSE None
<1>1. tag \in Values
  <2>1. row.tags \in Seq(Tags)
    BY DEF Rows
  <2>2. tag \in Tags
    BY <2>1, ElementOfSeq
  <2> QED
    BY <2>2 DEF Values
<1>2. after = <<tag>> \o before
  BY MoreTags
<1>3. "Tag" \in KeysOf(kind) \intersect Keys
  BY DEF KeysOf, Keys, Kinds, Counters
<1> HIDE DEF before, after, tag, artist
<1>4. e.tags = before
  BY DEF Tags_only, Filled_in
<1>5. Tags_only(kind, n, row, after) = Setting(e, "tags", after)
  BY DEF Tags_only, Filled_in, Setting
<1> HIDE DEF e
<1>6. Fill(e, NameKey[kind], Pair("Tag", tag)) = Tags_only(kind, n, row, after)
  BY <1>2, <1>4, <1>5, FillTag
<1>7. Reads(kind, <<Pair("Tag", tag)>>, Append(values, e), Append(values, Tags_only(kind, n, row, after)))
  BY <1>1, <1>3, <1>6, ReadsValue
<1> QED
  BY <1>7 DEF e, before, after, tag

LEMMA TagsAreRead ==
    ASSUME NEW kind \in Kinds, NEW n \in Names(kind), NEW row \in Rows,
           NEW S, NEW values \in Seq(S)
    PROVE  Reads(kind, TagsListed(kind, n, row), values,
                 Append(values, Tags_only(kind, n, row, Reverse(row.tags))))
<1> DEFINE len == Len(row.tags)
           lines(k) == First_tags(row, k)
           so_far(k) == Append(values, Tags_only(kind, n, row, First_reversed(row, k)))
           bad == {k \in Nat : k <= len /\ ~ Reads(kind, lines(k), so_far(0), so_far(k))}
<1>1. len \in Nat /\ row.tags \in Seq(Tags) /\ DOMAIN row.tags = 1 .. len
  BY DEF Rows
<1>2. lines(0) = <<>> /\ First_reversed(row, 0) = <<>>
  BY DEF First_tags, First_reversed
<1>3. Reads(kind, lines(0), so_far(0), so_far(0))
  BY <1>2, ReadsNone
<1>4. Reads(kind, Listed(kind, n, row), values, so_far(0))
  <2>1. Name_only(kind, n, row) = Tags_only(kind, n, row, <<>>)
    BY DEF Name_only, Tags_only
  <2> QED
    BY <1>2, <2>1, ListedIsRead
<1>5. ASSUME NEW k \in bad PROVE k # 0 /\ k - 1 \in bad
  <2>1. k # 0
    BY <1>3
  <2>2. k \in 1 .. len /\ k - 1 \in Nat /\ k - 1 <= len
    BY <1>1, <2>1
  <2>3. Reads(kind, <<Pair("Tag", row.tags[k])>>, so_far(k - 1), so_far(k))
    BY <2>2, FirstTagsAreRead
  <2>4. lines(k) = lines(k - 1) \o <<Pair("Tag", row.tags[k])>>
    BY <2>2, MoreTags
  <2> HIDE DEF lines, so_far
  <2>5. Reads(kind, lines(k - 1), so_far(0), so_far(k - 1)) => Reads(kind, lines(k), so_far(0), so_far(k))
    BY <2>3, <2>4, ReadsBoth
  <2> QED
    BY <2>1, <2>2, <2>5
<1>6. bad = {}
  <2> SUFFICES ASSUME bad # {} PROVE FALSE
    OBVIOUS
  <2>1. bad \in SUBSET Nat
    OBVIOUS
  <2> HIDE DEF bad
  <2> QED
    BY <1>5, <2>1, FirstOne
<1>7. Reads(kind, lines(len), so_far(0), so_far(len))
  <2> HIDE DEF lines, so_far, len
  <2> QED
    BY <1>1, <1>6
<1>8. TagsListed(kind, n, row) = Listed(kind, n, row) \o lines(len)
  BY <1>1 DEF TagsListed, First_tags
<1>9. so_far(len) = Append(values, Tags_only(kind, n, row, Reverse(row.tags)))
  BY DEF Reverse, First_reversed
<1> HIDE DEF lines, so_far, len
<1>10. Reads(kind, TagsListed(kind, n, row), values, so_far(len))
  BY <1>4, <1>7, <1>8, ReadsBoth
<1> QED
  BY <1>9, <1>10

-----------------------------------------------------------------------------
(* The lines of all the rows one after the other.                          *)
About_row(c, n, row) ==
    CASE c.op = "list"     -> Listed(c.kind, n, row)
      [] c.op = "listinfo" -> Infos(c.kind, n, row)
      [] c.op = "listtags" -> TagsListed(c.kind, n, row)

LEMMA LearntIs ==
    ASSUME NEW c, NEW n, NEW row
    PROVE  /\ c.op = "list" => Learnt(c, n, row) = Name_only(c.kind, n, row)
           /\ c.op = "listinfo" => Learnt(c, n, row) = Infos_only(c.kind, n, row)
           /\ c.op = "listtags" =>
                Learnt(c, n, row) = Tags_only(c.kind, n, row, Reverse(row.tags))
<1> DEFINE e == Learnt_name(c, n, row)
           kind == c.kind
           none == <<>>
           artist == IF kind = "album" THEN row.artist ELSE None
<1>1. e = Name_only(kind, n, row)
  BY Learnt_nameIs
<1>2. /\ DOMAIN e = EntityFields /\ e.id = n /\ e.name = n /\ e.artist = artist /\ e.tags = none
  BY <1>1 DEF Name_only, Filled_in, EntityFields, none
<1> HIDE DEF e, kind, none, artist
<1>3. CASE c.op = "list"
  <2>1. Learnt(c, n, row) = e
    BY <1>3 DEF Learnt, e
  <2> QED
    BY <1>1, <1>3, <2>1 DEF kind
<1>4. CASE c.op = "listinfo"
  <2> DEFINE karma == IF kind = "song" THEN row.karma ELSE 0
             played == IF kind = "song" THEN row.last_played ELSE 0
             count == row.count
             love == row.love
             kkill == row.kill
             rating == row.rating
             new == [e EXCEPT !.count = count, !.love = love, !.kill = kkill, !.rating = rating,
                              !.karma = karma, !.last_played = played]
  <2>1. Learnt(c, n, row) = new
    BY <1>4 DEF Learnt, e, kind
  <2>2. Infos_only(kind, n, row) =
          Filled_in(n, n, artist, count, love, kkill, rating, karma, played, none)
    BY DEF Infos_only, artist, none
  <2> HIDE DEF karma, played, count, love, kkill, rating
  <2>3. /\ DOMAIN new = EntityFields /\ new = [f \in DOMAIN new |-> new[f]]
        /\ \A f \in {"id", "name", "artist", "tags"} : new[f] = e[f]
    BY <1>2 DEF EntityFields
  <2>4. /\ new.count = count /\ new.love = love /\ new.kill = kkill /\ new.rating = rating
        /\ new.karma = karma /\ new.last_played = played
    BY <1>2 DEF EntityFields
  <2> HIDE DEF new
  <2>5. new = Filled_in(new.id, new.name, new.artist, new.count, new.love, new.kill, new.rating,
                        new.karma, new.last_played, new.tags)
    BY <2>3, SameFields
  <2>6. new = Filled_in(n, n, artist, count, love, kkill, rating, karma, played, none)
    BY <1>2, <2>3, <2>4, <2>5
  <2> QED
    BY <1>4, <2>1, <2>2, <2>6 DEF kind
<1>5. CASE c.op = "listtags"
  <2> DEFINE tags == Reverse(row.tags)
  <2>1. Learnt(c, n, row) = [e EXCEPT !.tags = tags]
    BY <1>5 DEF Learnt, e
  <2> HIDE DEF tags
  <2>2. [e EXCEPT !.tags = tags] = Tags_only(kind, n, row, tags)
    BY <1>1 DEF Name_only, Tags_only, Filled_in
  <2> QED
    BY <1>5, <2>1, <2>2 DEF kind, tags
<1> QED
  BY <1>3, <1>4, <1>5

LEMMA RowIsRead ==
    ASSUME NEW c, IsLook(c), c.kind \in Kinds, NEW n \in Names(c.kind), NEW row \in Rows,
           NEW S, NEW values \in Seq(S)
    PROVE  Reads(c.kind, About_row(c, n, row), values, Append(values, Learnt(c, n, row)))
<1>1. CASE c.op = "list"
  <2>1. About_row(c, n, row) = Listed(c.kind, n, row)
    BY <1>1 DEF About_row
  <2> QED
    BY <1>1, <2>1, ListedIsRead, LearntIs
<1>2. CASE c.op = "listinfo"
  <2>1. About_row(c, n, row) = Infos(c.kind, n, row)
    BY <1>2 DEF About_row
  <2> QED
    BY <1>2, <2>1, InfosAreRead, LearntIs
<1>3. CASE c.op = "listtags"
  <2>1. About_row(c, n, row) = TagsListed(c.kind, n, row)
    BY <1>3 DEF About_row
  <2> QED
    BY <1>3, <2>1, TagsAreRead, LearntIs
<1> QED
  BY <1>1, <1>2, <1>3 DEF IsLook

Flat_step(seqs, flat, i) == IF i = 1 THEN seqs[i] ELSE flat[i - 1] \o seqs[i]

Flattened(seqs) == CHOOSE flat : flat = [i \in 1 .. Len(seqs) |-> Flat_step(seqs, flat, i)]

LEMMA FlattenedExists ==
    ASSUME NEW seqs, Len(seqs) \in Nat
    PROVE  \E flat : flat = [i \in 1 .. Len(seqs) |-> Flat_step(seqs, flat, i)]
<1> DEFINE len == Len(seqs)
           Step(flat, i) == Flat_step(seqs, flat, i)
           Good(n) ==
             \E flat : /\ flat = [i \in 1 .. len |-> flat[i]]
                       /\ \A i \in 1 .. len : i <= n => flat[i] = Step(flat, i)
           bad == {n \in Nat : ~ Good(n)}
<1>1. len \in Nat
  OBVIOUS
<1> HIDE DEF len
<1>2. Good(0)
  <2> DEFINE flat == [i \in 1 .. len |-> <<>>]
  <2>1. \A i \in 1 .. len : ~ (i <= 0)
    BY <1>1
  <2>2. flat = [i \in 1 .. len |-> flat[i]]
    OBVIOUS
  <2> QED
    BY <2>1, <2>2
<1>3. ASSUME NEW n \in Nat, Good(n) PROVE Good(n + 1)
  <2>1. PICK g : /\ g = [i \in 1 .. len |-> g[i]]
                 /\ \A i \in 1 .. len : i <= n => g[i] = Step(g, i)
    BY <1>3
  <2> DEFINE h == [i \in 1 .. len |-> IF i <= n THEN g[i] ELSE Step(g, i)]
  <2> HIDE DEF Step
  <2>2. /\ \A i \in 1 .. len : h[i] = Step(g, i)
        /\ \A i \in 1 .. len : i <= n => h[i] = g[i]
        /\ h = [i \in 1 .. len |-> h[i]]
    BY <2>1
  <2> HIDE DEF h
  <2>3. \A i \in 1 .. len : i <= n + 1 => Step(g, i) = Step(h, i)
    <3> SUFFICES ASSUME NEW i \in 1 .. len, i <= n + 1 PROVE Step(g, i) = Step(h, i)
      OBVIOUS
    <3>1. CASE i = 1
      BY <3>1 DEF Step, Flat_step
    <3>2. CASE i # 1
      <4>1. i - 1 \in 1 .. len /\ i - 1 <= n
        BY <1>1, <3>2
      <4>2. h[i - 1] = g[i - 1]
        BY <2>2, <4>1
      <4> QED
        BY <3>2, <4>2 DEF Step, Flat_step
    <3> QED
      BY <3>1, <3>2
  <2> QED
    BY <2>2, <2>3
<1>4. bad = {}
  <2> SUFFICES ASSUME bad # {} PROVE FALSE
    OBVIOUS
  <2> HIDE DEF Good
  <2>1. PICK n \in bad : n = 0 \/ n - 1 \in Nat \ bad
    BY FirstOne
  <2>2. n # 0 /\ n \in Nat /\ n - 1 \in Nat /\ Good(n - 1)
    BY <1>2, <2>1
  <2>3. Good((n - 1) + 1)
    BY <1>3, <2>2
  <2> QED
    BY <2>1, <2>2, <2>3
<1>5. Good(len)
  <2> HIDE DEF Good
  <2> QED
    BY <1>1, <1>4
<1> HIDE DEF Step
<1>6. PICK flat : /\ flat = [i \in 1 .. len |-> flat[i]]
                  /\ \A i \in 1 .. len : i <= len => flat[i] = Step(flat, i)
  BY <1>5
<1>7. flat = [i \in 1 .. len |-> Step(flat, i)]
  BY <1>1, <1>6
<1> QED
  BY <1>7 DEF len, Step

(* FlattenSeq begins with the first, and goes on with the next.            *)
LEMMA FlattenIs ==
    ASSUME NEW S, NEW seqs \in Seq(S), seqs # <<>>
    PROVE  /\ FlattenSeq(seqs) = Flattened(seqs)[Len(seqs)]
           /\ Len(seqs) \in Nat \ {0}
           /\ \A i \in 1 .. Len(seqs) : Flattened(seqs)[i] = Flat_step(seqs, Flattened(seqs), i)
<1> DEFINE flat == Flattened(seqs)
<1>1. Len(seqs) \in Nat \ {0}
  BY EmptySeq
<1>2. FlattenSeq(seqs) = flat[Len(seqs)]
  BY <1>1 DEF FlattenSeq, Flattened, Flat_step
<1>3. flat = [i \in 1 .. Len(seqs) |-> Flat_step(seqs, flat, i)]
  BY <1>1, FlattenedExists DEF Flattened
<1> HIDE DEF flat
<1>4. \A i \in 1 .. Len(seqs) : flat[i] = Flat_step(seqs, flat, i)
  BY <1>3
<1> QED
  BY <1>1, <1>2, <1>4 DEF flat

(* SetToSeq has every element once.                                        *)
LEMMA SetToSeqIs ==
    ASSUME NEW T, IsFiniteSet(T)
    PROVE  /\ SetToSeq(T) \in [1 .. Cardinality(T) -> T] /\ Cardinality(T) \in Nat
           /\ SetToSeq(T) \in Seq(T) /\ Len(SetToSeq(T)) = Cardinality(T)
           /\ \A x \in T : \E i \in 1 .. Cardinality(T) : SetToSeq(T)[i] = x
<1> DEFINE len == Cardinality(T)
           seq == SetToSeq(T)
<1>1. len \in Nat /\ ExistsBijection(1 .. len, T)
  BY FS_CardinalityType
<1>2. \E f \in [1 .. len -> T] : IsInjective(f)
  BY <1>1 DEF ExistsBijection, Bijection, Injection
<1>3. seq \in [1 .. len -> T] /\ IsInjective(seq)
  BY <1>2 DEF SetToSeq
<1>4. seq \in Injection(1 .. len, T)
  BY <1>3 DEF Injection
<1>5. IsFiniteSet(1 .. len) /\ Cardinality(1 .. len) = len
  BY <1>1, FS_Interval
<1> HIDE DEF seq, len
<1>6. seq \in Surjection(1 .. len, T)
  BY <1>4, <1>5, FS_Injection DEF len
<1>7. \A x \in T : \E i \in 1 .. len : seq[i] = x
  BY <1>6 DEF Surjection
<1>8. seq \in Seq(T) /\ Len(seq) = len
  BY <1>1, <1>3
<1> QED
  BY <1>1, <1>3, <1>7, <1>8 DEF seq, len

Blocks(c, table, names) == [i \in DOMAIN names |-> About_row(c, names[i], table[names[i]])]

LEMMA LookingIs ==
    ASSUME NEW tables, NEW c, IsLook(c), c.where # None
    PROVE  Looking(tables, c) =
             FlattenSeq(Blocks(c, tables[c.kind], SetToSeq(Selected(tables[c.kind], c.where)))) \o <<OK>>
<1>1. CASE c.op = "list"
  BY <1>1 DEF Looking, Handle_list, Lines, Blocks, About_row
<1>2. CASE c.op = "listinfo"
  BY <1>2 DEF Looking, Handle_listinfo, Lines, Blocks, About_row
<1>3. CASE c.op = "listtags"
  BY <1>3 DEF Looking, Handle_listtags, Lines, Blocks, About_row
<1> QED
  BY <1>1, <1>2, <1>3 DEF IsLook

(* The rows called names, in that order. *)
Learnt_of(c, table, names, k) == [i \in 1 .. k |-> Learnt(c, names[i], table[names[i]])]

LEMMA LearntMore ==
    ASSUME NEW c, NEW table, NEW names, NEW k \in Nat, \A i \in 1 .. k : names[i] \in DOMAIN table
    PROVE  LET S == {Learnt(c, n, table[n]) : n \in DOMAIN table}
           IN  /\ Learnt_of(c, table, names, k) \in Seq(S)
               /\ k # 0 => Learnt_of(c, table, names, k) =
                             Append(Learnt_of(c, table, names, k - 1),
                                    Learnt(c, names[k], table[names[k]]))
<1> DEFINE S == {Learnt(c, n, table[n]) : n \in DOMAIN table}
           all == Learnt_of(c, table, names, k)
           init == Learnt_of(c, table, names, k - 1)
           last == Learnt(c, names[k], table[names[k]])
<1>1. \A i \in 1 .. k : Learnt(c, names[i], table[names[i]]) \in S
  OBVIOUS
<1> HIDE DEF S
<1>2. /\ all \in Seq(S) /\ Len(all) = k
      /\ \A i \in 1 .. k : all[i] = Learnt(c, names[i], table[names[i]])
  BY <1>1 DEF Learnt_of
<1>3. ASSUME k # 0 PROVE all = Append(init, last)
  <2>1. k - 1 \in Nat /\ k \in 1 .. k
    BY <1>3
  <2>2. /\ init \in Seq(S) /\ Len(init) = k - 1
        /\ \A i \in 1 .. k - 1 : init[i] = Learnt(c, names[i], table[names[i]])
    BY <1>1, <2>1 DEF Learnt_of
  <2>3. last \in S /\ all[k] = last
    BY <1>1, <1>2, <2>1
  <2> HIDE DEF all, init, last
  <2>4. /\ Append(init, last) \in Seq(S) /\ Len(Append(init, last)) = k
        /\ Append(init, last)[k] = last
        /\ \A i \in 1 .. k - 1 : Append(init, last)[i] = init[i]
    BY <2>1, <2>2, <2>3, AppendProperties
  <2>5. \A i \in 1 .. k : all[i] = Append(init, last)[i]
    <3> SUFFICES ASSUME NEW i \in 1 .. k PROVE all[i] = Append(init, last)[i]
      OBVIOUS
    <3>1. i = k \/ i \in 1 .. k - 1
      BY <2>1
    <3> QED
      BY <1>2, <2>2, <2>3, <2>4, <3>1
  <2> QED
    BY <1>2, <2>4, <2>5, SeqEqual
<1> QED
  BY <1>2, <1>3 DEF S

LEMMA BlocksAreRead ==
    ASSUME NEW c, IsLook(c), c.kind \in Kinds, NEW table,
           \A n \in DOMAIN table : n \in Names(c.kind) /\ table[n] \in Rows,
           NEW names \in Seq(DOMAIN table), names # <<>>
    PROVE  Reads(c.kind, FlattenSeq(Blocks(c, table, names)), <<>>,
                 Learnt_of(c, table, names, Len(names)))
<1> DEFINE kind == c.kind
           len == Len(names)
           seqs == Blocks(c, table, names)
           flat == Flattened(seqs)
           learnt(k) == Learnt_of(c, table, names, k)
           S == {Learnt(c, n, table[n]) : n \in DOMAIN table}
           bad == {k \in Nat : k < len /\ ~ Reads(kind, flat[k + 1], <<>>, learnt(k + 1))}
<1>1. /\ len \in Nat \ {0} /\ DOMAIN names = 1 .. len
      /\ \A i \in 1 .. len : names[i] \in DOMAIN table
  BY EmptySeq, ElementOfSeq
<1>2. seqs \in Seq({About_row(c, n, table[n]) : n \in DOMAIN table}) /\ Len(seqs) = len
  BY <1>1 DEF Blocks
<1>3. \A i \in 1 .. len : seqs[i] = About_row(c, names[i], table[names[i]])
  BY <1>1 DEF Blocks
<1>4. seqs # <<>>
  BY <1>1, <1>2, EmptySeq
<1> HIDE DEF seqs, len
<1>5. /\ FlattenSeq(seqs) = flat[len]
      /\ \A i \in 1 .. len : flat[i] = Flat_step(seqs, flat, i)
  BY <1>2, <1>4, FlattenIs
<1> HIDE DEF flat
<1>6. ASSUME NEW k \in 1 .. len
      PROVE  /\ learnt(k - 1) \in Seq(S)
             /\ learnt(k) = Append(learnt(k - 1), Learnt(c, names[k], table[names[k]]))
  <2>1. k \in Nat /\ k - 1 \in Nat /\ k # 0
    BY <1>1
  <2>2. \A i \in 1 .. k : names[i] \in DOMAIN table
    BY <1>1
  <2>3. \A i \in 1 .. k - 1 : names[i] \in DOMAIN table
    BY <1>1
  <2> QED
    BY <2>1, <2>2, <2>3, LearntMore
<1> HIDE DEF learnt, S
<1>7. \A k \in 1 .. len : Reads(kind, seqs[k], learnt(k - 1), learnt(k))
  <2> SUFFICES ASSUME NEW k \in 1 .. len PROVE Reads(kind, seqs[k], learnt(k - 1), learnt(k))
    OBVIOUS
  <2> DEFINE n == names[k]
             row == table[n]
             before == learnt(k - 1)
  <2>1. n \in Names(c.kind) /\ row \in Rows
    BY <1>1
  <2>2. before \in Seq(S) /\ learnt(k) = Append(before, Learnt(c, n, row))
    BY <1>6
  <2>3. seqs[k] = About_row(c, n, row)
    BY <1>3
  <2> HIDE DEF n, row, before
  <2>4. Reads(c.kind, About_row(c, n, row), before, Append(before, Learnt(c, n, row)))
    BY <2>1, <2>2, RowIsRead
  <2> QED
    BY <2>2, <2>3, <2>4 DEF before
<1>8. learnt(0) = <<>>
  BY DEF learnt, Learnt_of
<1>9. ASSUME NEW k \in bad PROVE k # 0 /\ k - 1 \in bad
  <2>1. k \in Nat /\ k + 1 \in 1 .. len /\ (k + 1) - 1 = k
    BY <1>1
  <2>2. flat[k + 1] = Flat_step(seqs, flat, k + 1) /\ Reads(kind, seqs[k + 1], learnt(k), learnt(k + 1))
    BY <1>5, <1>7, <2>1
  <2>3. k # 0
    <3> SUFFICES ASSUME k = 0 PROVE FALSE
      OBVIOUS
    <3>1. flat[k + 1] = seqs[k + 1] /\ learnt(k) = <<>>
      BY <1>8, <2>2 DEF Flat_step
    <3> QED
      BY <2>2, <3>1
  <2>4. k - 1 \in Nat /\ k - 1 < len /\ (k - 1) + 1 = k /\ k + 1 # 1
    BY <1>1, <2>1, <2>3
  <2>5. flat[k + 1] = flat[k] \o seqs[k + 1]
    <3> DEFINE next == k + 1
    <3>1. next # 1 /\ next - 1 = k /\ flat[next] = Flat_step(seqs, flat, next)
      BY <2>1, <2>2, <2>4
    <3> HIDE DEF next
    <3>2. flat[next] = flat[k] \o seqs[next]
      BY <3>1 DEF Flat_step
    <3> QED
      BY <3>2 DEF next
  <2>6. Reads(kind, flat[k], <<>>, learnt(k)) => Reads(kind, flat[k + 1], <<>>, learnt(k + 1))
    BY <2>2, <2>5, ReadsBoth
  <2> QED
    BY <2>3, <2>4, <2>6
<1>10. bad = {}
  <2> SUFFICES ASSUME bad # {} PROVE FALSE
    OBVIOUS
  <2>1. bad \in SUBSET Nat
    OBVIOUS
  <2> HIDE DEF bad
  <2> QED
    BY <1>9, <2>1, FirstOne
<1>11. Reads(kind, flat[len], <<>>, learnt(len))
  <2>1. len - 1 \in Nat /\ len - 1 < len /\ (len - 1) + 1 = len
    BY <1>1
  <2> QED
    BY <1>10, <2>1
<1> QED
  BY <1>5, <1>11 DEF learnt, len, seqs

(* Whatever mpdcron answers to a command that looks at rows, eugene learns *)
(* of each of them once, and all that there is to learn.                   *)
Understood(c, answer, rows) ==
    LET got == Parse(c, answer)
    IN  /\ got.failed = 0 /\ Len(got.values) = Cardinality(DOMAIN rows)
        /\ ToSet(got.values) = {Learnt(c, n, rows[n]) : n \in DOMAIN rows}

LEMMA LookIsUnderstood ==
    ASSUME NEW tables, TablesOK(tables), NEW c, CommandOK(c), IsLook(c), c.where # None,
           NEW rows, rows = [n \in Selected(tables[c.kind], c.where) |-> tables[c.kind][n]]
    PROVE  Understood(c, Looking(tables, c), rows)
<1> DEFINE kind == c.kind
           table == tables[kind]
           sel == Selected(table, c.where)
           names == SetToSeq(sel)
           len == Cardinality(sel)
           body == FlattenSeq(Blocks(c, table, names))
           learnt == Learnt_of(c, table, names, len)
<1>1. kind \in Kinds /\ sel \subseteq DOMAIN table
  BY DEF CommandOK, Selected
<1>2. \A n \in DOMAIN table : n \in Names(kind) /\ table[n] \in Rows
  BY <1>1 DEF TablesOK
<1>3. IsFiniteSet(sel)
  <2>1. IsFiniteSet(Names(kind))
    BY NamesFinite
  <2> QED
    BY <1>1, <1>2, <2>1, FS_Subset
<1>4. Looking(tables, c) = body \o <<OK>>
  BY LookingIs
<1> HIDE DEF table, sel
<1>5. /\ names \in [1 .. len -> sel] /\ len \in Nat /\ names \in Seq(sel) /\ Len(names) = len
      /\ \A x \in sel : \E i \in 1 .. len : names[i] = x
  BY <1>3, SetToSeqIs
<1> HIDE DEF names, len
<1>6. Reads(kind, body, <<>>, learnt)
  <2>1. CASE names = <<>>
    <3>1. len = 0
      BY <1>5, <2>1, EmptySeq
    <3>2. learnt = <<>>
      BY <3>1 DEF Learnt_of
    <3>3. Blocks(c, table, names) = <<>>
      BY <2>1 DEF Blocks
    <3>4. body = <<>>
      BY <3>3 DEF FlattenSeq
    <3> QED
      BY <3>2, <3>4, ReadsNone
  <2>2. CASE names # <<>>
    <3>1. names \in Seq(DOMAIN table)
      BY <1>1, <1>5, SeqMonotonic
    <3> QED
      BY <1>1, <1>2, <1>5, <2>2, <3>1, BlocksAreRead
  <2> QED
    BY <2>1, <2>2
<1>7. Parsed(body, NameKey[kind], KeysOf(kind)) = Read_so_far(learnt) /\ body \in Seq(Printed)
  <2> DEFINE none == <<>>
  <2>1. Read_so_far(none) = Unread
    BY DEF Read_so_far, Unread
  <2>2. Parsed(none, NameKey[kind], KeysOf(kind)) = Unread
    BY NothingIsUnread
  <2>3. none \in Seq(Printed) /\ body \in Seq(Printed)
    BY <1>6, EmptySeq DEF Reads
  <2> HIDE DEF body
  <2>4. none \o body = body
    BY <2>3, ConcatEmptySeq
  <2>5. Takes(NameKey[kind], KeysOf(kind), body, Read_so_far(none), Read_so_far(learnt))
    BY <1>6 DEF Reads
  <2> HIDE DEF none, learnt
  <2> QED
    BY <2>1, <2>2, <2>3, <2>4, <2>5 DEF Takes
<1>8. Parse(c, Looking(tables, c)) = Read_so_far(learnt)
  <2>1. OK \in Printed /\ OK.key = "OK"
    BY DEF OK, Printed, Keys, Values
  <2> HIDE DEF body, learnt
  <2>2. body \o <<OK>> = Append(body, OK)
    BY <1>7, <2>1
  <2>3. Parsed(Append(body, OK), NameKey[kind], KeysOf(kind)) =
          Parse_line(Read_so_far(learnt), NameKey[kind], KeysOf(kind), OK)
    BY <1>7, <2>1, ParsedAppend
  <2>4. Parse_line(Read_so_far(learnt), NameKey[kind], KeysOf(kind), OK) = Read_so_far(learnt)
    BY <2>1 DEF Parse_line
  <2> QED
    BY <1>1, <1>4, <2>2, <2>3, <2>4, ParseIsParsed
<1>9. Read_so_far(learnt).failed = 0 /\ Read_so_far(learnt).values = learnt
  BY ReadMore
<1>10. DOMAIN rows = sel /\ \A n \in sel : rows[n] = table[n]
  BY DEF sel, table
<1>11. Len(learnt) = len /\ DOMAIN learnt = 1 .. len
  BY <1>5 DEF Learnt_of
<1>12. ToSet(learnt) = {Learnt(c, n, rows[n]) : n \in sel}
  <2>1. \A i \in 1 .. len : /\ names[i] \in sel
                            /\ learnt[i] = Learnt(c, names[i], rows[names[i]])
    BY <1>5, <1>10 DEF Learnt_of
  <2> HIDE DEF learnt
  <2>2. ToSet(learnt) = {learnt[i] : i \in 1 .. len}
    BY <1>11 DEF ToSet
  <2>3. ASSUME NEW n \in sel PROVE \E i \in 1 .. len : learnt[i] = Learnt(c, n, rows[n])
    BY <1>5, <2>1
  <2>4. {learnt[i] : i \in 1 .. len} \subseteq {Learnt(c, n, rows[n]) : n \in sel}
    BY <2>1
  <2>5. {Learnt(c, n, rows[n]) : n \in sel} \subseteq {learnt[i] : i \in 1 .. len}
    <3> SUFFICES ASSUME NEW n \in sel PROVE Learnt(c, n, rows[n]) \in {learnt[i] : i \in 1 .. len}
      OBVIOUS
    <3>1. PICK i \in 1 .. len : learnt[i] = Learnt(c, n, rows[n])
      BY <2>3
    <3> QED
      BY <3>1
  <2> QED
    BY <2>2, <2>4, <2>5
<1> QED
  BY <1>8, <1>9, <1>10, <1>11, <1>12 DEF Understood, len

=============================================================================
