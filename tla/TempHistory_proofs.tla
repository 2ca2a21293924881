------------------------- MODULE TempHistory_proofs -------------------------
(***************************************************************************)
(* Theorems about the history of a temperature, for any number of days,    *)
(* any interval and any size of the ring: no row is lost before its time,  *)
(* the ring is in order, and what is read back leaves no gap.              *)
(***************************************************************************)
EXTENDS TempHistory, FiniteSetTheorems, SequenceTheorems, TLAPS

-----------------------------------------------------------------------------
(* What holds of every state *)

Ordered(samples) ==
    \A i, j \in 1..Len(samples) : i < j => samples[i] < samples[j]

\* What an interval stores, it stores once.
LoggedInv ==
    ~logged => now \notin csv /\ \A i \in 1..Len(ring) : ring[i] < now

\* Before the rows are read back, the ring holds at most the sample of the
\* interval in which the clock was synchronised.
WaitingInv ==
    restored = "waiting" =>
        IF early THEN synced /\ logged /\ ring = <<now>> ELSE ring = <<>>

\* That sample stays in front of the rows.  Overwriting it makes no gap: it is
\* not on the card, or again in the ring.
FrontInv ==
    \/ \A j \in 2..Len(ring) : ring[1] < ring[j]
    \/ ring[1] \in csv => \E j \in 2..Len(ring) : ring[j] = ring[1]

GapInv ==
    MaxSamples >= Days * DayLength /\ restored = "complete" =>
        /\ NoGap
        /\ \A i, j \in 2..Len(ring) : i < j => ring[i] < ring[j]
        /\ FrontInv

RingInv == HistoryTypeOK /\ LoggedInv /\ WaitingInv /\ RingInOrder /\ GapInv

-----------------------------------------------------------------------------
(* The ring and the order in which the rows are read *)

\* How many samples a ring that all of s was put into has overwritten.
Dropped(s) == IF Len(s) <= MaxSamples THEN 0 ELSE Len(s) - MaxSamples

LEMMA RecentFacts ==
    ASSUME NEW S, NEW s \in Seq(S)
    PROVE  /\ Recent(s) \in Seq(S)
           /\ Dropped(s) \in 0..Len(s) /\ Len(Recent(s)) = Len(s) - Dropped(s)
           /\ Len(Recent(s)) <= MaxSamples
           /\ Dropped(s) > 0 => Len(Recent(s)) = MaxSamples
           /\ \A i \in 1..Len(Recent(s)) : Recent(s)[i] = s[i + Dropped(s)]
  <1>1. Len(s) \in Nat /\ MaxSamples \in Nat \ {0}
    BY HistoryAssumption, LenProperties
  <1>2. CASE Len(s) <= MaxSamples
    <2>1. Recent(s) = s /\ Dropped(s) = 0
      BY <1>1, <1>2 DEF Recent, Dropped
    <2>2. QED
      BY <1>1, <1>2, <2>1
  <1>3. CASE Len(s) > MaxSamples
    <2> DEFINE d == Len(s) - MaxSamples
    <2>1. d \in Nat /\ d > 0 /\ d < Len(s) /\ Dropped(s) = d
      BY <1>1, <1>3 DEF Dropped
    <2>2. Recent(s) = SubSeq(s, d + 1, Len(s))
      BY <1>1, <2>1 DEF Recent
    <2>3. \A i \in (d + 1)..Len(s) : s[i] \in S
      BY <1>1, <2>1, ElementOfSeq
    <2>4. /\ SubSeq(s, d + 1, Len(s)) \in Seq(S)
          /\ Len(SubSeq(s, d + 1, Len(s))) =
                IF d + 1 <= Len(s) THEN Len(s) - (d + 1) + 1 ELSE 0
          /\ \A i \in 1..(Len(s) - (d + 1) + 1) :
                SubSeq(s, d + 1, Len(s))[i] = s[d + 1 + i - 1]
      <3>1. d + 1 \in Int /\ Len(s) \in Int
        BY <1>1, <2>1
      <3>2. QED
        BY <2>3, <3>1, SubSeqProperties
    <2>5. Len(Recent(s)) = Len(s) - d
      BY <1>1, <2>1, <2>2, <2>4
    <2>6. \A i \in 1..Len(Recent(s)) : Recent(s)[i] = s[i + d]
      BY <1>1, <2>1, <2>2, <2>4, <2>5
    <2>7. QED
      BY <1>1, <2>1, <2>2, <2>4, <2>5, <2>6
  <1>4. QED
    BY <1>1, <1>2, <1>3

\* Counting the rows before a row numbers the rows without a gap.
LEMMA InReadOrderFacts ==
    ASSUME NEW rows \in SUBSET Nat, IsFiniteSet(rows)
    PROVE  LET read == InReadOrder(rows)
           IN  /\ read \in Seq(rows) /\ Len(read) = Cardinality(rows)
               /\ \A i, j \in 1..Len(read) : i < j => read[i] < read[j]
               /\ \A r \in rows : \E i \in 1..Len(read) : read[i] = r
  <1> DEFINE n == Cardinality(rows)
             place == [r \in rows |-> Cardinality(Before(r, rows)) + 1]
             read == InReadOrder(rows)
  <1>1. n \in Nat
    BY FS_CardinalityType
  <1>2. \A r \in rows : /\ Before(r, rows) \subseteq rows
                        /\ r \notin Before(r, rows)
                        /\ IsFiniteSet(Before(r, rows))
                        /\ Cardinality(Before(r, rows)) \in Nat
                        /\ Cardinality(Before(r, rows)) < n
    <2> TAKE r \in rows
    <2>1. Before(r, rows) \subseteq rows /\ r \notin Before(r, rows)
      BY DEF Before, ReadOrder
    <2>2. /\ IsFiniteSet(Before(r, rows))
          /\ Cardinality(Before(r, rows)) <= n
          /\ n = Cardinality(Before(r, rows)) => rows = Before(r, rows)
      BY <2>1, FS_Subset
    <2>3. Cardinality(Before(r, rows)) \in Nat
      BY <2>2, FS_CardinalityType
    <2>4. QED
      BY <1>1, <2>1, <2>2, <2>3
  <1>3. \A r, s \in rows : r < s => place[r] < place[s]
    <2> SUFFICES ASSUME NEW r \in rows, NEW s \in rows, r < s
                 PROVE  place[r] < place[s]
      OBVIOUS
    <2>1. Before(r, rows) \subseteq Before(s, rows)
      <3>1. r \in Nat /\ s \in Nat /\ \A q \in rows : q \in Nat
        OBVIOUS
      <3>2. \A q \in rows : q < r => q < s
        BY <3>1
      <3>3. QED
        BY <3>2 DEF Before, ReadOrder
    <2>2. r \in Before(s, rows) /\ r \notin Before(r, rows)
      BY DEF Before, ReadOrder
    <2>3. /\ Cardinality(Before(r, rows)) <= Cardinality(Before(s, rows))
          /\ Cardinality(Before(s, rows)) = Cardinality(Before(r, rows)) =>
                Before(s, rows) = Before(r, rows)
      BY <1>2, <2>1, FS_Subset
    <2>4. QED
      BY <1>2, <2>2, <2>3
  <1>4. place \in [rows -> 1..n]
    BY <1>1, <1>2
  <1>5. \A r, s \in rows : place[r] = place[s] => r = s
    <2>1. \A r, s \in rows : r < s \/ s < r \/ r = s
      OBVIOUS
    <2>2. \A r \in rows : place[r] \in Nat
      BY <1>1, <1>4
    <2>3. QED
      BY <1>3, <2>1, <2>2
  <1>6. \A r, s \in rows : place[r] < place[s] => r < s
    <2>1. \A r, s \in rows : r < s \/ s < r \/ r = s
      OBVIOUS
    <2>2. \A r \in rows : place[r] \in Nat
      BY <1>1, <1>4
    <2>3. \A r, s \in rows : ~(place[r] < place[s] /\ place[s] < place[r])
      BY <2>2
    <2>4. \A r \in rows : ~(place[r] < place[r])
      BY <2>2
    <2> HIDE DEF place
    <2>5. QED
      BY <1>3, <2>1, <2>3, <2>4
  <1>7. place \in Surjection(rows, 1..n)
    <2>1. place \in Injection(rows, 1..n)
      BY <1>4, <1>5 DEF Injection, IsInjective
    <2>2. IsFiniteSet(1..n) /\ Cardinality(1..n) = n
      <3>1. 1 \in Int /\ n \in Int
        BY <1>1
      <3>2. /\ IsFiniteSet(1..n)
            /\ Cardinality(1..n) = IF 1 > n THEN 0 ELSE n - 1 + 1
        BY <3>1, FS_Interval
      <3>3. QED
        BY <1>1, <3>2
    <2>3. QED
      BY <2>1, <2>2, FS_Injection
  <1>8. \A i \in 1..n : \E r \in rows : Cardinality(Before(r, rows)) = i - 1
    <2> TAKE i \in 1..n
    <2>1. PICK r \in rows : place[r] = i
      BY <1>7 DEF Surjection
    <2>2. Cardinality(Before(r, rows)) = i - 1
      BY <1>2, <2>1
    <2>3. QED
      BY <2>2
  <1>9. read = [i \in 1..n |->
                  CHOOSE r \in rows : Cardinality(Before(r, rows)) = i - 1]
    BY DEF InReadOrder
  <1>10. \A i \in 1..n : read[i] \in rows /\ place[read[i]] = i
    <2> SUFFICES ASSUME NEW i \in 1..n
                 PROVE  read[i] \in rows /\ place[read[i]] = i
      OBVIOUS
    <2>1. read[i] = CHOOSE r \in rows : Cardinality(Before(r, rows)) = i - 1
      BY <1>9
    <2>2. read[i] \in rows /\ Cardinality(Before(read[i], rows)) = i - 1
      BY <1>8, <2>1
    <2>3. QED
      BY <1>2, <2>2
  <1>11. read \in [1..n -> rows]
    <2>1. DOMAIN read = 1..n /\ read = [i \in 1..n |-> read[i]]
      BY <1>9
    <2>2. QED
      BY <1>10, <2>1
  <1>12. read \in Seq(rows) /\ Len(read) = n
    BY <1>1, <1>11
  <1>13. \A i, j \in 1..n : i < j => read[i] < read[j]
    <2> SUFFICES ASSUME NEW i \in 1..n, NEW j \in 1..n, i < j
                 PROVE  read[i] < read[j]
      OBVIOUS
    <2>1. /\ read[i] \in rows /\ read[j] \in rows
          /\ place[read[i]] = i /\ place[read[j]] = j
      BY <1>10
    <2>2. place[read[i]] < place[read[j]]
      BY <2>1
    <2>3. QED
      BY <1>6, <2>1, <2>2
  <1>14. \A r \in rows : \E i \in 1..n : read[i] = r
    <2> TAKE r \in rows
    <2>1. place[r] \in 1..n
      BY <1>4
    <2>2. read[place[r]] \in rows /\ place[read[place[r]]] = place[r]
      BY <1>10, <2>1
    <2>3. read[place[r]] = r
      BY <1>5, <2>2
    <2>4. QED
      BY <2>1, <2>3
  <1>15. QED
    BY <1>12, <1>13, <1>14

-----------------------------------------------------------------------------
(* Days *)

LEMMA DayFacts ==
    ASSUME NEW t \in Nat
    PROVE  /\ Day(t) \in Nat
           /\ DayLength * Day(t) <= t /\ t < DayLength * Day(t) + DayLength
  BY HistoryAssumption DEF Day

LEMMA DayMonotone ==
    ASSUME NEW s \in Nat, NEW t \in Nat, s <= t
    PROVE  Day(s) <= Day(t)
  BY HistoryAssumption DEF Day

LEMMA Times ==
    ASSUME NEW a \in Int, NEW b \in Int, a <= b
    PROVE  a * DayLength <= b * DayLength
  <1>1. \A n \in Nat : n * DayLength >= 0
    BY HistoryAssumption
  <1>2. b - a \in Nat
    OBVIOUS
  <1>3. (b - a) * DayLength = b * DayLength - a * DayLength
    BY HistoryAssumption
  <1>4. QED
    BY <1>1, <1>2, <1>3, HistoryAssumption

\* A day that is not over for Days days is in the window, whatever the hour.
LEMMA RecentDayInWindow ==
    ASSUME NEW r \in Nat, now \in Nat, Day(now) - Day(r) < Days
    PROVE  InWindow(Day(r))
  <1>1. Day(now) \in Nat /\ Day(r) \in Nat /\ Days \in Nat /\ DayLength \in Nat
    BY DayFacts, HistoryAssumption
  <1>2. now < DayLength * Day(now) + DayLength
    BY DayFacts
  <1>3. (Day(now) - Days + 1) * DayLength <= Day(r) * DayLength
    BY <1>1, Times
  <1>4. (Day(now) - Days + 1) * DayLength =
            DayLength * Day(now) - Days * DayLength + DayLength
    BY <1>1
  <1>5. now - Days * DayLength < Day(r) * DayLength
    BY <1>1, <1>2, <1>3, <1>4
  <1>6. QED
    BY <1>5 DEF InWindow

LEMMA WindowIsShort ==
    ASSUME NEW r \in Nat, now \in Nat, InWindow(Day(r))
    PROVE  r > now - Days * DayLength
  BY DayFacts, HistoryAssumption DEF InWindow

-----------------------------------------------------------------------------
(* Taking a sample *)

Oldest(samples) == IF Len(samples) = MaxSamples THEN 1 ELSE 0

LEMMA AddFacts ==
    ASSUME NEW S, NEW s \in Seq(S), Len(s) <= MaxSamples, NEW t \in S
    PROVE  /\ Add(s, t) \in Seq(S)
           /\ Len(Add(s, t)) = Len(s) + 1 - Oldest(s)
           /\ Len(Add(s, t)) <= MaxSamples
           /\ \A i \in 1..(Len(s) - Oldest(s)) : Add(s, t)[i] = s[i + Oldest(s)]
           /\ Add(s, t)[Len(Add(s, t))] = t
  <1> DEFINE a == Append(s, t)
  <1>1. /\ a \in Seq(S) /\ Len(a) = Len(s) + 1 /\ Len(s) \in Nat
        /\ \A i \in 1..Len(s) : a[i] = s[i]
        /\ a[Len(s) + 1] = t
    OBVIOUS
  <1>2. MaxSamples \in Nat \ {0}
    BY HistoryAssumption
  <1>3. Dropped(a) = Oldest(s)
    BY <1>1, <1>2 DEF Dropped, Oldest
  <1>4. Add(s, t) = Recent(a)
    BY DEF Add
  <1> HIDE DEF a
  <1>5. /\ Recent(a) \in Seq(S)
        /\ Len(Recent(a)) = Len(a) - Dropped(a)
        /\ Len(Recent(a)) <= MaxSamples
        /\ \A i \in 1..Len(Recent(a)) : Recent(a)[i] = a[i + Dropped(a)]
    BY <1>1, RecentFacts
  <1>6. Oldest(s) \in {0, 1} /\ Len(s) - Oldest(s) \in Nat
    BY <1>1, <1>2 DEF Oldest
  <1>7. Len(Add(s, t)) = Len(s) + 1 - Oldest(s)
    BY <1>1, <1>3, <1>4, <1>5, <1>6
  <1>8. \A i \in 1..(Len(s) - Oldest(s)) : Add(s, t)[i] = s[i + Oldest(s)]
    <2> TAKE i \in 1..(Len(s) - Oldest(s))
    <2>1. i \in 1..Len(Recent(a)) /\ i + Oldest(s) \in 1..Len(s)
      BY <1>1, <1>4, <1>6, <1>7
    <2>2. QED
      BY <1>1, <1>3, <1>4, <1>5, <2>1
  <1>9. Add(s, t)[Len(Add(s, t))] = t
    <2>1. Len(Add(s, t)) \in 1..Len(Recent(a))
      BY <1>1, <1>4, <1>6, <1>7
    <2>2. Len(Add(s, t)) + Oldest(s) = Len(s) + 1
      BY <1>1, <1>6, <1>7
    <2>3. QED
      BY <1>1, <1>3, <1>4, <1>5, <2>1, <2>2
  <1>10. QED
    BY <1>4, <1>5, <1>7, <1>8, <1>9

LEMMA AddOrdered ==
    ASSUME NEW s \in Seq(Nat), Len(s) <= MaxSamples, NEW t \in Nat,
           Ordered(s), \A i \in 1..Len(s) : s[i] < t
    PROVE  Ordered(Add(s, t))
  <1> DEFINE o == Oldest(s)
             b == Add(s, t)
  <1>1. /\ Len(b) = Len(s) + 1 - o
        /\ \A i \in 1..(Len(s) - o) : b[i] = s[i + o]
        /\ b[Len(b)] = t
    BY AddFacts
  <1>2. o \in {0, 1} /\ Len(s) \in Nat
    BY DEF Oldest
  <1> HIDE DEF o, b
  <1>3. SUFFICES ASSUME NEW i \in 1..Len(b), NEW j \in 1..Len(b), i < j
                 PROVE  b[i] < b[j]
    BY DEF Ordered, b
  <1>4. i \in 1..(Len(s) - o) /\ b[i] = s[i + o] /\ i + o \in 1..Len(s)
    BY <1>1, <1>2, <1>3
  <1>5. CASE j = Len(b)
    BY <1>1, <1>4, <1>5
  <1>6. CASE j # Len(b)
    <2>1. j \in 1..(Len(s) - o) /\ b[j] = s[j + o] /\ j + o \in 1..Len(s)
      <3>1. Len(b) \in Nat /\ j \in 1..Len(b) /\ j # Len(b)
        BY <1>1, <1>2, <1>6
      <3>2. j \in 1..(Len(s) - o)
        BY <1>1, <1>2, <3>1
      <3>3. QED
        BY <1>1, <1>2, <3>2
    <2>2. i + o < j + o
      BY <1>2, <1>3
    <2>3. QED
      BY <1>4, <2>1, <2>2 DEF Ordered
  <1>7. QED
    BY <1>5, <1>6

LEMMA RingTypes ==
    ASSUME HistoryTypeOK
    PROVE  /\ now \in Nat /\ ring \in Seq(Nat) /\ ring \in Seq(0..now)
           /\ Len(ring) \in Nat /\ Len(ring) <= MaxSamples
           /\ MaxSamples \in Nat \ {0}
           /\ \A i \in 1..Len(ring) : ring[i] \in Nat /\ ring[i] <= now
           /\ csv \subseteq Nat /\ \A r \in csv : r <= now
  <1>1. now \in Nat
    BY HistoryAssumption DEF HistoryTypeOK
  <1>2. ring \in Seq(0..now) /\ 0..now \subseteq Nat
    BY <1>1 DEF HistoryTypeOK
  <1>3. ring \in Seq(Nat)
    BY <1>2, SeqMonotonic
  <1>4. \A i \in 1..Len(ring) : ring[i] \in 0..now
    BY <1>2, ElementOfSeq
  <1>5. csv \subseteq 0..now /\ Len(ring) <= MaxSamples
    BY DEF HistoryTypeOK
  <1>6. Len(ring) \in Nat
    BY <1>2, LenProperties
  <1>7. QED
    BY <1>1, <1>2, <1>3, <1>4, <1>5, <1>6, HistoryAssumption

LEMMA AddToEmpty ==
    ASSUME NEW t \in Nat
    PROVE  Add(<<>>, t) = <<t>>
  <1>1. Append(<<>>, t) = <<t>> /\ Len(<<t>>) = 1
    OBVIOUS
  <1>2. Recent(<<t>>) = <<t>>
    <2>1. 1 - MaxSamples <= 0
      BY HistoryAssumption
    <2>2. QED
      BY <1>1, <2>1 DEF Recent
  <1>3. QED
    BY <1>1, <1>2 DEF Add

LEMMA TodayInRange ==
    ASSUME HistoryTypeOK
    PROVE  Day(now) \in 0..Day(Horizon)
  <1>1. now \in Nat /\ Horizon \in Nat /\ now <= Horizon
    BY HistoryAssumption DEF HistoryTypeOK
  <1>2. Day(now) \in Nat /\ Day(Horizon) \in Nat /\ Day(now) <= Day(Horizon)
    BY <1>1, DayFacts, DayMonotone
  <1>3. QED
    BY <1>2

LEMMA LogRows ==
    ASSUME HistoryTypeOK, NEW usable \in BOOLEAN, NEW stored \in BOOLEAN,
           LogTemps(usable, stored)
    PROVE  /\ csv' \subseteq csv \cup (IF usable THEN {now} ELSE {})
           /\ csv' \subseteq 0..now /\ written' \subseteq 0..now
           /\ csvDate' \in {NoDate} \cup 0..Day(Horizon)
  <1> DEFINE kept == IF csvDate = Day(now) THEN csv
                                           ELSE {r \in csv : InWindow(Day(r))}
             row == IF usable /\ stored THEN {now} ELSE {}
  <1>1. kept \subseteq csv
    OBVIOUS
  <1>2. csv' = kept \cup row /\ written' = written \cup row
    BY DEF LogTemps
  <1>3. now \in 0..now
    BY RingTypes
  <1>4. row \subseteq {now} /\ (~usable => row = {})
    OBVIOUS
  <1> HIDE DEF kept, row
  <1>5. csvDate' = Day(now)
    BY DEF LogTemps
  <1>6. QED
    BY <1>1, <1>2, <1>3, <1>4, <1>5, TodayInRange DEF HistoryTypeOK

LEMMA StepLogNothing ==
    ASSUME RingInv, NEW stored \in BOOLEAN, LogTemps(FALSE, stored)
    PROVE  RingInv'
  <1>1. /\ ring' = ring /\ early' = early /\ restored' = restored
        /\ now' = now /\ synced' = synced /\ ~logged /\ logged' = TRUE
    BY DEF LogTemps, RingInv, HistoryTypeOK
  <1>2. HistoryTypeOK
    BY DEF RingInv
  <1>3. csv' \subseteq csv /\ HistoryTypeOK'
    BY <1>1, <1>2, LogRows DEF HistoryTypeOK
  <1>4. LoggedInv' /\ WaitingInv'
    BY <1>1 DEF RingInv, LoggedInv, WaitingInv
  <1>5. RingInOrder'
    BY <1>1 DEF RingInv, RingInOrder
  <1>6. GapInv'
    <2>1. SUFFICES ASSUME MaxSamples >= Days * DayLength, restored = "complete"
                   PROVE  GapInv'
      BY <1>1 DEF GapInv
    <2>2. /\ NoGap /\ FrontInv
          /\ \A i, j \in 2..Len(ring) : i < j => ring[i] < ring[j]
      BY <2>1 DEF RingInv, GapInv
    <2>3. NoGap'
      BY <1>1, <1>3, <2>1, <2>2 DEF NoGap, InWindow
    <2>4. FrontInv'
      BY <1>1, <1>3, <2>2 DEF FrontInv
    <2>5. QED
      BY <1>1, <2>2, <2>3, <2>4 DEF GapInv
  <1>7. QED
    BY <1>3, <1>4, <1>5, <1>6 DEF RingInv

\* A sample taken after the rows were read back leaves no gap: what it
\* overwrites was the oldest, or is in the ring again.
LEMMA AddKeepsGapInv ==
    ASSUME RingInv, now' = now, ~logged,
           MaxSamples >= Days * DayLength, restored = "complete",
           restored' = "complete",
           ring' = Add(ring, now), csv' \subseteq csv \cup {now}
    PROVE  GapInv'
  <1> DEFINE o == Oldest(ring)
  <1>1. /\ now \in Nat /\ Len(ring) \in Nat /\ Len(ring) <= MaxSamples
        /\ MaxSamples \in Nat \ {0}
        /\ \A i \in 1..Len(ring) : ring[i] \in Nat
        /\ csv \subseteq Nat
    BY RingTypes DEF RingInv
  <1>2. /\ Len(ring') = Len(ring) + 1 - o
        /\ \A i \in 1..(Len(ring) - o) : ring'[i] = ring[i + o]
        /\ ring'[Len(ring')] = now
    BY RingTypes, AddFacts DEF RingInv
  <1>3. o \in {0, 1} /\ (o = 1 <=> Len(ring) = MaxSamples)
    BY DEF Oldest
  <1>4. now \notin csv /\ \A i \in 1..Len(ring) : ring[i] < now
    BY DEF RingInv, LoggedInv
  <1>5. /\ NoGap /\ FrontInv
        /\ \A i, j \in 2..Len(ring) : i < j => ring[i] < ring[j]
    BY DEF RingInv, GapInv
  <1> HIDE DEF o
  <1>6. \A j \in 1..Len(ring') :
           \/ j = Len(ring') /\ ring'[j] = now
           \/ j \in 1..(Len(ring) - o) /\ ring'[j] = ring[j + o]
              /\ j + o \in 1..Len(ring) /\ ring'[j] < now
    <2> TAKE j \in 1..Len(ring')
    <2>1. CASE j = Len(ring')
      BY <1>2, <2>1
    <2>2. CASE j # Len(ring')
      <3>1. j \in 1..(Len(ring) - o) /\ j + o \in 1..Len(ring)
        BY <1>1, <1>2, <1>3, <2>2
      <3>2. QED
        BY <1>2, <1>4, <3>1
    <2>3. QED
      BY <2>1, <2>2
  <1>7. \A i, j \in 2..Len(ring') : i < j => ring'[i] < ring'[j]
    <2> SUFFICES ASSUME NEW i \in 2..Len(ring'), NEW j \in 2..Len(ring'), i < j
                 PROVE  ring'[i] < ring'[j]
      OBVIOUS
    <2>1. i \in 1..Len(ring') /\ j \in 1..Len(ring') /\ i # Len(ring')
      BY <1>1, <1>2, <1>3
    <2>2. ring'[i] = ring[i + o] /\ i + o \in 2..Len(ring) /\ ring'[i] < now
      BY <1>3, <1>6, <2>1
    <2>3. CASE j = Len(ring')
      BY <1>2, <2>2, <2>3
    <2>4. CASE j # Len(ring')
      <3>1. ring'[j] = ring[j + o] /\ j + o \in 2..Len(ring)
        BY <1>3, <1>6, <2>1, <2>4
      <3>2. i + o < j + o
        BY <1>3
      <3>3. QED
        BY <1>5, <2>2, <3>1, <3>2
    <2>5. QED
      BY <2>3, <2>4
  <1>8. FrontInv'
    <2>1. CASE o = 1
      <3>1. \A j \in 2..Len(ring') : ring'[1] < ring'[j]
        <4> TAKE j \in 2..Len(ring')
        <4>1. 1 \in 1..Len(ring') /\ 1 # Len(ring') /\ j \in 1..Len(ring')
          BY <1>1, <1>2, <2>1
        <4>2. ring'[1] = ring[2] /\ 2 \in 2..Len(ring) /\ ring'[1] < now
          BY <1>1, <1>2, <1>6, <2>1, <4>1
        <4>3. CASE j = Len(ring')
          BY <1>2, <4>2, <4>3
        <4>4. CASE j # Len(ring')
          <5>1. ring'[j] = ring[j + 1] /\ j + 1 \in 2..Len(ring)
            BY <1>6, <2>1, <4>1, <4>4
          <5>2. QED
            BY <1>5, <4>2, <5>1
        <4>5. QED
          BY <4>3, <4>4
      <3>2. QED
        BY <3>1 DEF FrontInv
    <2>2. CASE o = 0 /\ Len(ring) = 0
      <3>1. \A j \in 2..Len(ring') : FALSE
        BY <1>2, <2>2
      <3>2. QED
        BY <3>1 DEF FrontInv
    <2>3. CASE o = 0 /\ Len(ring) > 0
      <3>1. /\ \A i \in 1..Len(ring) : ring'[i] = ring[i]
            /\ Len(ring') = Len(ring) + 1 /\ ring'[1] = ring[1] /\ ring[1] < now
        BY <1>1, <1>2, <1>4, <2>3
      <3>2. CASE \A j \in 2..Len(ring) : ring[1] < ring[j]
        <4>1. \A j \in 2..Len(ring') : ring'[1] < ring'[j]
          <5> TAKE j \in 2..Len(ring')
          <5>1. j = Len(ring') \/ j \in 2..Len(ring)
            BY <1>1, <3>1
          <5>2. CASE j = Len(ring')
            BY <1>2, <3>1, <5>2
          <5>3. CASE j \in 2..Len(ring)
            <6>1. j \in 1..Len(ring)
              BY <5>3
            <6>2. QED
              BY <3>1, <3>2, <5>3, <6>1
          <5>4. QED
            BY <5>1, <5>2, <5>3
        <4>2. QED
          BY <4>1 DEF FrontInv
      <3>3. CASE ring[1] \in csv => \E j \in 2..Len(ring) : ring[j] = ring[1]
        <4>1. ring'[1] \in csv' => ring[1] \in csv
          BY <1>1, <2>3, <3>1
        <4>2. ASSUME NEW j \in 2..Len(ring), ring[j] = ring[1]
              PROVE  j \in 2..Len(ring') /\ ring'[j] = ring'[1]
          <5>1. j \in 1..Len(ring) /\ j \in 2..Len(ring')
            BY <1>1, <3>1
          <5>2. QED
            BY <3>1, <4>2, <5>1
        <4>3. QED
          BY <3>3, <4>1, <4>2 DEF FrontInv
      <3>4. QED
        BY <1>5, <3>2, <3>3 DEF FrontInv
    <2>4. QED
      BY <1>1, <1>3, <2>1, <2>2, <2>3
  <1>9. NoGap'
    <2>1. SUFFICES ASSUME NEW r \in csv', InWindow(Day(r))
                   PROVE  \/ \E i \in 1..Len(ring') : ring'[i] = r
                          \/ /\ Len(ring') = MaxSamples
                             /\ \A i \in 1..Len(ring') : ring'[i] > r
      BY DEF NoGap, InWindow, Day
    <2>2. CASE r = now
      <3>1. Len(ring') \in 1..Len(ring')
        BY <1>1, <1>2, <1>3
      <3>2. QED
        BY <1>2, <2>2, <3>1
    <2>3. CASE r \in csv
      <3>1. \/ \E i \in 1..Len(ring) : ring[i] = r
            \/ Len(ring) = MaxSamples /\ \A i \in 1..Len(ring) : ring[i] > r
        BY <1>5, <2>1, <2>3 DEF NoGap
      <3>2. ASSUME NEW i \in 1..Len(ring), ring[i] = r, i > o
            PROVE  \E k \in 1..Len(ring') : ring'[k] = r
        <4>1. i - o \in 1..(Len(ring) - o) /\ i - o \in 1..Len(ring')
          BY <1>1, <1>2, <1>3, <3>2
        <4>2. ring'[i - o] = ring[i]
          BY <1>2, <1>3, <4>1
        <4>3. QED
          BY <3>2, <4>1, <4>2
      <3>3. ASSUME o = 1, r < now,
                   \A i \in 2..Len(ring) : ring[i] > r
            PROVE  /\ Len(ring') = MaxSamples
                   /\ \A k \in 1..Len(ring') : ring'[k] > r
        <4>1. Len(ring') = MaxSamples
          BY <1>1, <1>2, <1>3, <3>3
        <4>2. \A k \in 1..Len(ring') : ring'[k] > r
          <5> TAKE k \in 1..Len(ring')
          <5>1. CASE k = Len(ring')
            BY <1>2, <3>3, <5>1
          <5>2. CASE k # Len(ring')
            <6>1. ring'[k] = ring[k + 1] /\ k + 1 \in 2..Len(ring)
              BY <1>6, <3>3, <5>2
            <6>2. QED
              BY <3>3, <6>1
          <5>3. QED
            BY <5>1, <5>2
        <4>3. QED
          BY <4>1, <4>2
      <3>4. CASE Len(ring) = MaxSamples /\ \A i \in 1..Len(ring) : ring[i] > r
        <4>1. o = 1 /\ 1 \in 1..Len(ring) /\ ring[1] > r /\ ring[1] < now
          BY <1>1, <1>3, <1>4, <3>4
        <4>2. r \in Nat /\ r < now
          BY <1>1, <2>3, <4>1
        <4>3. QED
          BY <3>3, <3>4, <4>1, <4>2
      <3>5. ASSUME NEW i \in 1..Len(ring), ring[i] = r, ~(i > o)
            PROVE  \/ \E k \in 1..Len(ring') : ring'[k] = r
                   \/ /\ Len(ring') = MaxSamples
                      /\ \A k \in 1..Len(ring') : ring'[k] > r
        <4>1. o = 1 /\ i = 1 /\ r < now
          BY <1>3, <1>4, <3>5
        <4>2. CASE \A j \in 2..Len(ring) : ring[1] < ring[j]
          <5>1. \A j \in 2..Len(ring) : ring[j] > r
            BY <1>1, <3>5, <4>1, <4>2
          <5>2. QED
            BY <3>3, <4>1, <5>1
        <4>3. CASE \E j \in 2..Len(ring) : ring[j] = ring[1]
          <5>1. PICK j \in 2..Len(ring) : ring[j] = ring[1]
            BY <4>3
          <5>2. j \in 1..Len(ring) /\ ring[j] = r /\ j > o
            BY <3>5, <4>1, <5>1
          <5>3. QED
            BY <3>2, <5>2
        <4>4. QED
          BY <1>5, <2>3, <3>5, <4>1, <4>2, <4>3 DEF FrontInv
      <3>6. QED
        BY <3>1, <3>2, <3>4, <3>5
    <2>4. QED
      BY <2>2, <2>3
  <1>10. QED
    BY <1>7, <1>8, <1>9 DEF GapInv

LEMMA StepLogSample ==
    ASSUME RingInv, NEW stored \in BOOLEAN, LogTemps(TRUE, stored)
    PROVE  RingInv'
  <1>1. /\ ring' = Add(ring, now) /\ early' = (early \/ restored = "waiting")
        /\ restored' = restored /\ now' = now /\ synced' = synced
        /\ synced /\ ~logged /\ logged' = TRUE
    BY DEF LogTemps
  <1>2. HistoryTypeOK
    BY DEF RingInv
  <1>3. /\ now \in Nat /\ now \in 0..now /\ ring \in Seq(0..now)
        /\ ring \in Seq(Nat) /\ Len(ring) <= MaxSamples
    BY <1>2, RingTypes
  <1>4. HistoryTypeOK'
    <2>1. ring' \in Seq(0..now) /\ Len(ring') <= MaxSamples
      BY <1>1, <1>3, AddFacts
    <2>2. /\ csv' \subseteq 0..now /\ written' \subseteq 0..now
          /\ csvDate' \in {NoDate} \cup 0..Day(Horizon)
      BY <1>2, LogRows
    <2>3. QED
      BY <1>1, <1>2, <2>1, <2>2 DEF HistoryTypeOK
  <1>5. LoggedInv'
    BY <1>1 DEF LoggedInv
  <1>6. WaitingInv'
    <2>1. CASE restored = "waiting"
      <3>1. ring = <<>>
        BY <1>1, <2>1 DEF RingInv, WaitingInv
      <3>2. ring' = <<now>>
        BY <1>1, <1>3, <3>1, AddToEmpty
      <3>3. QED
        BY <1>1, <2>1, <3>2 DEF WaitingInv
    <2>2. QED
      BY <1>1, <2>1 DEF WaitingInv
  <1>7. RingInOrder'
    <2>1. SUFFICES ASSUME ~(early' /\ restored \in {"complete", "partly"})
                   PROVE  Ordered(ring')
      BY <1>1 DEF RingInOrder, Ordered
    <2>2. Ordered(ring)
      BY <1>1, <2>1 DEF RingInv, RingInOrder, Ordered
    <2>3. \A i \in 1..Len(ring) : ring[i] < now
      BY <1>1 DEF RingInv, LoggedInv
    <2>4. QED
      BY <1>1, <1>3, <2>2, <2>3, AddOrdered
  <1>8. GapInv'
    <2>1. csv' \subseteq csv \cup {now}
      BY <1>2, LogRows
    <2>2. CASE MaxSamples >= Days * DayLength /\ restored = "complete"
      BY <1>1, <2>1, <2>2, AddKeepsGapInv
    <2>3. QED
      BY <1>1, <2>2 DEF GapInv
  <1>9. QED
    BY <1>4, <1>5, <1>6, <1>7, <1>8 DEF RingInv

-----------------------------------------------------------------------------
(* The other steps *)

LEMMA StepQuiet == RingInv /\ (Sync \/ GiveUp) => RingInv'
  <1> SUFFICES ASSUME RingInv, Sync \/ GiveUp PROVE RingInv'
    OBVIOUS
  <1>1. /\ now' = now /\ csv' = csv /\ written' = written /\ ring' = ring
        /\ early' = early /\ logged' = logged /\ csvDate' = csvDate
        /\ synced' = synced \/ synced' = TRUE
        /\ \/ restored' = restored
           \/ restored' = "never" /\ restored = "waiting"
    <2>1. CASE Sync
      BY <2>1 DEF Sync
    <2>2. CASE GiveUp
      BY <2>2 DEF GiveUp
    <2>3. QED
      BY <2>1, <2>2
  <1>2. HistoryTypeOK'
    BY <1>1 DEF RingInv, HistoryTypeOK
  <1>3. LoggedInv'
    BY <1>1 DEF RingInv, LoggedInv
  <1>4. WaitingInv'
    <2>1. SUFFICES ASSUME restored' = "waiting" PROVE WaitingInv'
      BY DEF WaitingInv
    <2>2. restored = "waiting"
      BY <1>1, <2>1
    <2>3. IF early THEN synced /\ logged /\ ring = <<now>> ELSE ring = <<>>
      BY <2>2 DEF RingInv, WaitingInv
    <2>4. QED
      BY <1>1, <2>3 DEF WaitingInv
  <1>5. RingInOrder'
    BY <1>1 DEF RingInv, RingInOrder
  <1>6. GapInv'
    BY <1>1 DEF RingInv, GapInv, NoGap, FrontInv, InWindow
  <1>7. QED
    BY <1>2, <1>3, <1>4, <1>5, <1>6 DEF RingInv

LEMMA NextInterval ==
    ASSUME HistoryTypeOK, now < Horizon, now' = now + 1
    PROVE  /\ now' \in 0..Horizon /\ 0..now \subseteq 0..now'
           /\ \A t \in 0..now : t < now'
           /\ \A day \in Nat : InWindow(day)' => InWindow(day)
  <1>1. now \in Nat /\ Horizon \in Nat /\ Days * DayLength \in Nat
    BY HistoryAssumption DEF HistoryTypeOK
  <1>2. \A day \in Nat : day * DayLength \in Nat
    BY HistoryAssumption
  <1>3. \A day \in Nat : InWindow(day)' => InWindow(day)
    BY <1>1, <1>2 DEF InWindow
  <1>4. QED
    BY <1>1, <1>3

LEMMA StepHistoryTick == RingInv /\ HistoryTick => RingInv'
  <1> SUFFICES ASSUME RingInv, HistoryTick PROVE RingInv'
    OBVIOUS
  <1>1. /\ now < Horizon /\ now' = now + 1 /\ logged' = FALSE
        /\ synced' = synced /\ csv' = csv /\ ring' = ring
        /\ restored' = restored /\ csvDate' = csvDate /\ written' = written
        /\ early' = early /\ ~(restored = "waiting" /\ synced)
    BY DEF HistoryTick
  <1>2. HistoryTypeOK
    BY DEF RingInv
  <1>3. /\ now' \in 0..Horizon /\ 0..now \subseteq 0..now'
        /\ \A t \in 0..now : t < now'
        /\ \A day \in Nat : InWindow(day)' => InWindow(day)
    BY <1>1, <1>2, NextInterval
  <1>4. HistoryTypeOK'
    <2>1. ring' \in Seq(0..now')
      BY <1>1, <1>3, RingTypes, <1>2, SeqMonotonic
    <2>2. QED
      BY <1>1, <1>2, <1>3, <2>1 DEF HistoryTypeOK
  <1>5. LoggedInv'
    <2>1. \A i \in 1..Len(ring) : ring[i] \in 0..now
      BY <1>2, RingTypes, ElementOfSeq
    <2>2. now' \notin csv
      <3>1. csv \subseteq 0..now
        BY <1>2 DEF HistoryTypeOK
      <3>2. \A t \in 0..now : t # now'
        BY <1>3, <1>2, RingTypes
      <3>3. QED
        BY <3>1, <3>2
    <2>3. QED
      BY <1>1, <1>3, <2>1, <2>2 DEF LoggedInv
  <1>6. WaitingInv'
    BY <1>1 DEF RingInv, WaitingInv
  <1>7. RingInOrder'
    BY <1>1 DEF RingInv, RingInOrder
  <1>8. GapInv'
    <2>1. \A r \in csv : InWindow(Day(r))' => InWindow(Day(r))
      <3>1. \A r \in csv : Day(r) \in Nat
        BY <1>2, RingTypes, DayFacts
      <3>2. QED
        BY <1>3, <3>1 DEF InWindow
    <2>2. NoGap => NoGap'
      BY <1>1, <2>1 DEF NoGap, InWindow, Day
    <2>3. FrontInv' <=> FrontInv
      BY <1>1 DEF FrontInv
    <2>4. QED
      BY <1>1, <2>2, <2>3 DEF RingInv, GapInv
  <1>9. QED
    BY <1>4, <1>5, <1>6, <1>7, <1>8 DEF RingInv

LEMMA StepHistoryRestart == RingInv /\ HistoryRestart => RingInv'
  <1> SUFFICES ASSUME RingInv, HistoryRestart PROVE RingInv'
    OBVIOUS
  <1>1. /\ now < Horizon /\ now' = now + 1 /\ logged' = FALSE
        /\ synced' \in {synced, FALSE} /\ csv' = csv /\ ring' = <<>>
        /\ restored' = "waiting" /\ csvDate' = NoDate /\ written' = written
        /\ early' = FALSE
    BY DEF HistoryRestart
  <1>2. HistoryTypeOK
    BY DEF RingInv
  <1>3. /\ now' \in 0..Horizon /\ 0..now \subseteq 0..now'
        /\ \A t \in 0..now : t < now'
    BY <1>1, <1>2, NextInterval
  <1>4. <<>> \in Seq(0..now') /\ Len(<<>>) = 0 /\ 0 <= MaxSamples
    BY HistoryAssumption, EmptySeq
  <1>5. HistoryTypeOK'
    BY <1>1, <1>2, <1>3, <1>4 DEF HistoryTypeOK
  <1>6. LoggedInv'
    <2>1. csv \subseteq 0..now
      BY <1>2 DEF HistoryTypeOK
    <2>2. \A t \in 0..now : t # now'
      BY <1>3, <1>2, RingTypes
    <2>3. now' \notin csv
      BY <2>1, <2>2
    <2>4. QED
      BY <1>1, <1>4, <2>3 DEF LoggedInv
  <1>7. WaitingInv'
    BY <1>1 DEF WaitingInv
  <1>8. RingInOrder'
    BY <1>1, <1>4 DEF RingInOrder
  <1>9. GapInv'
    BY <1>1 DEF GapInv
  <1>10. QED
    BY <1>5, <1>6, <1>7, <1>8, <1>9 DEF RingInv

LEMMA PrefixFacts ==
    ASSUME NEW S, NEW s \in Seq(S), NEW n \in 0..Len(s)
    PROVE  /\ SubSeq(s, 1, n) \in Seq(S) /\ Len(SubSeq(s, 1, n)) = n
           /\ \A i \in 1..n : SubSeq(s, 1, n)[i] = s[i]
  <1> DEFINE q == SubSeq(s, 1, n)
  <1>1. Len(s) \in Nat /\ n \in Nat /\ \A i \in 1..n : s[i] \in S
    BY LenProperties, ElementOfSeq
  <1>2. /\ q \in Seq(S) /\ Len(q) = IF 1 <= n THEN n - 1 + 1 ELSE 0
        /\ \A i \in 1..(n - 1 + 1) : q[i] = s[1 + i - 1]
    <2>1. 1 \in Int /\ n \in Int
      BY <1>1
    <2>2. QED
      BY <1>1, <2>1, SubSeqProperties
  <1> HIDE DEF q
  <1>3. Len(q) = n /\ \A i \in 1..n : q[i] = s[i]
    BY <1>1, <1>2
  <1>4. QED
    BY <1>2, <1>3 DEF q

LEMMA ConcatFacts ==
    ASSUME NEW S, NEW s \in Seq(S), NEW t \in Seq(S)
    PROVE  /\ s \o t \in Seq(S) /\ Len(s \o t) = Len(s) + Len(t)
           /\ \A i \in 1..Len(s) : (s \o t)[i] = s[i]
           /\ \A i \in 1..Len(t) : (s \o t)[i + Len(s)] = t[i]
  <1> DEFINE c == s \o t
  <1>1. /\ c \in Seq(S) /\ Len(c) = Len(s) + Len(t)
        /\ \A i \in 1..Len(s) + Len(t) :
              c[i] = IF i <= Len(s) THEN s[i] ELSE t[i - Len(s)]
    BY ConcatProperties
  <1>2. Len(s) \in Nat /\ Len(t) \in Nat
    BY LenProperties
  <1> HIDE DEF c
  <1>3. \A i \in 1..Len(s) : c[i] = s[i]
    BY <1>1, <1>2
  <1>4. \A i \in 1..Len(t) : c[i + Len(s)] = t[i]
    <2> TAKE i \in 1..Len(t)
    <2>1. /\ i + Len(s) \in 1..Len(s) + Len(t) /\ ~(i + Len(s) <= Len(s))
          /\ i + Len(s) - Len(s) = i
      BY <1>2
    <2>2. c[i + Len(s)] = t[i + Len(s) - Len(s)]
      BY <1>1, <2>1
    <2>3. QED
      BY <2>1, <2>2
  <1>5. QED
    BY <1>1, <1>3, <1>4 DEF c

\* Reading back starts with the ring as WaitingInv has it, so the ring becomes
\* the rows that were read, with that one sample in front while it fits.
LEMMA BackfillRing ==
    ASSUME NEW rows \in SUBSET (0..now), now \in Nat, ring \in Seq(0..now),
           IF early THEN ring = <<now>> ELSE ring = <<>>,
           NEW first,
           first = SubSeq(InReadOrder(rows), 1,
                          Least(Len(InReadOrder(rows)), RowLimit)),
           ring' = Recent(ring \o first)
    PROVE  /\ ring' \in Seq(0..now) /\ Len(ring') <= MaxSamples
           /\ ~early => /\ Ordered(ring')
                        /\ \A i \in 1..Len(ring') : ring'[i] \in rows
           /\ Cardinality(rows) <= MaxSamples =>
                 /\ \A r \in rows : \E i \in 1..Len(ring') : ring'[i] = r
                 /\ \A i, j \in 2..Len(ring') : i < j => ring'[i] < ring'[j]
                 /\ \/ Ordered(ring')
                    \/ /\ ring'[1] = now
                       /\ now \in rows => \E j \in 2..Len(ring') : ring'[j] = now
  <1> DEFINE read == InReadOrder(rows)
             c == ring \o first
             front == IF early THEN 1 ELSE 0
  <1>1. IsFiniteSet(rows) /\ rows \subseteq Nat /\ Cardinality(rows) \in Nat
    <2>1. rows \in SUBSET Nat /\ \A r \in rows : r <= now
      OBVIOUS
    <2>2. IsFiniteSet(rows)
      BY <2>1, FS_BoundedSetOfNaturals
    <2>3. QED
      BY <2>1, <2>2, FS_CardinalityType
  <1>2. /\ read \in Seq(rows) /\ Len(read) = Cardinality(rows)
        /\ \A i, j \in 1..Len(read) : i < j => read[i] < read[j]
        /\ \A r \in rows : \E i \in 1..Len(read) : read[i] = r
    BY <1>1, InReadOrderFacts
  <1> DEFINE n == Least(Len(read), RowLimit)
  <1>3. n \in Nat /\ n <= Len(read) /\ n <= MaxSamples /\ Len(read) \in Nat
    BY <1>1, <1>2, HistoryAssumption DEF Least, RowLimit
  <1>4. Cardinality(rows) <= MaxSamples => n = Len(read)
    BY <1>2, <1>1, HistoryAssumption DEF Least, RowLimit
  <1> HIDE DEF read, n
  <1>5. /\ first \in Seq(rows) /\ Len(first) = n
        /\ \A i \in 1..n : first[i] = read[i]
    <2>1. first = SubSeq(read, 1, n)
      BY DEF read, n
    <2>2. n \in 0..Len(read)
      BY <1>3
    <2>3. QED
      BY <1>2, <2>1, <2>2, PrefixFacts
  <1>6. first \in Seq(0..now)
    BY <1>5, SeqMonotonic
  <1>7. Len(ring) = front /\ front \in {0, 1} /\ (front = 1 => ring[1] = now)
    OBVIOUS
  <1>8. /\ c \in Seq(0..now) /\ Len(c) = front + n
        /\ front = 1 => c[1] = now
        /\ \A i \in 1..n : c[i + front] = read[i]
    <2>1. /\ c \in Seq(0..now) /\ Len(c) = Len(ring) + Len(first)
          /\ \A i \in 1..Len(ring) : c[i] = ring[i]
          /\ \A i \in 1..Len(first) : c[i + Len(ring)] = first[i]
      BY <1>6, ConcatFacts
    <2> HIDE DEF c, front
    <2>2. Len(c) = front + n
      BY <1>5, <1>7, <2>1
    <2>3. front = 1 => c[1] = now
      <3>1. SUFFICES ASSUME front = 1 PROVE c[1] = now
        OBVIOUS
      <3>2. 1 \in 1..Len(ring) /\ ring[1] = now
        BY <1>7, <3>1
      <3>3. QED
        BY <2>1, <3>2
    <2>4. \A i \in 1..n : c[i + front] = read[i]
      <3> TAKE i \in 1..n
      <3>1. c[i + Len(ring)] = first[i]
        BY <1>5, <2>1
      <3>2. QED
        BY <1>5, <1>7, <3>1
    <2>5. QED
      BY <2>1, <2>2, <2>3, <2>4
  <1> DEFINE d == Dropped(c)
  <1> HIDE DEF c, front
  <1>9. /\ ring' \in Seq(0..now) /\ Len(ring') = Len(c) - d
        /\ Len(ring') <= MaxSamples /\ d \in 0..Len(c)
        /\ \A i \in 1..Len(ring') : ring'[i] = c[i + d]
    BY <1>8, RecentFacts DEF c
  <1>10. d \in {0, 1} /\ d <= front
    BY <1>3, <1>7, <1>8, HistoryAssumption DEF Dropped
  <1> HIDE DEF d
  <1>11. CASE front = d
    <2>1. /\ Len(ring') = n
          /\ \A i \in 1..n : ring'[i] = read[i]
      <3>1. Len(ring') = n
        BY <1>3, <1>7, <1>8, <1>9, <1>11
      <3>2. \A i \in 1..n : ring'[i] = c[i + front] /\ c[i + front] = read[i]
        BY <1>8, <1>9, <1>11, <3>1
      <3>3. QED
        BY <3>1, <3>2
    <2>2. Ordered(ring')
      BY <1>2, <1>3, <2>1 DEF Ordered
    <2>3. \A i, j \in 2..Len(ring') : i < j => ring'[i] < ring'[j]
      <3>1. \A i \in 2..Len(ring') : i \in 1..Len(ring')
        BY <1>3, <2>1
      <3>2. QED
        BY <2>2, <3>1 DEF Ordered
    <2>4. Cardinality(rows) <= MaxSamples =>
              \A r \in rows : \E i \in 1..Len(ring') : ring'[i] = r
      BY <1>2, <1>4, <2>1
    <2>5. \A i \in 1..Len(ring') : ring'[i] \in rows
      BY <1>2, <1>3, <2>1, ElementOfSeq
    <2>6. QED
      BY <1>9, <2>2, <2>3, <2>4, <2>5
  <1>12. CASE front = 1 /\ d = 0
    <2>1. /\ Len(ring') = n + 1 /\ ring'[1] = now
          /\ \A i \in 1..n : i + 1 \in 2..Len(ring') /\ ring'[i + 1] = read[i]
      <3>1. Len(ring') = n + 1 /\ \A i \in 1..Len(ring') : i + d = i
        BY <1>3, <1>8, <1>9, <1>12
      <3>2. \A i \in 1..Len(ring') : ring'[i] = c[i]
        BY <1>9, <3>1
      <3>3. ring'[1] = now
        <4>1. 1 \in 1..Len(ring') /\ c[1] = now
          BY <1>3, <1>8, <1>12, <3>1
        <4>2. QED
          BY <3>2, <4>1
      <3>4. \A i \in 1..n : i + 1 \in 2..Len(ring') /\ i + 1 \in 1..Len(ring')
        BY <1>3, <3>1
      <3>5. \A i \in 1..n : c[i + 1] = read[i]
        BY <1>8, <1>12
      <3>6. QED
        BY <3>1, <3>2, <3>3, <3>4, <3>5
    <2>2. \A i \in 2..Len(ring') : i - 1 \in 1..n /\ ring'[i] = read[i - 1]
      BY <1>3, <2>1
    <2>3. \A i, j \in 2..Len(ring') : i < j => ring'[i] < ring'[j]
      <3> SUFFICES ASSUME NEW i \in 2..Len(ring'), NEW j \in 2..Len(ring'),
                          i < j
                   PROVE  ring'[i] < ring'[j]
        OBVIOUS
      <3>1. i - 1 \in 1..Len(read) /\ j - 1 \in 1..Len(read) /\ i - 1 < j - 1
        BY <1>3, <2>1, <2>2
      <3>2. QED
        BY <1>2, <2>2, <3>1
    <2>4. Cardinality(rows) <= MaxSamples =>
              \A r \in rows : \E j \in 2..Len(ring') : ring'[j] = r
      <3> SUFFICES ASSUME Cardinality(rows) <= MaxSamples, NEW r \in rows
                   PROVE  \E j \in 2..Len(ring') : ring'[j] = r
        OBVIOUS
      <3>1. PICK i \in 1..n : read[i] = r
        BY <1>2, <1>4
      <3>2. i + 1 \in 2..Len(ring') /\ ring'[i + 1] = r
        BY <2>1, <3>1
      <3>3. QED
        BY <3>2
    <2>5. \A j \in 2..Len(ring') : j \in 1..Len(ring')
      BY <1>3, <2>1
    <2>6. early
      BY <1>12 DEF front
    <2>7. QED
      BY <1>9, <2>1, <2>3, <2>4, <2>5, <2>6
  <1>13. QED
    BY <1>7, <1>10, <1>11, <1>12

LEMMA WindowFits ==
    ASSUME now \in Nat, MaxSamples >= Days * DayLength,
           NEW rows \in SUBSET Nat,
           \A r \in rows : r <= now /\ InWindow(Day(r))
    PROVE  Cardinality(rows) <= MaxSamples
  <1> DEFINE first == now - Days * DayLength + 1
  <1>1. /\ first \in Int /\ now - first + 1 = Days * DayLength
        /\ Days * DayLength \in Nat
    BY HistoryAssumption
  <1>2. rows \subseteq first..now
    <2> SUFFICES ASSUME NEW r \in rows PROVE r \in first..now
      OBVIOUS
    <2>1. r \in Nat /\ r <= now /\ r > now - Days * DayLength
      BY WindowIsShort
    <2>2. QED
      BY <1>1, <2>1
  <1>3. IsFiniteSet(first..now) /\ Cardinality(first..now) <= Days * DayLength
    <2> HIDE DEF first
    <2>1. /\ IsFiniteSet(first..now)
          /\ Cardinality(first..now) = IF first > now THEN 0 ELSE now - first + 1
      <3>1. first \in Int /\ now \in Int
        BY <1>1
      <3>2. QED
        BY <3>1, FS_Interval
    <2>2. QED
      BY <1>1, <2>1
  <1>4. Cardinality(rows) <= Cardinality(first..now) /\ IsFiniteSet(rows)
    BY <1>2, <1>3, FS_Subset
  <1>5. Cardinality(rows) \in Nat /\ Cardinality(first..now) \in Nat
    BY <1>3, <1>4, FS_CardinalityType
  <1> HIDE DEF first
  <1>6. QED
    BY <1>1, <1>3, <1>4, <1>5, HistoryAssumption

LEMMA StepBackfill ==
    ASSUME RingInv, NEW unreadable \in SUBSET {Day(r) : r \in csv},
           Backfill(unreadable)
    PROVE  RingInv'
  <1> DEFINE rows == {r \in csv : InWindow(Day(r)) /\ Day(r) \notin unreadable}
             read == InReadOrder(rows)
             first == SubSeq(read, 1, Least(Len(read), RowLimit))
  <1>1. /\ ring' = Recent(ring \o first) /\ restored = "waiting" /\ synced
        /\ restored' = IF unreadable = {} THEN "complete" ELSE "partly"
        /\ now' = now /\ synced' = synced /\ csv' = csv /\ logged' = logged
        /\ csvDate' = csvDate /\ written' = written /\ early' = early
    BY DEF Backfill
  <1>2. HistoryTypeOK
    BY DEF RingInv
  <1>3. now \in Nat /\ ring \in Seq(0..now) /\ rows \in SUBSET (0..now)
    BY <1>2, RingTypes
  <1>4. IF early THEN logged /\ ring = <<now>> ELSE ring = <<>>
    BY <1>1 DEF RingInv, WaitingInv
  <1> HIDE DEF rows
  <1>5. /\ ring' \in Seq(0..now) /\ Len(ring') <= MaxSamples
        /\ ~early => /\ Ordered(ring')
                     /\ \A i \in 1..Len(ring') : ring'[i] \in rows
        /\ Cardinality(rows) <= MaxSamples =>
              /\ \A r \in rows : \E i \in 1..Len(ring') : ring'[i] = r
              /\ \A i, j \in 2..Len(ring') : i < j => ring'[i] < ring'[j]
              /\ \/ Ordered(ring')
                 \/ /\ ring'[1] = now
                    /\ now \in rows => \E j \in 2..Len(ring') : ring'[j] = now
    BY <1>1, <1>3, <1>4, BackfillRing
  <1>6. HistoryTypeOK'
    BY <1>1, <1>2, <1>5 DEF HistoryTypeOK
  <1>7. LoggedInv'
    <2> SUFFICES ASSUME ~logged
                 PROVE  now \notin csv /\ \A i \in 1..Len(ring') : ring'[i] < now
      BY <1>1 DEF LoggedInv
    <2>1. now \notin csv /\ ~early
      BY <1>4 DEF RingInv, LoggedInv
    <2>2. \A r \in rows : r \in Nat /\ r <= now /\ r # now
      BY <1>2, <2>1, RingTypes DEF rows
    <2>3. QED
      BY <1>3, <1>5, <2>1, <2>2
  <1>8. WaitingInv'
    BY <1>1 DEF WaitingInv
  <1>9. RingInOrder'
    BY <1>1, <1>5 DEF RingInOrder, Ordered
  <1>10. GapInv'
    <2> SUFFICES ASSUME MaxSamples >= Days * DayLength, restored' = "complete"
                 PROVE  NoGap' /\ FrontInv' /\ \A i, j \in 2..Len(ring') :
                                               i < j => ring'[i] < ring'[j]
      BY DEF GapInv
    <2>1. unreadable = {}
      BY <1>1
    <2>2. rows = {r \in csv : InWindow(Day(r))}
      BY <2>1 DEF rows
    <2>3. Cardinality(rows) <= MaxSamples
      <3>1. rows \in SUBSET Nat /\ \A r \in rows : r <= now /\ InWindow(Day(r))
        BY <1>2, <2>2, RingTypes
      <3>2. QED
        BY <1>3, <3>1, WindowFits
    <2>4. NoGap'
      BY <1>1, <1>5, <2>2, <2>3 DEF NoGap, InWindow
    <2>5. FrontInv'
      <3>1. CASE Ordered(ring')
        <4>1. ASSUME NEW j \in 2..Len(ring')
              PROVE  ring'[1] < ring'[j]
          <5>1. Len(ring') \in Nat
            BY <1>5, LenProperties
          <5>2. 1 \in 1..Len(ring') /\ j \in 1..Len(ring') /\ 1 < j
            BY <5>1
          <5>3. QED
            BY <3>1, <5>2 DEF Ordered
        <4>2. QED
          BY <4>1 DEF FrontInv
      <3>2. CASE /\ ring'[1] = now
                 /\ now \in rows => \E j \in 2..Len(ring') : ring'[j] = now
        <4>1. now \in csv => now \in rows
          <5>1. Day(now) \in Nat /\ Day(now) - Day(now) < Days
            BY <1>3, DayFacts, HistoryAssumption
          <5>2. InWindow(Day(now))
            BY <1>3, <5>1, RecentDayInWindow
          <5>3. QED
            BY <2>2, <5>2
        <4>2. QED
          BY <1>1, <3>2, <4>1 DEF FrontInv
      <3>3. QED
        BY <1>5, <2>3, <3>1, <3>2
    <2>6. QED
      BY <1>5, <2>3, <2>4, <2>5
  <1>11. QED
    BY <1>6, <1>7, <1>8, <1>9, <1>10 DEF RingInv

LEMMA InitRing == HistoryInit => RingInv
  <1> SUFFICES ASSUME HistoryInit PROVE RingInv
    OBVIOUS
  <1>1. <<>> \in Seq(0..now) /\ Len(<<>>) = 0
    BY EmptySeq
  <1>2. HistoryTypeOK
    <2>1. 0 \in 0..Horizon /\ 0 <= MaxSamples
      BY HistoryAssumption
    <2>2. ring = <<>> /\ now = 0
      BY DEF HistoryInit
    <2>3. ring \in Seq(0..now) /\ Len(ring) <= MaxSamples
      BY <1>1, <2>1, <2>2
    <2>4. QED
      BY <2>1, <2>2, <2>3 DEF HistoryInit, HistoryTypeOK
  <1>3. LoggedInv /\ RingInOrder
    BY <1>1 DEF HistoryInit, LoggedInv, RingInOrder
  <1>4. WaitingInv /\ GapInv
    BY DEF HistoryInit, WaitingInv, GapInv
  <1>5. QED
    BY <1>2, <1>3, <1>4 DEF RingInv

LEMMA StepRing == RingInv /\ [HistoryNext]_historyVars => RingInv'
  <1> SUFFICES ASSUME RingInv, [HistoryNext]_historyVars PROVE RingInv'
    OBVIOUS
  <1>1. CASE Sync \/ GiveUp
    BY <1>1, StepQuiet
  <1>2. CASE HistoryTick
    BY <1>2, StepHistoryTick
  <1>3. CASE HistoryRestart
    BY <1>3, StepHistoryRestart
  <1>4. ASSUME NEW usable \in BOOLEAN, NEW stored \in BOOLEAN,
               LogTemps(usable, stored)
        PROVE  RingInv'
    <2>1. CASE usable
      <3>1. LogTemps(TRUE, stored)
        BY <1>4, <2>1
      <3>2. QED
        BY <3>1, StepLogSample
    <2>2. CASE ~usable
      <3>1. LogTemps(FALSE, stored)
        BY <1>4, <2>2
      <3>2. QED
        BY <3>1, StepLogNothing
    <2>3. QED
      BY <2>1, <2>2
  <1>5. ASSUME NEW unreadable \in SUBSET {Day(r) : r \in csv},
               Backfill(unreadable)
        PROVE  RingInv'
    BY <1>5, StepBackfill
  <1>6. CASE UNCHANGED historyVars
    BY <1>6 DEF historyVars, RingInv, HistoryTypeOK, LoggedInv, WaitingInv,
                RingInOrder, GapInv, NoGap, FrontInv, InWindow
  <1>7. QED
    BY <1>1, <1>2, <1>3, <1>4, <1>5, <1>6 DEF HistoryNext

LEMMA RingInvAlways == HistorySpec => []RingInv
  BY InitRing, StepRing, PTL DEF HistorySpec

\* addSample() and backfillFromSD() keep the ring within MAX_SAMPLES, and every
\* time in it and on the card is one that has passed.
THEOREM HistoryTypeCorrect == HistorySpec => []HistoryTypeOK
  <1>1. RingInv => HistoryTypeOK
    BY DEF RingInv
  <1>2. QED
    BY <1>1, RingInvAlways, PTL

\* For any number of days and restarts, the samples are in the order of their
\* time unless a sample was taken before backfillFromSD() appended older rows.
THEOREM RingAlwaysInOrder == HistorySpec => []RingInOrder
  <1>1. RingInv => RingInOrder
    BY DEF RingInv
  <1>2. QED
    BY <1>1, RingInvAlways, PTL

\* A ring that holds as many samples as the days have, read back from readable
\* files, and the samples since have no gap, however many are overwritten.
THEOREM NeverAGap == HistorySpec => []NoGap
  <1>1. RingInv => NoGap
    BY DEF RingInv, GapInv, NoGap
  <1>2. QED
    BY <1>1, RingInvAlways, PTL

-----------------------------------------------------------------------------
(* The rows on the card *)

\* The removal of old files by onLogTempsCSV() takes no row that is younger
\* than the days to keep, at whatever hour and after whatever restarts it runs.
THEOREM DaysAlwaysKept == HistorySpec => []DaysKept
  <1>1. HistoryInit => DaysKept
    BY DEF HistoryInit, DaysKept
  <1>2. HistoryTypeOK /\ DaysKept /\ [HistoryNext]_historyVars => DaysKept'
    <2> SUFFICES ASSUME HistoryTypeOK, DaysKept, [HistoryNext]_historyVars,
                        NEW r \in written', (Day(now) - Day(r) < Days)'
                 PROVE  r \in csv'
      BY DEF DaysKept
    <2>1. now \in Nat /\ Day(now) \in Nat /\ Days \in Nat
      BY RingTypes, DayFacts, HistoryAssumption
    <2>2. CASE now' = now /\ written' = written /\ csv' = csv
      BY <2>2 DEF DaysKept, Day
    <2>3. CASE HistoryTick \/ HistoryRestart
      <3>1. now' = now + 1 /\ written' = written /\ csv' = csv
        BY <2>3 DEF HistoryTick, HistoryRestart
      <3>2. r \in Nat /\ Day(r) \in Nat
        BY <2>1, <3>1, DayFacts DEF HistoryTypeOK
      <3>3. Day(now + 1) \in Nat /\ Day(now) <= Day(now + 1)
        BY <2>1, DayFacts, DayMonotone
      <3>4. Day(now + 1) - Day(r) < Days
        BY <3>1 DEF Day
      <3>5. Day(now) - Day(r) < Days
        BY <2>1, <3>2, <3>3, <3>4
      <3>6. QED
        BY <3>1, <3>5 DEF DaysKept
    <2>4. ASSUME NEW usable \in BOOLEAN, NEW stored \in BOOLEAN,
                 LogTemps(usable, stored)
          PROVE  r \in csv'
      <3> DEFINE row == IF usable /\ stored THEN {now} ELSE {}
                 kept == IF csvDate = Day(now) THEN csv
                                               ELSE {q \in csv : InWindow(Day(q))}
      <3>1. now' = now /\ written' = written \cup row /\ csv' = kept \cup row
        BY <2>4 DEF LogTemps
      <3>2. Day(now) - Day(r) < Days
        BY <3>1 DEF Day
      <3>3. CASE r \in written
        <4>1. r \in csv /\ r \in Nat
          BY <2>1, <3>2, <3>3 DEF DaysKept, HistoryTypeOK
        <4>2. InWindow(Day(r))
          BY <2>1, <3>2, <4>1, RecentDayInWindow
        <4>3. r \in kept
          BY <4>1, <4>2
        <4>4. QED
          BY <3>1, <4>3
      <3> HIDE DEF row, kept
      <3>4. QED
        BY <3>1, <3>3
    <2>5. CASE Sync \/ GiveUp
      BY <2>2, <2>5 DEF Sync, GiveUp
    <2>6. ASSUME NEW unreadable \in SUBSET {Day(q) : q \in csv},
                 Backfill(unreadable)
          PROVE  r \in csv'
      BY <2>2, <2>6 DEF Backfill
    <2>7. CASE UNCHANGED historyVars
      BY <2>2, <2>7 DEF historyVars
    <2>8. QED
      BY <2>3, <2>4, <2>5, <2>6, <2>7 DEF HistoryNext
  <1>3. QED
    BY <1>1, <1>2, HistoryTypeCorrect, PTL DEF HistorySpec

=============================================================================
