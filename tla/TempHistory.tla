---------------------------- MODULE TempHistory -----------------------------
(***************************************************************************)
(* The history of a temperature: rows in a file per day on the card, and a *)
(* ring of samples in memory that the rows fill again after a restart,     *)
(* once the clock is synchronised.  Time is counted in logging intervals;  *)
(* a row or a sample is the time it was taken at.                          *)
(***************************************************************************)
EXTENDS Integers, FiniteSets, Sequences

CONSTANTS
    DayLength,      \* intervals per day
    Days,           \* the days that are kept on the card and read back
    MaxSamples,     \* MAX_SAMPLES, the size of the ring
    Horizon         \* bound on the clock

ASSUME HistoryAssumption ==
    /\ DayLength \in Nat \ {0} /\ Days \in Nat \ {0}
    /\ MaxSamples \in Nat \ {0} /\ Horizon \in Nat

VARIABLES
    now,        \* the time
    synced,     \* whether the clock knows it
    csv,        \* the rows on the card
    ring,       \* the samples in memory
    restored,   \* what became of reading the rows back
    logged,     \* whether tLogTempsCSV ran in this interval
    csvDate,    \* _tempsCsvDate
    written,    \* every row ever stored
    early       \* whether a sample was taken before the rows were read back

historyVars ==
    <<now, synced, csv, ring, restored, logged, csvDate, written, early>>

Day(time) == time \div DayLength
NoDate == -1

HistoryTypeOK ==
    /\ now \in 0..Horizon
    /\ synced \in BOOLEAN /\ logged \in BOOLEAN /\ early \in BOOLEAN
    /\ csv \subseteq 0..now /\ written \subseteq 0..now
    /\ ring \in Seq(0..now) /\ Len(ring) <= MaxSamples
    /\ restored \in {"waiting", "complete", "partly", "never"}
    /\ csvDate \in {NoDate} \cup 0..Day(Horizon)

WrongRecent(samples) == samples

\* What the ring still holds of the samples that were put into it.
Recent(samples) ==
    LET dropped == Len(samples) - MaxSamples
    IN  IF dropped <= 0 THEN samples
                        ELSE SubSeq(samples, dropped + 1, Len(samples))

Add(samples, time) == Recent(Append(samples, time))

WrongInWindow(day) == day * DayLength > now - (Days - 1) * DayLength

\* Files count as a whole, by the midnight they begin at; what is done now is
\* done within an interval, so after the midnight that may begin it.
InWindow(day) == day * DayLength > now - Days * DayLength

-----------------------------------------------------------------------------
\* The first answer of the time server.
Sync ==
    /\ ~synced
    /\ synced' = TRUE
    /\ UNCHANGED <<now, csv, ring, restored, logged, csvDate, written, early>>

\* onLogTempsCSV(): the first run of a day removes old files.  An invalid
\* reading is left out; a row the card refuses still becomes a sample.
LogTemps(usable, stored) ==
    LET kept == IF csvDate = Day(now) THEN csv
                                      ELSE {r \in csv : InWindow(Day(r))}
        row == IF usable /\ stored THEN {now} ELSE {}
    IN  /\ synced /\ ~logged
        /\ logged' = TRUE
        /\ csvDate' = Day(now)
        /\ csv' = kept \cup row
        /\ written' = written \cup row
        /\ ring' = IF usable THEN Add(ring, now) ELSE ring
        /\ early' = (early \/ (usable /\ restored = "waiting"))
        /\ UNCHANGED <<now, synced, restored>>

WrongReadOrder(r, s) ==
    Day(r) > Day(s) \/ (Day(r) = Day(s) /\ r < s)

\* The files by date, the rows as they were appended.
ReadOrder(r, s) == r < s

WrongRowLimit == MaxSamples - 1

RowLimit == MaxSamples

Least(a, b) == IF a < b THEN a ELSE b

Before(r, rows) == {s \in rows : ReadOrder(s, r)}

InReadOrder(rows) ==
    [i \in 1..Cardinality(rows) |->
        CHOOSE r \in rows : Cardinality(Before(r, rows)) = i - 1]

\* backfillFromSD(), from files that can be opened, until it has read as many
\* rows as the ring holds.
Backfill(unreadable) ==
    LET rows == {r \in csv : InWindow(Day(r)) /\ Day(r) \notin unreadable}
        read == InReadOrder(rows)
        first == SubSeq(read, 1, Least(Len(read), RowLimit))
    IN  /\ restored = "waiting" /\ synced
        /\ ring' = Recent(ring \o first)
        /\ restored' = IF unreadable = {} THEN "complete" ELSE "partly"
        /\ UNCHANGED <<now, synced, csv, logged, csvDate, written, early>>

\* The twelfth try without the time was the last.
GiveUp ==
    /\ restored = "waiting" /\ ~synced
    /\ restored' = "never"
    /\ UNCHANGED <<now, synced, csv, ring, logged, csvDate, written, early>>

\* A try comes every five seconds, so not an interval passes with it due.
HistoryTick ==
    /\ now < Horizon
    /\ ~(restored = "waiting" /\ synced)
    /\ now' = now + 1 /\ logged' = FALSE
    /\ UNCHANGED <<synced, csv, ring, restored, csvDate, written, early>>

\* The clock survives a reboot but not a power loss.
HistoryRestart ==
    /\ now < Horizon
    /\ now' = now + 1 /\ logged' = FALSE
    /\ synced' \in {synced, FALSE}
    /\ ring' = <<>> /\ restored' = "waiting"
    /\ csvDate' = NoDate /\ early' = FALSE
    /\ UNCHANGED <<csv, written>>

HistoryInit ==
    /\ now = 0 /\ synced = FALSE /\ logged = FALSE
    /\ csv = {} /\ written = {} /\ ring = <<>>
    /\ restored = "waiting" /\ csvDate = NoDate /\ early = FALSE

HistoryNext ==
    \/ Sync \/ HistoryTick \/ GiveUp \/ HistoryRestart
    \/ \E usable, stored \in BOOLEAN : LogTemps(usable, stored)
    \/ \E unreadable \in SUBSET {Day(r) : r \in csv} : Backfill(unreadable)

HistorySpec == HistoryInit /\ [][HistoryNext]_historyVars

-----------------------------------------------------------------------------
(* Properties *)

\* The samples are in the order of their time, except after rows were read
\* back behind a sample that was already there.
RingInOrder ==
    ~(early /\ restored \in {"complete", "partly"}) =>
        \A i, j \in 1..Len(ring) : i < j => ring[i] < ring[j]

\* Whatever restarts come between, no row of the last days leaves the card.
DaysKept == \A r \in written : Day(now) - Day(r) < Days => r \in csv

\* Where the ring holds as many samples as the days have (as with the default
\* interval), what was read back and what was logged since leave no gap: a row
\* on the card is in the ring unless that is full of newer ones.
NoGap ==
    MaxSamples >= Days * DayLength /\ restored = "complete" =>
        \A r \in csv :
            \/ ~InWindow(Day(r))
            \/ \E i \in 1..Len(ring) : ring[i] = r
            \/ Len(ring) = MaxSamples /\ \A i \in 1..Len(ring) : ring[i] > r

=============================================================================
