---------------------------- MODULE HeavyHitters ----------------------------
(***************************************************************************)
(* The Space-Saving heavy-hitter tables of                                 *)
(* src/crates/platforms/src/danmaku/statistics.rs: TalkerHeavyHitters      *)
(* (UseSketch = FALSE) and WordHeavyHitters backed by a CountMinSketch     *)
(* (UseSketch = TRUE).                                                     *)
(*                                                                         *)
(* A table is a function from keys to [count, error]; count = 0 stands for *)
(* a key that is not in the HashMap (a present key always has count >= 1).*)
(* Keys are naturals so that top_n can break ties by key ascending.       *)
(* Which entry a full table evicts among those of minimum count is the     *)
(* HashMap's iteration order, so every choice is explored.  The sketch's   *)
(* hash functions are fixed for a build (DefaultHasher with fixed keys)    *)
(* but unknown, so Init chooses any of them.                               *)
(*                                                                         *)
(* `truth` counts how often each key was really incremented; it is a ghost *)
(* variable against which the tables' guarantees are stated.               *)
(***************************************************************************)
EXTENDS Naturals, FiniteSets, SequencesExt

CONSTANTS
    Keys,       \* user ids or words (naturals)
    Capacity,   \* table capacity (already max(1))
    UseSketch,  \* is a CountMinSketch attached?
    Rows,       \* sketch depth: rows 1..Rows
    Cells,      \* sketch width: cells 1..Cells
    MaxMsgs,    \* bound on the number of increments
    TopCount    \* n of top_n: max_top_talkers or max_words

ASSUME Keys \subseteq Nat /\ Capacity \in Nat \ {0} /\ UseSketch \in BOOLEAN
       /\ Rows \in Nat \ {0} /\ Cells \in Nat \ {0} /\ MaxMsgs \in Nat
       /\ TopCount \in Nat

VARIABLES
    hh,     \* [tbl |-> key -> [count, error], sk |-> row -> cell -> count]
    hash,   \* row -> key -> cell: the seeded hash of each row
    truth   \* key -> how many times it was incremented

vars == <<hh, hash, truth>>

Absent == [count |-> 0, error |-> 0]

EmptyTable == [tbl |-> [k \in Keys |-> Absent],
               sk  |-> [r \in 1..Rows |-> [c \in 1..Cells |-> 0]]]

Monitored(t) == {k \in Keys : t[k].count > 0}

MinCount(t) == Min({t[k].count : k \in Monitored(t)})

-----------------------------------------------------------------------------
(* CountMinSketch::increment and estimate.                                 *)
SketchIncrement(sk, k) ==
    [r \in 1..Rows |-> [sk[r] EXCEPT ![hash[r][k]] = @ + 1]]

Estimate(sk, k) == Min({sk[r][hash[r][k]] : r \in 1..Rows})

\* Mutant: the eviction inserts the new key with the evicted count.
LiftNoIncrement(sk, k, m) ==
    IF UseSketch THEN Max({m, Estimate(sk, k)}) ELSE m

\* The count a key enters a full table with, after evicting count m.
Lift(sk, k, m) ==
    IF UseSketch THEN Max({m + 1, Estimate(sk, k)}) ELSE m + 1

\* Mutant: the evicted count is not kept as the new entry's error.
EntryNoError(sk, k, m) == [count |-> Lift(sk, k, m), error |-> 0]

\* The entry a key enters a full table with, after evicting count m.
Entry(sk, k, m) == [count |-> Lift(sk, k, m), error |-> m]

\* Mutant: an off-by-one in the `len() < capacity` check.
HasRoomOffByOne(t) == Cardinality(Monitored(t)) <= Capacity

HasRoom(t) == Cardinality(Monitored(t)) < Capacity

\* Mutant: the victim is any entry, not one of minimum count.
VictimsAny(t) == Monitored(t)

\* The entries min_by_key may return: any of minimum count.
Victims(t) == {v \in Monitored(t) : t[v].count = MinCount(t)}

(* increment(key): the sketch first, then a hit, an insert into a table    *)
(* with room, or the eviction of a minimum entry.  A set of successors,    *)
(* one per eviction choice.                                                *)
Increment(h, k) ==
    LET sk == IF UseSketch THEN SketchIncrement(h.sk, k) ELSE h.sk
        t  == h.tbl
    IN  IF t[k].count > 0
        THEN {[tbl |-> [t EXCEPT ![k].count = @ + 1], sk |-> sk]}
        ELSE IF HasRoom(t)
        THEN {[tbl |-> [t EXCEPT ![k] = [count |-> 1, error |-> 0]],
               sk  |-> sk]}
        ELSE {[tbl |-> [t EXCEPT ![v] = Absent,
                                 ![k] = Entry(sk, k, t[v].count)],
               sk  |-> sk] : v \in Victims(t)}

(* The effective score of top_n: max(count, estimate) with a sketch.       *)
Score(h, k) ==
    IF UseSketch THEN Max({h.tbl[k].count, Estimate(h.sk, k)})
                 ELSE h.tbl[k].count

(* top_n(n) / into_top_n(n): sort by score descending, then key ascending, *)
(* and truncate.  Keys are distinct, so the error tie-break never decides. *)
TopN(h, n) ==
    LET Before(a, b) == \/ Score(h, a) > Score(h, b)
                        \/ Score(h, a) = Score(h, b) /\ a < b
        s == SetToSortSeq(Monitored(h.tbl), Before)
    IN  SubSeq(s, 1, Min({n, Len(s)}))

-----------------------------------------------------------------------------
Init == /\ hash \in [1..Rows -> [Keys -> 1..Cells]]
        /\ hh = EmptyTable
        /\ truth = [k \in Keys |-> 0]

Messages == MapThenSumSet(LAMBDA k : truth[k], Keys)

\* One call of increment(k); the stream is bounded by MaxMsgs.
Step(k) == /\ Messages < MaxMsgs
           /\ hh' \in Increment(hh, k)
           /\ truth' = [truth EXCEPT ![k] = @ + 1]
           /\ UNCHANGED hash

Next == \E k \in Keys : Step(k)

Spec == Init /\ [][Next]_vars

-----------------------------------------------------------------------------
Counts == 0..MaxMsgs

TypeOK == /\ hh.tbl \in [Keys -> [count : Counts, error : Counts]]
          /\ hh.sk \in [1..Rows -> [1..Cells -> Counts]]
          /\ hash \in [1..Rows -> [Keys -> 1..Cells]]
          /\ Cardinality(Monitored(hh.tbl)) <= Capacity

(* Space-Saving never under-counts: a tracked key's count is at least its  *)
(* true count, and once the table is full a key that is not tracked was    *)
(* seen at most as often as the smallest tracked count (increment's        *)
(* eviction path, statistics.rs 100-116 and 248-269).                      *)
NeverUnderCount ==
    \A k \in Keys :
        \/ k \in Monitored(hh.tbl) /\ truth[k] <= hh.tbl[k].count
        \/ k \notin Monitored(hh.tbl)
           /\ (Cardinality(Monitored(hh.tbl)) = Capacity
                  => truth[k] <= MinCount(hh.tbl))
           /\ (Cardinality(Monitored(hh.tbl)) < Capacity => truth[k] = 0)

(* The over-count of a tracked key is bounded by its error term:           *)
(* count - error <= true count (the Space-Saving guarantee the spec states *)
(* for the HeavyHitters counter entry).                                    *)
OverCountBounded ==
    \A k \in Monitored(hh.tbl) : hh.tbl[k].count - hh.tbl[k].error <= truth[k]

(* Every key seen more than Messages / Capacity times is tracked, so the   *)
(* true heavy hitters are never lost to eviction.                          *)
HeavyKeysTracked ==
    \A k \in Keys : truth[k] * Capacity > Messages => k \in Monitored(hh.tbl)

(* top_n reports no key below its true count, and leaves out no key that   *)
(* was truly seen more often than the last entry it reports               *)
(* (top_n / into_top_n, statistics.rs 119-163 and 288-335).               *)
TopNSound ==
    LET n   == TopCount
        out == TopN(hh, n)
    IN  /\ \A i \in DOMAIN out : truth[out[i]] <= Score(hh, out[i])
        /\ Len(out) = n =>
             \A k \in Keys \ ToSet(out) : truth[k] <= Score(hh, out[n])
====
