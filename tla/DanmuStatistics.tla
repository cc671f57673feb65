--------------------------- MODULE DanmuStatistics ---------------------------
(***************************************************************************)
(* StatisticsAggregator of src/crates/platforms/src/danmaku/statistics.rs: *)
(* the message counters, a TalkerHeavyHitters keyed by user id, a          *)
(* WordHeavyHitters with a CountMinSketch keyed by word, and the rate      *)
(* series (closed buckets plus the open bucket).  The two tables are       *)
(* instances of HeavyHitters.                                              *)
(*                                                                         *)
(* A message's content is given as the tokens split and lowercased by     *)
(* process_words; a token in StopTokens stands for a stop word or a token  *)
(* shorter than two bytes, which process_words skips.  Timestamps are     *)
(* whole seconds.  with_config's capacities (8 x max_top_talkers,          *)
(* 4 x max_words) and retention cap (max(21600 / bucket, 60)) are scaled   *)
(* down to the constants below.                                            *)
(***************************************************************************)
EXTENDS Integers, FiniteSets, SequencesExt

CONSTANTS
    Users, Words, StopTokens,   \* user ids, words, skipped tokens
    MaxTokens,                  \* tokens per message
    TalkerCapacity, WordCapacity,
    MaxTopTalkers, MaxWords,    \* n of the two top_n calls
    Rows, Cells,                \* CountMinSketch depth and width
    BucketDuration,             \* bucket_duration_secs
    MaxRatePoints,              \* max_rate_points
    Times,                      \* message and end timestamps
    MaxMsgs,                    \* bound on all messages recorded
    Monotonic                   \* do message timestamps never go back?

ASSUME /\ Users \subseteq Nat /\ Words \subseteq Nat
       /\ StopTokens \cap Words = {}
       /\ BucketDuration \in Nat \ {0} /\ MaxRatePoints \in Nat
       /\ Times \subseteq Nat /\ Monotonic \in BOOLEAN

NoTime == -1

VARIABLES
    totalCount, chatCount, giftCount,
    talker, words,  \* the two heavy-hitter tables
    hash,           \* the sketch's hash functions
    rate,           \* [data |-> closed buckets, cur |-> <<>> or <<open>>]
    startTime,      \* start_time, NoTime for None
    talkerTruth, wordTruth, \* ghosts: true counts per user and word
    seen,           \* ghost: messages recorded per bucket start
    lastTs,         \* ghost: the latest timestamp recorded
    recorded,       \* ghost: messages recorded by all aggregators so far
    out,            \* the last DanmuStatistics finalize/checkpoint returned
    consumed        \* finalize consumed the aggregator

vars == <<totalCount, chatCount, giftCount, talker, words, hash, rate,
          startTime, talkerTruth, wordTruth, seen, lastTs, recorded, out, consumed>>

T == INSTANCE HeavyHitters
       WITH Keys <- Users, Capacity <- TalkerCapacity, UseSketch <- FALSE,
            Rows <- 1, Cells <- 1, TopCount <- MaxTopTalkers,
            hh <- talker, hash <- [r \in 1..1 |-> [u \in Users |-> 1]],
            truth <- talkerTruth

W == INSTANCE HeavyHitters
       WITH Keys <- Words, Capacity <- WordCapacity, UseSketch <- TRUE,
            MaxMsgs <- MaxMsgs * MaxTokens, TopCount <- MaxWords,
            hh <- words, truth <- wordTruth

NoOutput == [total |-> 0]

-----------------------------------------------------------------------------
\* get_bucket_start: floor(timestamp / bucket) * bucket.
GetBucketStart(ts) == (ts \div BucketDuration) * BucketDuration

Buckets == {GetBucketStart(t) : t \in Times}

\* Mutant: the closed bucket is pushed after the trim, not before.
PushTrimSwapped(data, b) ==
    LET kept == IF Len(data) > MaxRatePoints
                THEN SubSeq(data, Len(data) - MaxRatePoints + 1, Len(data))
                ELSE data
    IN  Append(kept, b)

\* push_back then pop_front while over max_rate_points.
PushTrim(data, b) ==
    LET s == Append(data, b)
    IN  IF Len(s) > MaxRatePoints
        THEN SubSeq(s, Len(s) - MaxRatePoints + 1, Len(s)) ELSE s

OpenBucket(b) == <<[start |-> b, count |-> 1]>>

\* update_rate_bucket(timestamp) applied to the rate state r.
UpdateRateBucket(r, ts) ==
    LET b == GetBucketStart(ts)
    IN  CASE r.cur = <<>> -> [r EXCEPT !.cur = OpenBucket(b)]
          [] r.cur[1].start = b -> [r EXCEPT !.cur[1].count = @ + 1]
          [] OTHER -> [data |-> PushTrim(r.data, r.cur[1]),
                       cur  |-> OpenBucket(b)]

\* Mutant: each distinct word of a message is counted once.
ProcessWordsOnce(h, toks) ==
    LET ws == SetToSeq({toks[i] : i \in {j \in DOMAIN toks : toks[j] \in Words}})
    IN  FoldLeft(LAMBDA S, w : UNION {W!Increment(x, w) : x \in S}, {h}, ws)

\* process_words: every surviving token increments the word table, in order.
ProcessWords(h, toks) ==
    FoldLeft(LAMBDA S, w : UNION {W!Increment(x, w) : x \in S}, {h},
             SelectSeq(toks, LAMBDA t : t \in Words))

Occurrences(toks, w) == Cardinality({i \in DOMAIN toks : toks[i] = w})

\* with_config: a fresh aggregator (the sketch's hashes stay those of the build).
Fresh == /\ totalCount' = 0 /\ chatCount' = 0 /\ giftCount' = 0
         /\ talker' = T!EmptyTable /\ words' = W!EmptyTable
         /\ rate' = [data |-> <<>>, cur |-> <<>>]
         /\ startTime' = NoTime
         /\ talkerTruth' = [u \in Users |-> 0]
         /\ wordTruth' = [w \in Words |-> 0]
         /\ seen' = [b \in Buckets |-> 0]

\* finalize(end_time): flush the open bucket, duration, consume both tables.
Finalized(e) ==
    [total    |-> totalCount, chat |-> chatCount, gift |-> giftCount,
     talkers  |-> LET s == T!TopN(talker, MaxTopTalkers)
                  IN  [i \in DOMAIN s |-> <<s[i], T!Score(talker, s[i])>>],
     words    |-> LET s == W!TopN(words, MaxWords)
                  IN  [i \in DOMAIN s |-> <<s[i], W!Score(words, s[i])>>],
     rate     |-> rate.data \o rate.cur,
     duration |-> IF startTime = NoTime THEN 0
                  ELSE IF e - startTime > 0 THEN e - startTime ELSE 0]

\* current_stats: the closed buckets plus the open one, nothing consumed.
CurrentRate == rate.data \o rate.cur

-----------------------------------------------------------------------------
(* Which words share a cell is all that matters of the hashes, and cells  *)
(* are interchangeable within a row: the smallest word goes to cell 1.    *)
HashChoices ==
    {h \in [1..Rows -> [Words -> 1..Cells]] :
        Words # {} => \A r \in 1..Rows : h[r][Min(Words)] = 1}

Init == /\ hash \in HashChoices
        /\ totalCount = 0 /\ chatCount = 0 /\ giftCount = 0
        /\ talker = T!EmptyTable /\ words = W!EmptyTable
        /\ rate = [data |-> <<>>, cur |-> <<>>]
        /\ startTime = NoTime
        /\ talkerTruth = [u \in Users |-> 0]
        /\ wordTruth = [w \in Words |-> 0]
        /\ seen = [b \in Buckets |-> 0] /\ lastTs = NoTime /\ recorded = 0
        /\ out = NoOutput /\ consumed = FALSE

Contents == UNION {[1..n -> Words \cup StopTokens] : n \in 0..MaxTokens}

(* record_message(user_id, _, content, is_gift, timestamp).  Gift content  *)
(* is never tokenized, so a gift is recorded with empty content.          *)
RecordMessage(u, gift, toks, ts) ==
    LET r2 == UpdateRateBucket(rate, ts)
    IN
    /\ ~consumed /\ recorded < MaxMsgs
    /\ Monotonic => ts >= lastTs
    /\ startTime' = IF startTime = NoTime THEN ts ELSE startTime
    /\ totalCount' = totalCount + 1
    /\ IF gift THEN giftCount' = giftCount + 1 /\ UNCHANGED chatCount
               ELSE chatCount' = chatCount + 1 /\ UNCHANGED giftCount
    /\ talker' \in T!Increment(talker, u)
    /\ talkerTruth' = [talkerTruth EXCEPT ![u] = @ + 1]
    /\ words' \in ProcessWords(words, toks)
    /\ wordTruth' = [w \in Words |-> wordTruth[w] + Occurrences(toks, w)]
    /\ rate' = r2
    /\ seen' = [seen EXCEPT ![GetBucketStart(ts)] = @ + 1]
    /\ lastTs' = ts
    /\ recorded' = recorded + 1
    /\ UNCHANGED <<hash, out, consumed>>

\* finalize(end_time) consumes the aggregator.
Finalize(e) == /\ ~consumed
               /\ out' = Finalized(e)
               /\ consumed' = TRUE
               /\ UNCHANGED <<totalCount, chatCount, giftCount, talker, words,
                              hash, rate, startTime, talkerTruth, wordTruth,
                              seen, lastTs, recorded>>

\* checkpoint(end_time): swap in a fresh aggregator, finalize the old one.
Checkpoint(e) == /\ ~consumed
                 /\ out' = Finalized(e)
                 /\ Fresh
                 /\ UNCHANGED <<hash, lastTs, recorded, consumed>>

\* reset(): a fresh aggregator, no output.
Reset == /\ ~consumed
         /\ Fresh
         /\ UNCHANGED <<hash, lastTs, recorded, out, consumed>>

Next == \/ \E u \in Users, toks \in Contents, ts \in Times :
              \/ RecordMessage(u, FALSE, toks, ts)
              \/ toks = <<>> /\ RecordMessage(u, TRUE, toks, ts)
        \/ \E e \in Times : Finalize(e) \/ Checkpoint(e)
        \/ Reset

Spec == Init /\ [][Next]_vars

-----------------------------------------------------------------------------
Bucket == [start : Buckets, count : 1..MaxMsgs]

TypeOK == /\ totalCount \in 0..MaxMsgs
          /\ chatCount + giftCount = totalCount
          /\ T!TypeOK /\ W!TypeOK
          /\ rate.data \in Seq(Bucket) /\ rate.cur \in Seq(Bucket)
          /\ Len(rate.cur) <= 1
          /\ startTime \in Times \cup {NoTime}
          /\ seen \in [Buckets -> 0..MaxMsgs]
          /\ consumed \in BOOLEAN

(* The rate series current_stats reports is exact: every point counts all *)
(* the messages whose timestamps fall in its bucket, a bucket that got     *)
(* messages is either in the series or older than every retained point,   *)
(* and the closed buckets retained are exactly the latest                 *)
(* min(max_rate_points, closed) of them: the retention cap drops the       *)
(* oldest and only as many as it must.  update_rate_bucket, statistics.rs *)
(* 461-485 (push_back then pop_front), given timestamps that never go     *)
(* back.                                                                   *)
RateSeriesExact ==
    LET s == CurrentRate
        closed == {b \in Buckets : seen[b] > 0} \ {p.start : p \in Range(rate.cur)}
    IN  /\ \A i \in DOMAIN s : s[i].count = seen[s[i].start]
        /\ \A b \in Buckets :
              seen[b] > 0 => \/ \E i \in DOMAIN s : s[i].start = b
                             \/ Len(rate.data) = MaxRatePoints
                                /\ MaxRatePoints > 0 /\ b < s[1].start
        /\ Len(rate.data) = Min({MaxRatePoints, Cardinality(closed)})

(* The word table with its sketch never under-counts a word, and the top   *)
(* words reported leave out no word seen more often than the last one    *)
(* (process_words feeding WordHeavyHitters, statistics.rs 232-335,        *)
(* 444-458).                                                               *)
WordCountsSound == W!NeverUnderCount /\ W!TopNSound

(* The rate series is in time order: closed buckets strictly increasing    *)
(* and the open bucket not before them (the StatisticsAggregator invariant *)
(* of the spec, for any timestamps the caller passes).                    *)
RateOrdered ==
    \A i, j \in DOMAIN CurrentRate : i < j => CurrentRate[i].start < CurrentRate[j].start
====
