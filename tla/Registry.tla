------------------------------- MODULE Registry -------------------------------
(***************************************************************************)
(* What the session registry of the danmu service promises: `collections` *)
(* (session -> CollectionState) and `sessions_by_streamer` change only by  *)
(* whole registrations and whole removals, each an atomic step.  A         *)
(* registration needs the session to be free and points the streamer's    *)
(* reverse entry at it; a removal frees the session and clears the reverse *)
(* entry only when it still names that session.                            *)
(***************************************************************************)
CONSTANTS Sessions, Streamers, Instances, None

VARIABLES
    reg,  \* session -> [inst, streamer] of its CollectionState, or Free
    rev   \* streamer -> the session its reverse entry names, or None

Free == [inst |-> 0, streamer |-> None]

\* start_collection: insert the state and the reverse entry.
Register(s, i, x) ==
    /\ reg[s] = Free
    /\ reg' = [reg EXCEPT ![s] = [inst |-> i, streamer |-> x]]
    /\ rev' = [rev EXCEPT ![x] = s]

\* remove-if-present on any exit path, then the should_remove reconcile.
Unregister(s) ==
    /\ reg[s] # Free
    /\ reg' = [reg EXCEPT ![s] = Free]
    /\ rev' = [rev EXCEPT ![reg[s].streamer] = IF @ = s THEN None ELSE @]

Init == /\ reg = [s \in Sessions |-> Free]
        /\ rev = [x \in Streamers |-> None]

Next == \/ \E s \in Sessions, i \in Instances, x \in Streamers : Register(s, i, x)
        \/ \E s \in Sessions : Unregister(s)

Spec == Init /\ [][Next]_<<reg, rev>>

====
