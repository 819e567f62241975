---------------------------- MODULE KronosStore ----------------------------
(***************************************************************************)
(* What KronosEngine promises its callers, without memtables, logs, files  *)
(* or threads: a durable map.  Writes take effect one at a time and in the *)
(* order they were logged; a get() returns a value its key held at some    *)
(* moment between the call and the return; a crash may keep or drop the    *)
(* one write that was never acknowledged, and nothing else.                *)
(***************************************************************************)
EXTENDS Integers

CONSTANTS
    Keys,       \* the keys of the store
    Readers,    \* the threads that call get()
    Values,     \* what a key may hold
    Absent      \* the value of a key that was never put or was removed

VARIABLES
    store,      \* the value of each key
    pending,    \* the write whose caller has no answer yet: a set of at most one
    reads       \* for each reader, its last get(): status, key, possible values

vars == <<store, pending, reads>>

NoRead == [status |-> "idle", key |-> Absent, candidates |-> {}]

Init ==
    /\ store = [k \in Keys |-> Absent]
    /\ pending = {}
    /\ reads = [r \in Readers |-> NoRead]

Stored(w) == [store EXCEPT ![w.key] = w.value]

\* A put or a remove is logged; no reader can see it yet.
Begin(k, v) ==
    /\ pending = {}
    /\ pending' = {[key |-> k, value |-> v]}
    /\ UNCHANGED <<store, reads>>

\* The pending write becomes visible.  A get() in progress on its key may
\* return the old value or the new one.
Commit ==
    \E w \in pending :
        /\ store' = Stored(w)
        /\ pending' = {}
        /\ reads' = [r \in Readers |->
                        IF reads[r].status = "running" /\ reads[r].key = w.key
                            THEN [reads[r] EXCEPT !.candidates = @ \cup {w.value}]
                            ELSE reads[r]]

\* Reader r calls get(k).
Invoke(r, k) ==
    /\ reads[r].status # "running"
    /\ reads' = [reads EXCEPT ![r] = [status |-> "running", key |-> k,
                                      candidates |-> {store[k]}]]
    /\ UNCHANGED <<store, pending>>

\* Reader r gets v, which its key held at some moment of the call.
Return(r, v) ==
    /\ reads[r].status = "running"
    /\ v \in reads[r].candidates
    /\ reads' = [reads EXCEPT ![r].status = "returned", ![r].candidates = {v}]
    /\ UNCHANGED <<store, pending>>

\* The process stops: the calls in progress are gone and the unacknowledged
\* write may or may not have been made durable.
Crash ==
    /\ store' \in {store} \cup {Stored(w) : w \in pending}
    /\ pending' = {}
    /\ reads' = [r \in Readers |-> NoRead]

Next ==
    \/ \E k \in Keys, v \in Values \cup {Absent} : Begin(k, v)
    \/ Commit
    \/ \E r \in Readers, k \in Keys : Invoke(r, k)
    \/ \E r \in Readers, v \in Values \cup {Absent} : Return(r, v)
    \/ Crash

Spec == Init /\ [][Next]_vars
=============================================================================
