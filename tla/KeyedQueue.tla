---------------------------- MODULE KeyedQueue ----------------------------
(* What createKeyedOperations (apps/world/src/core/storage/keyed-operations.ts)
   promises its callers: for each key one line of operations, served in the
   order in which they were asked for, one at a time.  Operations on different
   keys never wait for each other. *)
EXTENDS Naturals, Sequences

CONSTANTS Keys, Calls

VARIABLES line,      \* line[k]: the calls on k not yet finished, oldest first
          serving    \* the calls whose operation is running

vars == <<line, serving>>

Init == /\ line = [k \in Keys |-> <<>>]
        /\ serving = {}

Ask(k, c) == /\ \A j \in Keys : \A i \in 1..Len(line[j]) : line[j][i] # c
             /\ line' = [line EXCEPT ![k] = Append(@, c)]
             /\ UNCHANGED serving

Serve(k) == /\ line[k] # <<>>
            /\ Head(line[k]) \notin serving
            /\ serving' = serving \union {Head(line[k])}
            /\ UNCHANGED line

Leave(k) == /\ line[k] # <<>>
            /\ Head(line[k]) \in serving
            /\ serving' = serving \ {Head(line[k])}
            /\ line' = [line EXCEPT ![k] = Tail(@)]

Next == \E k \in Keys : Serve(k) \/ Leave(k) \/ \E c \in Calls : Ask(k, c)

Spec == Init /\ [][Next]_vars
===========================================================================
