-------------------------- MODULE KeyedOperations --------------------------
(* createKeyedOperations (apps/world/src/core/storage/keyed-operations.ts): the
   promise chain that serialises lifecycle changes for one identity.  World uses
   it for Run lifecycle, Run execution and Run family changes and for loading
   and closing Workspaces.

   A call stands for one promise returned by `run`.  A promise settles when its
   operation has finished, whether it succeeded or threw (the next link catches
   the rejection), and a separate microtask later removes the map entry. *)
EXTENDS Naturals, Sequences

CONSTANTS Keys,      \* identities operations are serialised on
          Calls,     \* promises that `run` may have handed out at one time
          Drainers,  \* callers of `drain`
          NoCall     \* "no entry in the map", "nothing to wait for"

ASSUME NoCallAssumption == NoCall \notin Calls

VARIABLES
  pending,   \* the map: the last promise chained on each key
  status,    \* of each call
  key,       \* the key a call was made on
  previous,  \* the unsettled promise a call is chained on
  line,      \* history: the unfinished calls of each key, in call order
  awaited,   \* the promises a `drain` still waits for
  earlier    \* history: the calls unfinished when the `drain` was called

vars == <<pending, status, key, previous, line, awaited, earlier>>

Statuses == {"idle", "chained", "running", "settled"}
Unfinished(c) == status[c] \in {"chained", "running"}

Init ==
  /\ pending = [k \in Keys |-> NoCall]
  /\ status = [c \in Calls |-> "idle"]
  /\ key \in [Calls -> Keys]
  /\ previous = [c \in Calls |-> NoCall]
  /\ line = [k \in Keys |-> <<>>]
  /\ awaited = [d \in Drainers |-> {}]
  /\ earlier = [d \in Drainers |-> {}]

\* The promise a new call on k has to wait for: none when the map has no entry,
\* or when the entry has settled and its release has not run yet.
Predecessor(k) ==
  IF pending[k] # NoCall /\ Unfinished(pending[k]) THEN pending[k] ELSE NoCall

Run(c, k) ==
  /\ status[c] = "idle"
  /\ status' = [status EXCEPT ![c] = "chained"]
  /\ key' = [key EXCEPT ![c] = k]
  /\ previous' = [previous EXCEPT ![c] = Predecessor(k)]
  /\ pending' = [pending EXCEPT ![k] = c]
  /\ line' = [line EXCEPT ![k] = Append(@, c)]
  /\ UNCHANGED <<awaited, earlier>>

\* previous.catch(() => undefined).then(operation)
Start(c) ==
  /\ status[c] = "chained"
  /\ previous[c] = NoCall
  /\ status' = [status EXCEPT ![c] = "running"]
  /\ UNCHANGED <<pending, key, previous, line, awaited, earlier>>

\* Mutant: no catch on the chain, so a rejected predecessor leaves its followers
\* without an operation to run.
SettleWithoutCatch(c) ==
  /\ status[c] = "running"
  /\ status' = [status EXCEPT ![c] = "settled"]
  /\ \/ previous' = [d \in Calls |-> IF previous[d] = c THEN NoCall ELSE previous[d]]
     \/ UNCHANGED previous
  /\ line' = [line EXCEPT ![key[c]] = Tail(@)]
  /\ awaited' = [d \in Drainers |-> awaited[d] \ {c}]
  /\ earlier' = [d \in Drainers |-> earlier[d] \ {c}]
  /\ UNCHANGED <<pending, key>>

\* The operation returns or throws; every promise chained on it becomes ready.
Settle(c) ==
  /\ status[c] = "running"
  /\ status' = [status EXCEPT ![c] = "settled"]
  /\ previous' = [d \in Calls |-> IF previous[d] = c THEN NoCall ELSE previous[d]]
  /\ line' = [line EXCEPT ![key[c]] = Tail(@)]
  /\ awaited' = [d \in Drainers |-> awaited[d] \ {c}]
  /\ earlier' = [d \in Drainers |-> earlier[d] \ {c}]
  /\ UNCHANGED <<pending, key>>

\* Mutant: the release forgets to compare the entry with its own promise.
ReleaseAlways(c) ==
  /\ status[c] = "settled"
  /\ status' = [status EXCEPT ![c] = "idle"]
  /\ pending' = [pending EXCEPT ![key[c]] = NoCall]
  /\ UNCHANGED <<key, previous, line, awaited, earlier>>

Release(c) ==
  /\ status[c] = "settled"
  /\ status' = [status EXCEPT ![c] = "idle"]
  /\ pending' = IF pending[key[c]] = c THEN [pending EXCEPT ![key[c]] = NoCall]
                                       ELSE pending
  /\ UNCHANGED <<key, previous, line, awaited, earlier>>

\* Mutant: a drain that takes every key, with or without an entry.
DrainEveryKey(d) ==
  /\ awaited[d] = {} /\ earlier[d] = {}
  /\ awaited' = [awaited EXCEPT ![d] = {pending[k] : k \in Keys}]
  /\ earlier' = [earlier EXCEPT ![d] = {c \in Calls : Unfinished(c)}]
  /\ UNCHANGED <<pending, status, key, previous, line>>

\* Promise.allSettled([...pending.values()]): only the last promise of each key.
Drain(d) ==
  /\ awaited[d] = {} /\ earlier[d] = {}
  /\ awaited' = [awaited EXCEPT ![d] =
       {pending[k] : k \in {j \in Keys : Predecessor(j) # NoCall}}]
  /\ earlier' = [earlier EXCEPT ![d] = {c \in Calls : Unfinished(c)}]
  /\ UNCHANGED <<pending, status, key, previous, line>>

Next ==
  \/ \E c \in Calls : Start(c) \/ Settle(c) \/ Release(c)
  \/ \E c \in Calls, k \in Keys : Run(c, k)
  \/ \E d \in Drainers : Drain(d)

Spec == Init /\ [][Next]_vars

\* Promise reactions always run, and every lifecycle operation is assumed to end.
Fairness == \A c \in Calls : WF_vars(Start(c)) /\ WF_vars(Settle(c)) /\ WF_vars(Release(c))

FairSpec == Spec /\ Fairness

-----------------------------------------------------------------------------
(* Every variable keeps its type. *)
TypeOK ==
  /\ pending \in [Keys -> Calls \union {NoCall}]
  /\ status \in [Calls -> Statuses]
  /\ key \in [Calls -> Keys]
  /\ previous \in [Calls -> Calls \union {NoCall}]
  /\ line \in [Keys -> Seq(Calls)]
  /\ awaited \in [Drainers -> SUBSET Calls]
  /\ earlier \in [Drainers -> SUBSET Calls]

(* Two operations on one identity never run at once: the whole of the Run and
   Workspace lifecycle relies on it. *)
MutualExclusion ==
  \A c, d \in Calls :
    status[c] = "running" /\ status[d] = "running" /\ key[c] = key[d] => c = d

(* `drain` waits for the tails only, but once they have settled every operation
   asked for before the drain has finished: shutdown may go on to close Runs. *)
DrainCoversEarlierCalls ==
  \A d \in Drainers : awaited[d] = {} => earlier[d] = {}

(* The chain implements one first-come-first-served line per key. *)
Queue == INSTANCE KeyedQueue WITH serving <- {c \in Calls : status[c] = "running"}
ServedInOrder == Queue!Spec

(* A call is never forgotten behind a predecessor whose entry was replaced. *)
EveryCallFinishes == \A c \in Calls : status[c] = "chained" ~> ~Unfinished(c)
=============================================================================
