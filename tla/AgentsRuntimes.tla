--------------------------- MODULE AgentsRuntimes ---------------------------
(* The Agents runtimes of the Workspaces of one process: runtime-registry.ts.

   A Workspace has a marker and snapshots on disk.  Its runtime is loaded by the
   first request that needs it, kept in the registry's map and evicted (drained,
   flushed, dropped) when it is idle, when another load needs its place, when the
   Workspace is removed and at shutdown.  Requests run inside the operation scope
   of their Workspace (operation-scope.ts); the opening of a WebSocket loads
   outside it; the operations of a turn run inside it but never load.

   JavaScript runs one callback at a time: an action is what happens between two
   awaits, and a promise that settles moves all who await it in that step, before
   any other input or output completes.

   A snapshot's content is the number of changes it holds.  How long a runtime has
   been idle, and which idle one is the least recently used, is left open. *)
EXTENDS Naturals, Sequences, FiniteSets

CONSTANTS
  Workspaces,
  Callers,      \* requests, sockets and operations in flight at one time
  MaxLoaded,    \* maxLoadedWorkspaces
  NoWorkspace,
  MaxChanges    \* bound: changes made to a Workspace

ASSUME WorkspacesAssumption == IsFiniteSet(Workspaces) /\ NoWorkspace \notin Workspaces
ASSUME MaxLoadedAssumption == MaxLoaded \in Nat \ {0}
ASSUME MaxChangesAssumption == MaxChanges \in Nat

VARIABLES
  marker,     \* the Workspaces whose module marker is on disk
  disk,       \* the content of the snapshots on disk
  made,       \* history: the changes made to a Workspace
  entry,      \* map
  load,       \* pendingLoads, and how far each has come
  capacity,   \* capacityMutation: the loads that wait to be installed
  turn,       \* the Workspaces with a turn of an Agent running
  scope,      \* workspaceOperations: "absent", "open" or "closing"
  removal,    \* removing, and how far each has come
  call,       \* the callers
  process,    \* "up", the steps of shutdown, "down"
  exitWaits   \* the evictions that shutdown waits for

disks == <<marker, disk, made>>
vars == <<marker, disk, made, entry, load, capacity, turn, scope, removal, call, process, exitWaits>>

Contents == 0 .. MaxChanges

\* An entry of the map.  An eviction goes through "draining" and "flushing";
\* agents says whether the runtime's Agents may still start a turn.
Entries == [state: {"absent", "active", "draining", "flushing", "save-failed"},
            content: Contents, agents: BOOLEAN]
NoEntry == [state |-> "absent", content |-> 0, agents |-> FALSE]

Loads == [phase: {"none", "reading", "queued", "installing", "discarding"},
          content: Contents, victims: SUBSET Workspaces]
NoLoad == [phase |-> "none", content |-> 0, victims |-> {}]
Reading == [phase |-> "reading", content |-> 0, victims |-> {}]

\* holds: the runtime that the caller was given is still the one in the map.
Calls == [pc: {"idle", "marker", "eviction", "load", "working"},
          ws: Workspaces \cup {NoWorkspace},
          kind: {"request", "socket", "operation"}, holds: BOOLEAN]
Idle == [pc |-> "idle", ws |-> NoWorkspace, kind |-> "request", holds |-> FALSE]
Working(w) == [pc |-> "working", ws |-> w, kind |-> "request", holds |-> TRUE]

TypeOK ==
  /\ marker \subseteq Workspaces
  /\ disk \in [Workspaces -> Contents]
  /\ made \in [Workspaces -> Contents]
  /\ entry \in [Workspaces -> Entries]
  /\ load \in [Workspaces -> Loads]
  /\ capacity \in Seq(Workspaces)
  /\ turn \subseteq Workspaces
  /\ scope \in [Workspaces -> {"absent", "open", "closing"}]
  /\ removal \in [Workspaces -> {"none", "operations", "evict", "load", "eviction", "marker"}]
  /\ call \in [Callers -> Calls]
  /\ process \in {"up", "operations", "loads", "evictions", "stopped", "failed", "down"}
  /\ exitWaits \subseteq Workspaces

Init ==
  /\ marker \in SUBSET Workspaces
  /\ disk = [w \in Workspaces |-> 0]
  /\ made = disk
  /\ entry = [w \in Workspaces |-> NoEntry]
  /\ load = [w \in Workspaces |-> NoLoad]
  /\ capacity = <<>>
  /\ turn = {}
  /\ scope = [w \in Workspaces |-> "absent"]
  /\ removal = [w \in Workspaces |-> "none"]
  /\ call = [c \in Callers |-> Idle]
  /\ process = "up"
  /\ exitWaits = {}

-----------------------------------------------------------------------------
Loaded == {w \in Workspaces : entry[w].state # "absent"}
Evicting(w) == entry[w].state \in {"draining", "flushing"}
Closing(w) == process # "up" \/ removal[w] # "none"

\* activeCount of the Workspace's scope: sockets load outside it.
Busy(w) == \E c \in Callers : /\ call[c].ws = w
                              /\ call[c].pc # "idle"
                              /\ call[c].kind # "socket"

Running == process # "down"

\* Mutant: requests do not count as work.
EvictableWithRequests == {w \in Workspaces : entry[w].state = "active" /\ w \notin turn}

\* What evictForCapacity and evictIdle choose from.
Evictable == {w \in Workspaces : entry[w].state = "active" /\ ~Busy(w) /\ w \notin turn}

\* evictOne, up to its await: the Agents close, the runtime drains.
Quiesce(es, ws) == [w \in Workspaces |-> IF w \in ws /\ es[w].state # "absent"
                                           THEN [es[w] EXCEPT !.agents = FALSE] ELSE es[w]]
Evict(ws) == [w \in Workspaces |->
                IF w \in ws /\ entry[w].state \in {"active", "save-failed"}
                  THEN [state |-> "draining", content |-> entry[w].content, agents |-> FALSE] ELSE entry[w]]

\* Those who wait for a load of w, when it ends; a removal goes on or fails with it.
LoadEnds(w, ok) ==
  /\ call' = [c \in Callers |->
       IF call[c].ws = w /\ call[c].pc = "load"
         THEN IF ok /\ call[c].kind = "request" THEN Working(w) ELSE Idle
         ELSE call[c]]
  /\ removal' = IF removal[w] = "load"
                  THEN [removal EXCEPT ![w] = IF ok THEN "evict" ELSE "none"] ELSE removal

\* Mutant: an eviction that fails blocks the line.
StaysInLine(w, ok) == capacity

\* capacityMutation: the load that waited for w gives up its turn when the eviction fails.
LineAfter(w, ok) ==
  IF ~ok /\ \E v \in Workspaces : w \in load[v].victims THEN Tail(capacity) ELSE capacity

\* Those who wait for an eviction of w, when it ends: callers enter getOrLoad again, where
\* they find the Workspace closing or start a load, or fail; a load gets its place or is
\* given up; a removal and a shutdown go on or fail.
EvictionEnds(w, ok) ==
  LET waiters == {c \in Callers : call[c].ws = w /\ call[c].pc = "eviction"}
      again == IF ok /\ ~Closing(w) THEN waiters ELSE {} IN
  /\ call' = [c \in Callers |->
       IF c \in again THEN [call[c] EXCEPT !.pc = "load"]
       ELSE IF c \in waiters THEN Idle
       ELSE IF call[c].ws = w /\ ok THEN [call[c] EXCEPT !.holds = FALSE] ELSE call[c]]
  /\ load' = [v \in Workspaces |->
       IF v = w /\ again # {} THEN Reading
       ELSE IF w \notin load[v].victims THEN load[v]
       ELSE IF ok THEN [load[v] EXCEPT !.victims = @ \ {w}]
       ELSE [phase |-> "discarding", content |-> load[v].content, victims |-> {}]]
  /\ capacity' = LineAfter(w, ok)
  /\ removal' = IF removal[w] = "eviction"
                  THEN [removal EXCEPT ![w] = IF ok THEN "marker" ELSE "none"] ELSE removal
  /\ exitWaits' = exitWaits \ {w}
  /\ process' = IF ~ok /\ w \in exitWaits /\ process = "evictions" THEN "failed" ELSE process

-----------------------------------------------------------------------------
\* Requests

\* withWorkspace, up to its await.  Refused while the Workspace closes.
StartRequest(c, w) ==
  /\ Running /\ call[c].pc = "idle" /\ ~Closing(w) /\ scope[w] # "closing"
  /\ scope' = [scope EXCEPT ![w] = "open"]
  /\ call' = [call EXCEPT ![c] = [pc |-> "marker", ws |-> w, kind |-> "request", holds |-> FALSE]]
  /\ UNCHANGED <<disks, entry, load, capacity, turn, removal, process, exitWaits>>

\* runWorkspaceOperation: an operation of the turn that runs on w's runtime.
StartOperation(c, w) ==
  /\ Running /\ call[c].pc = "idle" /\ w \in turn /\ ~Closing(w) /\ scope[w] # "closing"
  /\ scope' = [scope EXCEPT ![w] = "open"]
  /\ call' = [call EXCEPT ![c] = [pc |-> "marker", ws |-> w, kind |-> "operation", holds |-> TRUE]]
  /\ UNCHANGED <<disks, entry, load, capacity, turn, removal, process, exitWaits>>

\* Mutant: whatever is not active is loaded.
MustLoadUnlessActive(w) == entry[w].state # "active"

MustLoad(w) == entry[w].state = "absent"

\* getOrLoad of w for c, up to its await: refused, the runtime that is there, the end of
\* its eviction, another attempt at an eviction that failed (evictOne refuses it while
\* requests are active, the caller's own included), or a load, in flight or new.
GetOrLoad(c, w, kind) ==
  LET wait(pc) == call' = [call EXCEPT ![c] = [pc |-> pc, ws |-> w, kind |-> kind, holds |-> FALSE]]
      return == call' = [call EXCEPT ![c] = Idle] IN
  \/ Closing(w) /\ return /\ UNCHANGED <<entry, load>>
  \/ /\ ~Closing(w)
     /\ \/ /\ entry[w].state = "active"
           /\ IF kind = "socket" THEN return
              ELSE call' = [call EXCEPT ![c] = Working(w)]
           /\ UNCHANGED <<entry, load>>
        \/ Evicting(w) /\ wait("eviction") /\ UNCHANGED <<entry, load>>
        \/ entry[w].state = "save-failed" /\ Busy(w) /\ return /\ UNCHANGED <<entry, load>>
        \/ /\ entry[w].state = "save-failed" /\ ~Busy(w)
           /\ entry' = Evict({w})
           /\ wait("eviction") /\ UNCHANGED load
        \/ /\ MustLoad(w)
           /\ load' = IF load[w].phase = "none" THEN [load EXCEPT ![w] = Reading] ELSE load
           /\ wait("load") /\ UNCHANGED entry

\* A WebSocket opens: getOrLoad outside the scope.
StartSocket(c, w) ==
  /\ Running /\ call[c].pc = "idle"
  /\ GetOrLoad(c, w, "socket")
  /\ UNCHANGED <<disks, capacity, turn, scope, removal, process, exitWaits>>

\* The marker was read: a request goes on to getOrLoad.
MarkerRead(c) ==
  LET w == call[c].ws IN
  /\ Running /\ call[c].pc = "marker" /\ call[c].kind = "request"
  /\ IF w \in marker THEN GetOrLoad(c, w, "request")
     ELSE call' = [call EXCEPT ![c] = Idle] /\ UNCHANGED <<entry, load>>
  /\ UNCHANGED <<disks, capacity, turn, scope, removal, process, exitWaits>>

\* The marker was read: an operation goes on only on the active runtime it belongs to.
OperationAdmitted(c) ==
  LET w == call[c].ws IN
  /\ Running /\ call[c].pc = "marker" /\ call[c].kind = "operation"
  /\ call' = [call EXCEPT ![c] =
       IF w \in marker /\ call[c].holds /\ entry[w].state = "active"
         THEN [@ EXCEPT !.pc = "working"] ELSE Idle]
  /\ UNCHANGED <<disks, entry, load, capacity, turn, scope, removal, process, exitWaits>>

\* A request or an operation changes the Workspace.
Change(c) ==
  LET w == call[c].ws IN
  /\ Running /\ call[c].pc = "working" /\ made[w] < MaxChanges
  /\ made' = [made EXCEPT ![w] = @ + 1]
  /\ entry' = IF call[c].holds THEN [entry EXCEPT ![w].content = @ + 1] ELSE entry
  /\ UNCHANGED <<marker, disk, load, capacity, turn, scope, removal, call, process, exitWaits>>

\* A request starts a turn, which outlives it; closed Agents start none.
StartTurn(c) ==
  LET w == call[c].ws IN
  /\ Running /\ call[c].pc = "working" /\ call[c].kind = "request"
  /\ call[c].holds /\ entry[w].agents
  /\ turn' = turn \cup {w}
  /\ UNCHANGED <<disks, entry, load, capacity, scope, removal, call, process, exitWaits>>

\* The turn ends, with or without a message.
TurnEnds(w) ==
  /\ Running /\ w \in turn
  /\ turn' = turn \ {w}
  /\ \/ UNCHANGED <<made, entry>>
     \/ /\ made[w] < MaxChanges
        /\ made' = [made EXCEPT ![w] = @ + 1]
        /\ entry' = [entry EXCEPT ![w].content = @ + 1]
  /\ UNCHANGED <<marker, disk, load, capacity, scope, removal, call, process, exitWaits>>

\* The request or operation returns and releases its scope.
End(c) ==
  /\ Running /\ call[c].pc = "working"
  /\ call' = [call EXCEPT ![c] = Idle]
  /\ UNCHANGED <<disks, entry, load, capacity, turn, scope, removal, process, exitWaits>>

-----------------------------------------------------------------------------
\* Loads

\* buildWorkspaceRuntime: no marker, or snapshots it cannot read.
LoadFails(w) ==
  /\ Running /\ load[w].phase = "reading"
  /\ load' = [load EXCEPT ![w] = NoLoad]
  /\ LoadEnds(w, FALSE)
  /\ UNCHANGED <<disks, entry, capacity, turn, scope, process, exitWaits>>

\* buildWorkspaceRuntime: the runtime exists, with what the snapshots held; restoring
\* them may still fail.
LoadBuilt(w) ==
  /\ Running /\ load[w].phase = "reading" /\ w \in marker
  /\ \/ /\ load' = [load EXCEPT ![w] = [phase |-> "queued", content |-> disk[w], victims |-> {}]]
        /\ capacity' = Append(capacity, w)
     \/ /\ load' = [load EXCEPT ![w] = [phase |-> "discarding", content |-> disk[w], victims |-> {}]]
        /\ UNCHANGED capacity
  /\ UNCHANGED <<disks, entry, turn, scope, removal, call, process, exitWaits>>

\* How many runtimes have to go for one more.
Excess == Cardinality(Loaded) + 1 - MaxLoaded

\* evictForCapacity: nobody has to go, or as many idle runtimes as are too many, or there
\* are not enough of them.
EvictForCapacity(w) ==
  /\ Running /\ load[w].phase = "queued"
  /\ \/ /\ Excess <= 0
        /\ load' = [load EXCEPT ![w].phase = "installing"]
        /\ UNCHANGED <<entry, capacity>>
     \/ /\ Excess > 0
        /\ \E victims \in SUBSET Evictable :
             /\ Cardinality(victims) = Excess
             /\ load' = [load EXCEPT ![w] = [phase |-> "installing", content |-> load[w].content,
                                            victims |-> victims]]
             /\ entry' = Evict(victims)
        /\ UNCHANGED capacity
     \/ /\ Excess > 0 /\ Cardinality(Evictable) < Excess
        /\ load' = [load EXCEPT ![w].phase = "discarding"]
        /\ capacity' = Tail(capacity)
        /\ UNCHANGED entry
  /\ UNCHANGED <<disks, turn, scope, removal, call, process, exitWaits>>

\* Mutant: loads do not stand in line for their place.
MakeRoomUnqueued(w) == EvictForCapacity(w)

\* installLoadedEntry: one load at a time looks for a place.
MakeRoom(w) == capacity # <<>> /\ Head(capacity) = w /\ EvictForCapacity(w)

\* installLoadedEntry: its place is free, the runtime enters the map and the load ends.
Install(w) ==
  /\ Running /\ load[w].phase = "installing" /\ load[w].victims = {}
  /\ entry' = [entry EXCEPT ![w] = [state |-> "active", content |-> load[w].content, agents |-> TRUE]]
  /\ load' = [load EXCEPT ![w] = NoLoad]
  /\ capacity' = Tail(capacity)
  /\ LoadEnds(w, TRUE)
  /\ UNCHANGED <<disks, turn, scope, process, exitWaits>>

\* disposeRuntime "discard": the runtime that found no place is closed, unsaved.
Discarded(w) ==
  /\ Running /\ load[w].phase = "discarding"
  /\ load' = [load EXCEPT ![w] = NoLoad]
  /\ LoadEnds(w, FALSE)
  /\ UNCHANGED <<disks, entry, capacity, turn, scope, process, exitWaits>>

-----------------------------------------------------------------------------
\* Evictions

\* evictIdle finds w idle.  The sweep's timer stops before shutdown.
Sweep(w) ==
  /\ Running /\ process = "up" /\ w \in Evictable
  /\ entry' = Evict({w})
  /\ UNCHANGED <<disks, load, capacity, turn, scope, removal, call, process, exitWaits>>

\* Mutant: the runtime is flushed under a running turn.
DrainedAtOnce(w) ==
  /\ Running /\ entry[w].state = "draining"
  /\ entry' = [entry EXCEPT ![w].state = "flushing"]
  /\ UNCHANGED <<disks, load, capacity, turn, scope, removal, call, process, exitWaits>>

\* drainAgents: the turn has ended, or is cancelled after drainMs.
Drained(w) ==
  /\ Running /\ entry[w].state = "draining"
  /\ entry' = [entry EXCEPT ![w].state = "flushing"]
  /\ turn' = turn \ {w}
  /\ UNCHANGED <<disks, load, capacity, scope, removal, call, process, exitWaits>>

\* The rest of disposeRuntime "flush": saved, closed and dropped.
Flushed(w) ==
  /\ Running /\ entry[w].state = "flushing"
  /\ disk' = [disk EXCEPT ![w] = entry[w].content]
  /\ entry' = [entry EXCEPT ![w] = NoEntry]
  /\ EvictionEnds(w, TRUE)
  /\ UNCHANGED <<marker, made, turn, scope>>

\* The save fails, or a close after it: the quiesced runtime stays.
FlushFails(w) ==
  /\ Running /\ entry[w].state = "flushing"
  /\ disk' \in {disk, [disk EXCEPT ![w] = entry[w].content]}
  /\ entry' = [entry EXCEPT ![w].state = "save-failed"]
  /\ EvictionEnds(w, FALSE)
  /\ UNCHANGED <<marker, made, turn, scope>>

-----------------------------------------------------------------------------
\* Provisioning and removal

Provision(w) ==
  /\ Running /\ w \notin marker
  /\ marker' = marker \cup {w}
  /\ UNCHANGED <<disk, made, entry, load, capacity, turn, scope, removal, call, process, exitWaits>>

\* remove: a second call joins the first.  The Agents of a loaded runtime close and the
\* scope takes no more operations.
Remove(w) ==
  /\ Running /\ removal[w] = "none"
  /\ removal' = [removal EXCEPT ![w] = "operations"]
  /\ entry' = Quiesce(entry, {w})
  /\ scope' = IF scope[w] = "absent" THEN scope ELSE [scope EXCEPT ![w] = "closing"]
  /\ UNCHANGED <<disks, load, capacity, turn, call, process, exitWaits>>

RemoveDrained(w) ==
  /\ Running /\ removal[w] = "operations" /\ ~Busy(w)
  /\ removal' = [removal EXCEPT ![w] = "evict"]
  /\ UNCHANGED <<disks, entry, load, capacity, turn, scope, call, process, exitWaits>>

\* evictOne once no load is in flight: nothing to evict; refused; or an eviction, its own
\* or the one under way.
EvictForRemoval(w) ==
  \/ /\ entry[w].state = "absent"
     /\ removal' = [removal EXCEPT ![w] = "marker"]
     /\ UNCHANGED entry
  \/ /\ entry[w].state # "absent"
     /\ IF Busy(w)
          THEN removal' = [removal EXCEPT ![w] = "none"] /\ UNCHANGED entry
          ELSE removal' = [removal EXCEPT ![w] = "eviction"] /\ entry' = Evict({w})

\* Mutant: a load in flight is not waited for.
RemoveEvictsNow(w) ==
  /\ Running /\ removal[w] = "evict"
  /\ EvictForRemoval(w)
  /\ UNCHANGED <<disks, load, capacity, turn, scope, call, process, exitWaits>>

\* evictOne for the removal: first the load in flight.
RemoveEvicts(w) ==
  /\ Running /\ removal[w] = "evict"
  /\ IF load[w].phase = "none" THEN EvictForRemoval(w)
     ELSE removal' = [removal EXCEPT ![w] = "load"] /\ UNCHANGED entry
  /\ UNCHANGED <<disks, load, capacity, turn, scope, call, process, exitWaits>>

\* Mutant: the snapshots stay behind.
RemovedButFiles(w) ==
  /\ Running /\ removal[w] = "marker"
  /\ marker' = marker \ {w}
  /\ made' = [made EXCEPT ![w] = 0]
  /\ scope' = [scope EXCEPT ![w] = "absent"]
  /\ removal' = [removal EXCEPT ![w] = "none"]
  /\ UNCHANGED <<disk, entry, load, capacity, turn, call, process, exitWaits>>

\* moduleState.remove: the files go, and with them the scope.
Removed(w) ==
  /\ Running /\ removal[w] = "marker"
  /\ marker' = marker \ {w}
  /\ disk' = [disk EXCEPT ![w] = 0]
  /\ made' = [made EXCEPT ![w] = 0]
  /\ scope' = [scope EXCEPT ![w] = "absent"]
  /\ removal' = [removal EXCEPT ![w] = "none"]
  /\ UNCHANGED <<entry, load, capacity, turn, call, process, exitWaits>>

\* moduleState.remove fails half-way: the snapshots may be gone, the scope stays closed.
RemoveFails(w) ==
  /\ Running /\ removal[w] = "marker"
  /\ disk' \in {disk, [disk EXCEPT ![w] = 0]}
  /\ made' = [made EXCEPT ![w] = disk'[w]]
  /\ removal' = [removal EXCEPT ![w] = "none"]
  /\ UNCHANGED <<marker, entry, load, capacity, turn, scope, call, process, exitWaits>>

-----------------------------------------------------------------------------
\* Shutdown

\* shuttingDown, the Agents of every loaded runtime and every scope close.
Shutdown ==
  /\ Running /\ process = "up"
  /\ process' = "operations"
  /\ entry' = Quiesce(entry, Workspaces)
  /\ scope' = [w \in Workspaces |-> IF scope[w] = "absent" THEN "absent" ELSE "closing"]
  /\ UNCHANGED <<disks, load, capacity, turn, removal, call, exitWaits>>

ShutdownDrained ==
  /\ Running /\ process = "operations" /\ \A w \in Workspaces : ~Busy(w)
  /\ process' = "loads"
  /\ UNCHANGED <<disks, entry, load, capacity, turn, scope, removal, call, exitWaits>>

\* Every load in flight has settled: evict all that is in the map.
ShutdownEvicts ==
  /\ Running /\ process = "loads" /\ \A w \in Workspaces : load[w].phase = "none"
  /\ process' = "evictions"
  /\ entry' = Evict(Workspaces)
  /\ exitWaits' = Loaded
  /\ UNCHANGED <<disks, load, capacity, turn, scope, removal, call>>

ShutdownDone ==
  /\ Running /\ process = "evictions" /\ exitWaits = {}
  /\ process' = "stopped"
  /\ UNCHANGED <<disks, entry, load, capacity, turn, scope, removal, call, exitWaits>>

\* bootstrap.ts: process.exit, whether shutdown succeeded or not.
Exit ==
  /\ Running /\ process \in {"stopped", "failed"}
  /\ process' = "down"
  /\ UNCHANGED <<disks, entry, load, capacity, turn, scope, removal, call, exitWaits>>

\* A new process finds what is on disk.
Restart ==
  /\ process = "down"
  /\ made' = disk
  /\ entry' = [w \in Workspaces |-> NoEntry]
  /\ load' = [w \in Workspaces |-> NoLoad]
  /\ capacity' = <<>>
  /\ turn' = {}
  /\ scope' = [w \in Workspaces |-> "absent"]
  /\ removal' = [w \in Workspaces |-> "none"]
  /\ call' = [c \in Callers |-> Idle]
  /\ process' = "up"
  /\ exitWaits' = {}
  /\ UNCHANGED <<marker, disk>>

-----------------------------------------------------------------------------
CallStarts(c) == \E w \in Workspaces : StartRequest(c, w) \/ StartOperation(c, w) \/ StartSocket(c, w)
LoadSteps(w) == LoadFails(w) \/ LoadBuilt(w) \/ MakeRoom(w) \/ Install(w) \/ Discarded(w)
EvictionSteps(w) == Drained(w) \/ Flushed(w) \/ FlushFails(w)
RemovalSteps(w) == RemoveDrained(w) \/ RemoveEvicts(w) \/ Removed(w) \/ RemoveFails(w)
ShutdownSteps == ShutdownDrained \/ ShutdownEvicts \/ ShutdownDone \/ Exit

Next ==
  \/ \E c \in Callers : \/ CallStarts(c) \/ MarkerRead(c) \/ OperationAdmitted(c)
                        \/ Change(c) \/ StartTurn(c) \/ End(c)
  \/ \E w \in Workspaces : \/ TurnEnds(w) \/ LoadSteps(w) \/ Sweep(w) \/ EvictionSteps(w)
                           \/ Provision(w) \/ Remove(w) \/ RemovalSteps(w)
  \/ Shutdown \/ ShutdownSteps \/ Restart

Spec == Init /\ [][Next]_vars

-----------------------------------------------------------------------------
\* Properties

\* No more runtimes are loaded than maxLoadedWorkspaces, though loads build side by side
\* (getOrLoad, installLoadedEntry).
WithinCapacity == Cardinality(Loaded) <= MaxLoaded

\* A Workspace never has two runtimes over the same files: none is built while another is
\* loaded, evicted or kept after a failed save (getOrLoad, evictOne).
OneRuntime ==
  \A w \in Workspaces : load[w].phase \in {"queued", "installing", "discarding"} => entry[w].state = "absent"

\* While a request or an operation works, the runtime it was given stays in the map and
\* active: no eviction, removal or shutdown drains it meanwhile (withWorkspace, evictOne).
WorkKeepsRuntime ==
  \A c \in Callers : call[c].pc = "working" => call[c].holds /\ entry[call[c].ws].state = "active"

\* The latest copy of a Workspace, in the map or on disk, holds every change made to it:
\* no load reads what an eviction has yet to write, no turn posts after the flush
\* (getOrLoad, disposeRuntime).
NoChangeLost ==
  process # "down" =>
    \A w \in marker : made[w] = IF entry[w].state = "absent" THEN disk[w] ELSE entry[w].content

\* What was closed stays closed: a removed Workspace has no runtime and none on its way
\* (remove); a shutdown that succeeded leaves none at all and every change on disk.
NothingLeftBehind ==
  /\ \A w \in Workspaces \ marker : /\ entry[w].state = "absent"
                                    /\ load[w].phase \in {"none", "reading"}
  /\ process = "stopped" => \A w \in Workspaces : /\ entry[w].state = "absent"
                                                  /\ load[w].phase = "none"
                                                  /\ w \in marker => disk[w] = made[w]

\* Nobody waits for what is over, and the line for a place in the map moves: each caller,
\* load, removal and shutdown that waits does so for a load or an eviction under way, and
\* at the head of capacityMutation is a load that can go on or waits for its victims.
WaitsAreFounded ==
  /\ \A c \in Callers :
       /\ call[c].pc = "load" => load[call[c].ws].phase # "none"
       /\ call[c].pc = "eviction" => Evicting(call[c].ws)
  /\ \A w \in Workspaces :
       /\ load[w].victims \subseteq {v \in Workspaces : Evicting(v)}
       /\ load[w].phase \in {"queued", "installing"} <=> w \in {capacity[i] : i \in DOMAIN capacity}
       /\ load[w].phase = "installing" => w = Head(capacity)
       /\ removal[w] = "load" => load[w].phase # "none"
       /\ removal[w] = "eviction" => Evicting(w)
  /\ exitWaits \subseteq {v \in Workspaces : Evicting(v)}

\* An exit after a shutdown that failed loses no changes but those whose own save failed.
ExitLosesOnlyFailedSaves ==
  process = "down" => \A w \in marker : entry[w].state = "save-failed" \/ disk[w] = made[w]
=============================================================================
