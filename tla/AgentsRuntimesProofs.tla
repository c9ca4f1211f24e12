------------------------ MODULE AgentsRuntimesProofs ------------------------
(* Theorems about AgentsRuntimes, for any Workspaces, callers, places and changes. *)
EXTENDS AgentsRuntimes, FiniteSetTheorems, TLAPS

-----------------------------------------------------------------------------
\* The inductive invariant

\* A caller that is not idle is about a Workspace; a socket never works.
CallInv ==
  \A c \in Callers :
    /\ call[c].pc # "idle" => call[c].ws \in Workspaces
    /\ call[c].kind = "socket" => call[c].pc \in {"idle", "eviction", "load"}

\* A load is there only while no runtime is, and it holds what is on disk.
LoadInv ==
  \A w \in Workspaces :
    /\ load[w].phase # "none" => entry[w].state = "absent"
    /\ load[w].victims # {} => load[w].phase = "installing"
    /\ load[w].phase \in {"queued", "installing", "discarding"} =>
         load[w].content = disk[w] /\ w \in marker

\* The line for a place: who stands in it, once, and who is served.
LineInv ==
  /\ \A i, j \in DOMAIN capacity : capacity[i] = capacity[j] => i = j
  /\ \A w \in Workspaces :
       /\ load[w].phase \in {"queued", "installing"} <=> w \in {capacity[i] : i \in DOMAIN capacity}
       /\ load[w].phase = "installing" => w = Head(capacity)

\* Who waits does so for a load or an eviction under way.
WaitInv ==
  /\ \A c \in Callers :
       /\ call[c].pc = "load" => load[call[c].ws].phase # "none"
       /\ call[c].pc = "eviction" => Evicting(call[c].ws)
  /\ \A w \in Workspaces :
       /\ \A v \in load[w].victims : Evicting(v)
       /\ removal[w] = "load" => load[w].phase # "none"
       /\ removal[w] = "eviction" => Evicting(w)
  /\ \A v \in exitWaits : Evicting(v)

\* Work keeps its runtime active, and a turn is over before the flush.
WorkInv ==
  /\ WorkKeepsRuntime
  /\ \A w \in turn : entry[w].state \in {"active", "draining"}

\* While a load is installed there is room for it once its victims are gone.
RoomInv ==
  /\ WithinCapacity
  /\ \A w \in Workspaces : load[w].phase = "installing" =>
       Cardinality(Loaded \ load[w].victims) + 1 <= MaxLoaded

\* The latest copy holds every change; without a marker there is no runtime.
DataInv ==
  /\ process # "down" => \A w \in Workspaces :
       made[w] = IF entry[w].state = "absent" THEN disk[w] ELSE entry[w].content
  /\ \A w \in Workspaces \ marker : entry[w].state = "absent"

\* How far removals and a shutdown have come.
CloseInv ==
  /\ \A w \in Workspaces : removal[w] = "marker" => entry[w].state = "absent" /\ load[w].phase = "none"
  /\ process \notin {"up", "operations"} => \A w \in Workspaces : ~Busy(w)
  /\ process \in {"evictions", "stopped", "failed"} => \A w \in Workspaces : load[w].phase = "none"
  /\ process \in {"evictions", "stopped"} =>
       \A w \in Workspaces : entry[w].state # "absent" => w \in exitWaits
  /\ process = "stopped" => exitWaits = {}

IInv == /\ TypeOK /\ CallInv /\ LoadInv /\ LineInv /\ WaitInv
        /\ WorkInv /\ RoomInv /\ DataInv /\ CloseInv

-----------------------------------------------------------------------------
\* What the steps that several actions share do

\* The records the actions write have their types.
LEMMA Records ==
  /\ NoEntry \in Entries /\ NoLoad \in Loads /\ Reading \in Loads /\ Idle \in Calls
  /\ \A w \in Workspaces : Working(w) \in Calls
BY MaxChangesAssumption
   DEF NoEntry, Entries, NoLoad, Reading, Loads, Idle, Working, Calls, Contents

LEMMA Evicts ==
  ASSUME TypeOK, NEW ws, entry' = Evict(ws)
  PROVE  /\ entry' \in [Workspaces -> Entries]
         /\ \A v \in Workspaces :
              /\ entry'[v].content = entry[v].content
              /\ entry'[v].state = IF v \in ws /\ entry[v].state \in {"active", "save-failed"}
                                     THEN "draining" ELSE entry[v].state
<1>1. entry \in [Workspaces -> Entries]
  BY DEF TypeOK
<1>2. \A v \in Workspaces : entry'[v] \in Entries
  BY <1>1 DEF Evict, Entries
<1> QED BY <1>1, <1>2 DEF Evict

LEMMA Quiesces ==
  ASSUME TypeOK, NEW ws, entry' = Quiesce(entry, ws)
  PROVE  /\ entry' \in [Workspaces -> Entries]
         /\ \A v \in Workspaces : /\ entry'[v].content = entry[v].content
                                  /\ entry'[v].state = entry[v].state
<1>1. entry \in [Workspaces -> Entries]
  BY DEF TypeOK
<1>2. \A v \in Workspaces : /\ entry'[v] \in Entries /\ entry'[v].content = entry[v].content
                            /\ entry'[v].state = entry[v].state
  BY <1>1 DEF Quiesce, Entries
<1> QED BY <1>1, <1>2 DEF Quiesce

\* A change is made to a runtime that shows fewer than the bound allows.
LEMMA Changes ==
  ASSUME TypeOK, NEW w \in Workspaces, entry[w].content < MaxChanges,
         entry' = [entry EXCEPT ![w].content = @ + 1]
  PROVE  /\ entry' \in [Workspaces -> Entries]
         /\ entry'[w].content = entry[w].content + 1
         /\ \A v \in Workspaces : /\ entry'[v].state = entry[v].state
                                  /\ v # w => entry'[v].content = entry[v].content
<1>1. entry \in [Workspaces -> Entries] /\ entry[w] \in Entries
  BY DEF TypeOK
<1>2. entry[w].content + 1 \in Contents
  BY <1>1, MaxChangesAssumption DEF Entries, Contents
<1>3. [entry[w] EXCEPT !.content = @ + 1] \in Entries
  BY <1>1, <1>2 DEF Entries
<1>4. entry' = [entry EXCEPT ![w] = [entry[w] EXCEPT !.content = @ + 1]]
  OBVIOUS
<1> QED BY <1>1, <1>3, <1>4 DEF Entries

LEMMA LoadTyped ==
  ASSUME NEW c \in Contents, NEW V \in SUBSET Workspaces,
         NEW p \in {"none", "reading", "queued", "installing", "discarding"}
  PROVE  [phase |-> p, content |-> c, victims |-> V] \in Loads
BY DEF Loads

\* evictForCapacity for the load that is served.
LEMMA MakesRoom ==
  ASSUME TypeOK, LoadInv, NEW w \in Workspaces, MakeRoom(w)
  PROVE  /\ capacity # <<>> /\ Head(capacity) = w
         /\ load[w].phase = "queued" /\ load'[w].content = load[w].content
         /\ load' \in [Workspaces -> Loads] /\ entry' \in [Workspaces -> Entries]
         /\ \A v \in Workspaces : /\ v # w => load'[v] = load[v]
                                  /\ entry'[v].content = entry[v].content
         /\ \/ /\ load'[w].phase = "installing"
               /\ load'[w].victims \in SUBSET Evictable
               /\ \/ load'[w].victims = {} /\ Excess <= 0
                  \/ Cardinality(load'[w].victims) = Excess
               /\ entry' = Evict(load'[w].victims)
               /\ capacity' = capacity
            \/ /\ load'[w].phase = "discarding" /\ load'[w].victims = {}
               /\ entry' = entry /\ capacity' = Tail(capacity)
<1>1. /\ capacity # <<>> /\ Head(capacity) = w
      /\ load[w].phase = "queued" /\ load[w].victims = {}
      /\ load \in [Workspaces -> Loads] /\ load[w] \in Loads /\ entry \in [Workspaces -> Entries]
  BY DEF MakeRoom, EvictForCapacity, LoadInv, TypeOK
<1>2. CASE Excess <= 0 /\ load' = [load EXCEPT ![w].phase = "installing"] /\ UNCHANGED <<entry, capacity>>
  <2>1. load' = [load EXCEPT ![w] = [load[w] EXCEPT !.phase = "installing"]]
    BY <1>2
  <2>2. [load[w] EXCEPT !.phase = "installing"] \in Loads
    BY <1>1 DEF Loads
  <2>3. load'[w].phase = "installing" /\ load'[w].victims = {} /\ load'[w].content = load[w].content
    BY <1>1, <2>1 DEF Loads
  <2>4. entry' = Evict({})
    BY <1>1, <1>2 DEF Evict
  <2> QED BY <1>1, <1>2, <2>1, <2>2, <2>3, <2>4
<1>3. ASSUME NEW victims \in SUBSET Evictable, Cardinality(victims) = Excess,
             load' = [load EXCEPT ![w] = [phase |-> "installing", content |-> load[w].content,
                                          victims |-> victims]],
             entry' = Evict(victims), capacity' = capacity
      PROVE /\ load' \in [Workspaces -> Loads] /\ entry' \in [Workspaces -> Entries]
            /\ load'[w].phase = "installing" /\ load'[w].victims = victims
            /\ load'[w].content = load[w].content
            /\ \A v \in Workspaces : /\ v # w => load'[v] = load[v]
                                     /\ entry'[v].content = entry[v].content
  <2>1. [phase |-> "installing", content |-> load[w].content, victims |-> victims] \in Loads
    BY <1>1 DEF Loads, Evictable
  <2>2. /\ entry' \in [Workspaces -> Entries]
        /\ \A v \in Workspaces : entry'[v].content = entry[v].content
    BY <1>3, Evicts
  <2> QED BY <1>1, <1>3, <2>1, <2>2
<1>4. CASE /\ load' = [load EXCEPT ![w].phase = "discarding"]
           /\ capacity' = Tail(capacity) /\ entry' = entry
  <2>1. load' = [load EXCEPT ![w] = [load[w] EXCEPT !.phase = "discarding"]]
    BY <1>4
  <2>2. [load[w] EXCEPT !.phase = "discarding"] \in Loads
    BY <1>1 DEF Loads
  <2>3. load'[w].phase = "discarding" /\ load'[w].victims = {} /\ load'[w].content = load[w].content
    BY <1>1, <2>1 DEF Loads
  <2> QED BY <1>1, <1>4, <2>1, <2>2, <2>3
<1>5. \/ Excess <= 0 /\ load' = [load EXCEPT ![w].phase = "installing"] /\ UNCHANGED <<entry, capacity>>
      \/ \E victims \in SUBSET Evictable :
           /\ Cardinality(victims) = Excess
           /\ load' = [load EXCEPT ![w] = [phase |-> "installing", content |-> load[w].content,
                                          victims |-> victims]]
           /\ entry' = Evict(victims) /\ capacity' = capacity
      \/ load' = [load EXCEPT ![w].phase = "discarding"] /\ capacity' = Tail(capacity) /\ entry' = entry
  BY DEF MakeRoom, EvictForCapacity
<1>6. CASE \E victims \in SUBSET Evictable :
           /\ Cardinality(victims) = Excess
           /\ load' = [load EXCEPT ![w] = [phase |-> "installing", content |-> load[w].content,
                                          victims |-> victims]]
           /\ entry' = Evict(victims) /\ capacity' = capacity
  BY <1>1, <1>3, <1>6
<1> QED
  BY <1>2, <1>4, <1>5, <1>6

\* Those who waited for a load of w work on its runtime, or return.
LEMMA LoadsEnd ==
  ASSUME TypeOK, NEW w \in Workspaces, NEW ok \in BOOLEAN, LoadEnds(w, ok)
  PROVE  /\ call' \in [Callers -> Calls]
         /\ \A c \in Callers :
              \/ call'[c] = call[c] /\ ~(call[c].ws = w /\ call[c].pc = "load")
              \/ call[c].pc = "load" /\ call[c].ws = w /\ call'[c] = Idle
              \/ /\ call[c].pc = "load" /\ call[c].ws = w /\ call[c].kind = "request"
                 /\ ok /\ call'[c] = Working(w)
         /\ removal' = IF removal[w] = "load"
                         THEN [removal EXCEPT ![w] = IF ok THEN "evict" ELSE "none"] ELSE removal
<1>1. call \in [Callers -> Calls]
  BY DEF TypeOK
<1>2. \A c \in Callers :
        call'[c] = IF call[c].ws = w /\ call[c].pc = "load"
                     THEN IF ok /\ call[c].kind = "request" THEN Working(w) ELSE Idle
                     ELSE call[c]
  BY DEF LoadEnds
<1>3. \A c \in Callers : call'[c] \in Calls
  BY <1>1, <1>2, Records
<1>4. call' \in [Callers -> Calls]
  BY <1>3 DEF LoadEnds
<1> QED BY <1>2, <1>4 DEF LoadEnds

\* What the end of an eviction of w means for those who waited for it.
LEMMA EvictionsEnd ==
  ASSUME TypeOK, NEW w \in Workspaces, NEW ok \in BOOLEAN, EvictionEnds(w, ok)
  PROVE  /\ call' \in [Callers -> Calls] /\ load' \in [Workspaces -> Loads]
         /\ \A c \in Callers :
              IF call[c].ws = w /\ call[c].pc = "eviction"
              THEN \/ call'[c] = Idle
                   \/ /\ ok /\ ~Closing(w) /\ call'[c] = [call[c] EXCEPT !.pc = "load"]
                      /\ load'[w] = Reading
              ELSE \/ call'[c] = call[c]
                   \/ call[c].ws = w /\ ok /\ call'[c] = [call[c] EXCEPT !.holds = FALSE]
         /\ \A v \in Workspaces :
              \/ v = w /\ ok /\ ~Closing(w) /\ load'[v] = Reading
              \/ load'[v] = load[v] /\ w \notin load[v].victims
              \/ /\ ok /\ w \in load[v].victims
                 /\ load'[v] = [load[v] EXCEPT !.victims = @ \ {w}]
              \/ /\ ~ok /\ w \in load[v].victims
                 /\ load'[v] = [phase |-> "discarding", content |-> load[v].content, victims |-> {}]
         /\ capacity' = LineAfter(w, ok)
         /\ removal' = IF removal[w] = "eviction"
                         THEN [removal EXCEPT ![w] = IF ok THEN "marker" ELSE "none"] ELSE removal
         /\ exitWaits' = exitWaits \ {w}
         /\ process' = IF ~ok /\ w \in exitWaits /\ process = "evictions" THEN "failed" ELSE process
<1> DEFINE waiters == {c \in Callers : call[c].ws = w /\ call[c].pc = "eviction"}
           again == IF ok /\ ~Closing(w) THEN waiters ELSE {}
<1>1. call \in [Callers -> Calls] /\ load \in [Workspaces -> Loads]
  BY DEF TypeOK
<1>2. /\ call' = [c \in Callers |->
           IF c \in again THEN [call[c] EXCEPT !.pc = "load"]
           ELSE IF c \in waiters THEN Idle
           ELSE IF call[c].ws = w /\ ok THEN [call[c] EXCEPT !.holds = FALSE] ELSE call[c]]
      /\ load' = [v \in Workspaces |->
           IF v = w /\ again # {} THEN Reading
           ELSE IF w \notin load[v].victims THEN load[v]
           ELSE IF ok THEN [load[v] EXCEPT !.victims = @ \ {w}]
           ELSE [phase |-> "discarding", content |-> load[v].content, victims |-> {}]]
  BY DEF EvictionEnds
<1>3. \A c \in again : c \in waiters /\ ok /\ ~Closing(w) /\ load'[w] = Reading
  BY <1>2
<1>4. ASSUME NEW c \in Callers
      PROVE  /\ call'[c] \in Calls
             /\ IF call[c].ws = w /\ call[c].pc = "eviction"
                THEN \/ call'[c] = Idle
                     \/ /\ ok /\ ~Closing(w) /\ call'[c] = [call[c] EXCEPT !.pc = "load"]
                        /\ load'[w] = Reading
                ELSE \/ call'[c] = call[c]
                     \/ call[c].ws = w /\ ok /\ call'[c] = [call[c] EXCEPT !.holds = FALSE]
  <2>1. /\ call[c] \in Calls /\ Idle \in Calls
        /\ [call[c] EXCEPT !.pc = "load"] \in Calls /\ [call[c] EXCEPT !.holds = FALSE] \in Calls
    BY <1>1, Records DEF Calls
  <2>2. call'[c] = IF c \in again THEN [call[c] EXCEPT !.pc = "load"]
                   ELSE IF c \in waiters THEN Idle
                   ELSE IF call[c].ws = w /\ ok THEN [call[c] EXCEPT !.holds = FALSE] ELSE call[c]
    BY <1>2
  <2>3. c \in waiters <=> call[c].ws = w /\ call[c].pc = "eviction"
    OBVIOUS
  <2> HIDE DEF again, waiters
  <2> QED BY <1>3, <2>1, <2>2, <2>3
<1>5. ASSUME NEW v \in Workspaces
      PROVE  /\ load'[v] \in Loads
             /\ \/ v = w /\ ok /\ ~Closing(w) /\ load'[v] = Reading
                \/ load'[v] = load[v] /\ w \notin load[v].victims
                \/ /\ ok /\ w \in load[v].victims
                   /\ load'[v] = [load[v] EXCEPT !.victims = @ \ {w}]
                \/ /\ ~ok /\ w \in load[v].victims
                   /\ load'[v] = [phase |-> "discarding", content |-> load[v].content, victims |-> {}]
  <2>1. /\ load[v] \in Loads /\ Reading \in Loads
        /\ [load[v] EXCEPT !.victims = @ \ {w}] \in Loads
        /\ [phase |-> "discarding", content |-> load[v].content, victims |-> {}] \in Loads
    BY <1>1, Records DEF Loads
  <2>2. load'[v] = IF v = w /\ again # {} THEN Reading
                   ELSE IF w \notin load[v].victims THEN load[v]
                   ELSE IF ok THEN [load[v] EXCEPT !.victims = @ \ {w}]
                   ELSE [phase |-> "discarding", content |-> load[v].content, victims |-> {}]
    BY <1>2
  <2> HIDE DEF again, waiters
  <2> QED BY <1>3, <2>1, <2>2
<1>6. call' \in [Callers -> Calls] /\ load' \in [Workspaces -> Loads]
  BY <1>2, <1>4, <1>5
<1> QED BY <1>4, <1>5, <1>6 DEF EvictionEnds

\* What getOrLoad does up to its await.
LEMMA GetsOrLoads ==
  ASSUME TypeOK, NEW c \in Callers, NEW w \in Workspaces, NEW kind \in {"request", "socket"},
         GetOrLoad(c, w, kind)
  PROVE  /\ call' \in [Callers -> Calls]
         /\ \A d \in Callers : d # c => call'[d] = call[d]
         /\ \/ entry' = entry
            \/ entry[w].state = "save-failed" /\ ~Busy(w) /\ entry' = Evict({w})
         /\ \/ load' = load
            \/ /\ ~Closing(w) /\ entry[w].state = "absent" /\ load[w].phase = "none"
               /\ load' = [load EXCEPT ![w] = Reading] /\ entry' = entry
         /\ \/ call'[c] = Idle
            \/ kind = "request" /\ call'[c] = Working(w) /\ entry[w].state = "active" /\ entry' = entry
            \/ /\ call'[c] = [pc |-> "eviction", ws |-> w, kind |-> kind, holds |-> FALSE]
               /\ ~Closing(w) /\ entry'[w].state \in {"draining", "flushing"}
            \/ /\ call'[c] = [pc |-> "load", ws |-> w, kind |-> kind, holds |-> FALSE]
               /\ ~Closing(w) /\ load'[w].phase # "none"
<1>1. /\ call \in [Callers -> Calls] /\ load \in [Workspaces -> Loads]
      /\ Idle \in Calls /\ Working(w) \in Calls
      /\ \A pc \in {"eviction", "load"} : [pc |-> pc, ws |-> w, kind |-> kind, holds |-> FALSE] \in Calls
  BY Records DEF TypeOK, Calls
<1>2. CASE \/ Closing(w) \/ entry[w].state = "active"
           \/ entry[w].state = "save-failed" /\ Busy(w)
  BY <1>1, <1>2 DEF GetOrLoad, Evicting, MustLoad
<1>3. CASE ~Closing(w) /\ Evicting(w)
  BY <1>1, <1>3 DEF GetOrLoad, Evicting, MustLoad
<1>4. CASE ~Closing(w) /\ entry[w].state = "save-failed" /\ ~Busy(w)
  <2>1. /\ entry' = Evict({w}) /\ load' = load
        /\ call' = [call EXCEPT ![c] = [pc |-> "eviction", ws |-> w, kind |-> kind, holds |-> FALSE]]
    BY <1>4 DEF GetOrLoad, Evicting, MustLoad
  <2>2. entry'[w].state = "draining"
    BY <1>4, <2>1, Evicts
  <2> QED BY <1>1, <1>4, <2>1, <2>2 DEF Evicting
<1>5. CASE ~Closing(w) /\ MustLoad(w)
  <2>1. Reading.phase # "none"
    BY DEF Reading
  <2> QED BY <1>1, <1>5, <2>1 DEF GetOrLoad, Evicting, MustLoad
<1>6. entry[w].state \in {"absent", "active", "draining", "flushing", "save-failed"}
  BY DEF TypeOK, Entries
<1> QED BY <1>2, <1>3, <1>4, <1>5, <1>6 DEF Evicting, MustLoad

\* Every variable keeps its type.
LEMMA TypeOKKept ==
  ASSUME TypeOK, CallInv, LoadInv, LineInv, WaitInv, WorkInv, DataInv, [Next]_vars
  PROVE  TypeOK'
<1> USE DEF TypeOK
<1>a. ASSUME UNCHANGED <<marker, disk, made, entry, load, capacity, turn, scope, removal, call, process, exitWaits>> PROVE TypeOK'
  BY <1>a DEF TypeOK, Contents, Entries, Loads, Calls
<1>g. ASSUME NEW c \in Callers, NEW w \in Workspaces, NEW kind \in {"request", "socket"},
             GetOrLoad(c, w, kind), UNCHANGED <<disks, capacity, turn, scope, removal, process, exitWaits>>
      PROVE TypeOK'
  <2>1. /\ call' \in [Callers -> Calls]
        /\ \/ entry' = entry
           \/ entry[w].state = "save-failed" /\ ~Busy(w) /\ entry' = Evict({w})
        /\ \/ load' = load
           \/ /\ ~Closing(w) /\ entry[w].state = "absent" /\ load[w].phase = "none"
              /\ load' = [load EXCEPT ![w] = Reading] /\ entry' = entry
    BY <1>g, GetsOrLoads
  <2>2. entry' \in [Workspaces -> Entries]
    BY <2>1, Evicts
  <2>3. load' \in [Workspaces -> Loads]
    BY <2>1, Records
  <2> QED BY <1>g, <2>1, <2>2, <2>3 DEF disks
<1>e. ASSUME NEW w \in Workspaces, NEW ok \in BOOLEAN, EvictionEnds(w, ok),
             entry' \in [Workspaces -> Entries], disk' \in [Workspaces -> Contents],
             capacity' \in Seq(Workspaces), UNCHANGED <<marker, made, turn, scope>>
      PROVE TypeOK'
  <2>1. /\ call' \in [Callers -> Calls] /\ load' \in [Workspaces -> Loads]
        /\ removal' = IF removal[w] = "eviction"
                        THEN [removal EXCEPT ![w] = IF ok THEN "marker" ELSE "none"] ELSE removal
        /\ exitWaits' = exitWaits \ {w}
        /\ process' \in {"failed", process}
    BY <1>e, EvictionsEnd
  <2> QED BY <1>e, <2>1
<1>1. ASSUME NEW c \in Callers, NEW w \in Workspaces, StartRequest(c, w) PROVE TypeOK'
  BY <1>1 DEF StartRequest, disks, TypeOK, Contents, Entries, Loads, Calls, Closing, CallInv,
     LoadInv, LineInv, WaitInv, WorkInv, DataInv
<1>2. ASSUME NEW c \in Callers, NEW w \in Workspaces, StartOperation(c, w) PROVE TypeOK'
  BY <1>2 DEF StartOperation, disks, TypeOK, Contents, Entries, Loads, Calls, Closing, CallInv,
     LoadInv, LineInv, WaitInv, WorkInv, DataInv
<1>3. ASSUME NEW c \in Callers, NEW w \in Workspaces, StartSocket(c, w) PROVE TypeOK'
  <2>1. GetOrLoad(c, w, "socket") /\ UNCHANGED <<disks, capacity, turn, scope, removal, process, exitWaits>>
    BY <1>3 DEF StartSocket
  <2> QED BY <1>g, <2>1
<1>4. ASSUME NEW c \in Callers, MarkerRead(c) PROVE TypeOK'
  <2>1. call[c].ws \in Workspaces /\ UNCHANGED <<disks, capacity, turn, scope, removal, process, exitWaits>>
    BY <1>4 DEF MarkerRead, CallInv
  <2>2. CASE call[c].ws \in marker
    <3>1. GetOrLoad(c, call[c].ws, "request")
      BY <1>4, <2>2 DEF MarkerRead
    <3> QED BY <1>g, <2>1, <3>1
  <2>3. CASE call[c].ws \notin marker
    <3>1. call' = [call EXCEPT ![c] = Idle] /\ UNCHANGED <<entry, load>>
      BY <1>4, <2>3 DEF MarkerRead
    <3> QED BY <2>1, <3>1, Records DEF disks
  <2> QED BY <2>2, <2>3
<1>5. ASSUME NEW c \in Callers, OperationAdmitted(c) PROVE TypeOK'
  <2>1. call[c] \in Calls
    OBVIOUS
  <2> HIDE DEF TypeOK
  <2>2. [call[c] EXCEPT !.pc = "working"] \in Calls
    BY <2>1 DEF Calls
  <2> USE DEF TypeOK
  <2> QED BY <1>5, <2>2, Records DEF OperationAdmitted, disks
<1>6. ASSUME NEW c \in Callers, Change(c) PROVE TypeOK'
  <2>1. /\ call[c].ws \in Workspaces /\ call[c].holds /\ entry[call[c].ws].state = "active"
        /\ process # "down" /\ made[call[c].ws] < MaxChanges
        /\ made' = [made EXCEPT ![call[c].ws] = @ + 1]
        /\ UNCHANGED <<marker, disk, load, capacity, turn, scope, removal, call, process, exitWaits>>
    BY <1>6 DEF Change, Running, CallInv, WorkInv, WorkKeepsRuntime
  <2>2. entry' = [entry EXCEPT ![call[c].ws].content = @ + 1]
    BY <1>6, <2>1 DEF Change
  <2>3. entry[call[c].ws].content = made[call[c].ws]
    BY <2>1 DEF DataInv
  <2>4. entry' \in [Workspaces -> Entries]
    BY <2>1, <2>2, <2>3, Changes
  <2>5. made' \in [Workspaces -> Contents]
    BY <2>1, MaxChangesAssumption DEF Contents
  <2> QED BY <2>1, <2>4, <2>5
<1>7. ASSUME NEW c \in Callers, StartTurn(c) PROVE TypeOK'
  BY <1>7 DEF StartTurn, disks, TypeOK, Contents, Entries, Loads, Calls, CallInv, LoadInv, LineInv,
     WaitInv, WorkInv, DataInv
<1>8. ASSUME NEW c \in Callers, End(c) PROVE TypeOK'
  BY <1>8 DEF End, disks, TypeOK, Contents, Entries, Loads, Calls, Idle, CallInv, LoadInv, LineInv,
     WaitInv, WorkInv, DataInv
<1>9. ASSUME NEW w \in Workspaces, TurnEnds(w) PROVE TypeOK'
  <2>1. /\ entry[w].state # "absent" /\ process # "down" /\ turn' = turn \ {w}
        /\ UNCHANGED <<marker, disk, load, capacity, scope, removal, call, process, exitWaits>>
        /\ \/ UNCHANGED <<made, entry>>
           \/ /\ made[w] < MaxChanges /\ made' = [made EXCEPT ![w] = @ + 1]
              /\ entry' = [entry EXCEPT ![w].content = @ + 1]
    BY <1>9 DEF TurnEnds, Running, WorkInv
  <2>2. entry[w].content = made[w]
    BY <2>1 DEF DataInv
  <2>3. CASE UNCHANGED <<made, entry>>
    BY <2>1, <2>3
  <2>4. CASE /\ made[w] < MaxChanges /\ made' = [made EXCEPT ![w] = @ + 1]
             /\ entry' = [entry EXCEPT ![w].content = @ + 1]
    <3>1. entry' \in [Workspaces -> Entries]
      BY <2>2, <2>4, Changes
    <3>2. made' \in [Workspaces -> Contents]
      BY <2>4, MaxChangesAssumption DEF Contents
    <3> QED BY <2>1, <3>1, <3>2
  <2> QED BY <2>1, <2>3, <2>4
<1>10. ASSUME NEW w \in Workspaces, LoadFails(w) PROVE TypeOK'
  <2>1. call' \in [Callers -> Calls] /\ removal' \in {removal, [removal EXCEPT ![w] = "none"]}
    BY <1>10, LoadsEnd DEF LoadFails
  <2>2. /\ load' = [load EXCEPT ![w] = NoLoad]
        /\ UNCHANGED <<disks, entry, capacity, turn, scope, process, exitWaits>>
    BY <1>10 DEF LoadFails
  <2> QED BY <2>1, <2>2, Records DEF disks
<1>11. ASSUME NEW w \in Workspaces, LoadBuilt(w) PROVE TypeOK'
  <2>1. /\ UNCHANGED <<disks, entry, turn, scope, removal, call, process, exitWaits>>
        /\ capacity' \in {capacity, Append(capacity, w)}
        /\ load' \in {[load EXCEPT ![w] = [phase |-> p, content |-> disk[w], victims |-> {}]] :
                        p \in {"queued", "discarding"}}
    BY <1>11 DEF LoadBuilt
  <2>2. \A p \in {"queued", "discarding"} : [phase |-> p, content |-> disk[w], victims |-> {}] \in Loads
    BY LoadTyped
  <2>3. load' \in [Workspaces -> Loads]
    BY <2>1, <2>2
  <2>4. Append(capacity, w) \in Seq(Workspaces)
    OBVIOUS
  <2> QED BY <2>1, <2>3, <2>4 DEF disks
<1>12. ASSUME NEW w \in Workspaces, MakeRoom(w) PROVE TypeOK'
  <2>1. /\ load' \in [Workspaces -> Loads] /\ entry' \in [Workspaces -> Entries]
        /\ capacity # <<>> /\ capacity' \in {capacity, Tail(capacity)}
    BY <1>12, MakesRoom
  <2>2. UNCHANGED <<disks, turn, scope, removal, call, process, exitWaits>>
    BY <1>12 DEF MakeRoom, EvictForCapacity
  <2>3. Tail(capacity) \in Seq(Workspaces)
    BY <2>1
  <2> QED BY <2>1, <2>2, <2>3 DEF disks
<1>13. ASSUME NEW w \in Workspaces, Install(w) PROVE TypeOK'
  <2>1. /\ load[w].phase = "installing" /\ load' = [load EXCEPT ![w] = NoLoad]
        /\ entry' = [entry EXCEPT ![w] = [state |-> "active", content |-> load[w].content, agents |-> TRUE]]
        /\ capacity' = Tail(capacity)
        /\ UNCHANGED <<disks, turn, scope, process, exitWaits>>
    BY <1>13 DEF Install
  <2>2. call' \in [Callers -> Calls] /\ removal' \in {removal, [removal EXCEPT ![w] = "evict"]}
    BY <1>13, LoadsEnd DEF Install
  <2>3. capacity # <<>>
    BY <2>1 DEF LineInv
  <2>4. Tail(capacity) \in Seq(Workspaces)
    BY <2>3
  <2>5. [state |-> "active", content |-> load[w].content, agents |-> TRUE] \in Entries
    BY DEF Entries, Loads
  <2> QED BY <2>1, <2>2, <2>4, <2>5, Records DEF disks
<1>14. ASSUME NEW w \in Workspaces, Discarded(w) PROVE TypeOK'
  <2>1. call' \in [Callers -> Calls] /\ removal' \in {removal, [removal EXCEPT ![w] = "none"]}
    BY <1>14, LoadsEnd DEF Discarded
  <2>2. /\ load' = [load EXCEPT ![w] = NoLoad]
        /\ UNCHANGED <<disks, entry, capacity, turn, scope, process, exitWaits>>
    BY <1>14 DEF Discarded
  <2> QED BY <2>1, <2>2, Records DEF disks
<1>15. ASSUME NEW w \in Workspaces, Sweep(w) PROVE TypeOK'
  <2>1. entry' \in [Workspaces -> Entries]
    BY <1>15, Evicts DEF Sweep
  <2> QED BY <1>15, <2>1 DEF Sweep, disks
<1>16. ASSUME NEW w \in Workspaces, Drained(w) PROVE TypeOK'
  <2>1. /\ entry' = [entry EXCEPT ![w] = [entry[w] EXCEPT !.state = "flushing"]] /\ turn' = turn \ {w}
        /\ UNCHANGED <<disks, load, capacity, scope, removal, call, process, exitWaits>>
    BY <1>16 DEF Drained
  <2>2. [entry[w] EXCEPT !.state = "flushing"] \in Entries
    BY DEF Entries
  <2> QED BY <2>1, <2>2 DEF disks
<1>17. ASSUME NEW w \in Workspaces, Flushed(w) PROVE TypeOK'
  <2>1. /\ EvictionEnds(w, TRUE) /\ disk' = [disk EXCEPT ![w] = entry[w].content]
        /\ entry' = [entry EXCEPT ![w] = NoEntry] /\ UNCHANGED <<marker, made, turn, scope>>
    BY <1>17 DEF Flushed
  <2>2. disk' \in [Workspaces -> Contents]
    BY <2>1 DEF Entries
  <2>3. capacity' = capacity
    BY <2>1 DEF EvictionEnds, LineAfter
  <2> QED BY <1>e, <2>1, <2>2, <2>3, Records
<1>18. ASSUME NEW w \in Workspaces, FlushFails(w) PROVE TypeOK'
  <2>1. /\ EvictionEnds(w, FALSE) /\ disk' \in {disk, [disk EXCEPT ![w] = entry[w].content]}
        /\ entry' = [entry EXCEPT ![w] = [entry[w] EXCEPT !.state = "save-failed"]]
        /\ UNCHANGED <<marker, made, turn, scope>>
    BY <1>18 DEF FlushFails
  <2>2. disk' \in [Workspaces -> Contents]
    BY <2>1 DEF Entries
  <2>3. capacity' \in Seq(Workspaces)
    <3>1. CASE \A v \in Workspaces : w \notin load[v].victims
      BY <2>1, <3>1 DEF EvictionEnds, LineAfter
    <3>2. ASSUME NEW v \in Workspaces, w \in load[v].victims PROVE capacity' \in Seq(Workspaces)
      <4>1. capacity # <<>> /\ capacity' = Tail(capacity)
        BY <2>1, <3>2 DEF EvictionEnds, LineAfter, LoadInv, LineInv
      <4> QED BY <4>1
    <3> QED BY <3>1, <3>2
  <2>4. [entry[w] EXCEPT !.state = "save-failed"] \in Entries
    BY DEF Entries
  <2> QED BY <1>e, <2>1, <2>2, <2>3, <2>4
<1>19. ASSUME NEW w \in Workspaces, Provision(w) PROVE TypeOK'
  BY <1>19 DEF Provision, disks, TypeOK, Contents, Entries, Loads, Calls, CallInv, LoadInv,
     LineInv, WaitInv, WorkInv, DataInv
<1>20. ASSUME NEW w \in Workspaces, Remove(w) PROVE TypeOK'
  <2>1. entry' \in [Workspaces -> Entries]
    BY <1>20, Quiesces DEF Remove
  <2> QED BY <1>20, <2>1 DEF Remove, disks
<1>21. ASSUME NEW w \in Workspaces, RemoveDrained(w) PROVE TypeOK'
  BY <1>21 DEF RemoveDrained, disks, TypeOK, Contents, Entries, Loads, Calls, CallInv, LoadInv,
     LineInv, WaitInv, WorkInv, DataInv
<1>22. ASSUME NEW w \in Workspaces, RemoveEvicts(w) PROVE TypeOK'
  <2>1. /\ UNCHANGED <<disks, load, capacity, turn, scope, call, process, exitWaits>>
        /\ removal' \in {[removal EXCEPT ![w] = r] : r \in {"none", "load", "eviction", "marker"}}
        /\ entry' = entry \/ entry' = Evict({w})
    BY <1>22 DEF RemoveEvicts, EvictForRemoval
  <2>2. entry' \in [Workspaces -> Entries]
    BY <2>1, Evicts
  <2> QED BY <2>1, <2>2 DEF disks
<1>23. ASSUME NEW w \in Workspaces, Removed(w) PROVE TypeOK'
  <2>1. 0 \in Contents
    BY MaxChangesAssumption DEF Contents
  <2> QED BY <1>23, <2>1 DEF Removed
<1>24. ASSUME NEW w \in Workspaces, RemoveFails(w) PROVE TypeOK'
  <2>1. 0 \in Contents
    BY MaxChangesAssumption DEF Contents
  <2>2. disk' \in [Workspaces -> Contents] /\ made' = [made EXCEPT ![w] = disk'[w]]
    BY <1>24, <2>1 DEF RemoveFails
  <2>3. made' \in [Workspaces -> Contents]
    BY <2>2
  <2>4. /\ removal' = [removal EXCEPT ![w] = "none"]
        /\ UNCHANGED <<marker, entry, load, capacity, turn, scope, call, process, exitWaits>>
    BY <1>24 DEF RemoveFails
  <2> QED BY <2>2, <2>3, <2>4
<1>25. CASE Shutdown
  <2>1. entry' \in [Workspaces -> Entries]
    BY <1>25, Quiesces DEF Shutdown
  <2> QED BY <1>25, <2>1 DEF Shutdown, disks
<1>26. CASE ShutdownDrained
  BY <1>26 DEF ShutdownDrained, disks, TypeOK, Contents, Entries, Loads, Calls, CallInv, LoadInv,
     LineInv, WaitInv, WorkInv, DataInv
<1>27. CASE ShutdownEvicts
  <2>1. entry' \in [Workspaces -> Entries]
    BY <1>27, Evicts DEF ShutdownEvicts
  <2> QED BY <1>27, <2>1 DEF ShutdownEvicts, disks, Loaded
<1>28. CASE ShutdownDone
  BY <1>28 DEF ShutdownDone, disks, TypeOK, Contents, Entries, Loads, Calls, CallInv, LoadInv,
     LineInv, WaitInv, WorkInv, DataInv
<1>29. CASE Exit
  BY <1>29 DEF Exit, disks, TypeOK, Contents, Entries, Loads, Calls, CallInv, LoadInv, LineInv,
     WaitInv, WorkInv, DataInv
<1>30. CASE Restart
  <2>1. entry' \in [Workspaces -> Entries] /\ load' \in [Workspaces -> Loads] /\ call' \in [Callers -> Calls]
    BY <1>30, Records DEF Restart
  <2> QED BY <1>30, <2>1 DEF Restart
<1> QED
  BY <1>a, <1>1, <1>2, <1>3, <1>4, <1>5, <1>6, <1>7, <1>8, <1>9, <1>10, <1>11, <1>12, <1>13, <1>14,
     <1>15, <1>16, <1>17, <1>18, <1>19, <1>20, <1>21, <1>22, <1>23, <1>24, <1>25, <1>26, <1>27,
     <1>28, <1>29, <1>30
     DEF CallStarts, LoadSteps, EvictionSteps, RemovalSteps, ShutdownSteps, Next, vars, disks

\* A caller that is not idle has its Workspace; only requests and operations read the marker or work.
LEMMA CallInvKept ==
  ASSUME TypeOK, CallInv, [Next]_vars
  PROVE  CallInv'
<1> USE DEF TypeOK
<1>a. ASSUME UNCHANGED <<call>> PROVE CallInv'
  BY <1>a DEF CallInv
<1>1. ASSUME NEW c \in Callers, NEW w \in Workspaces, StartRequest(c, w) PROVE CallInv'
  BY <1>1 DEF StartRequest, disks, CallInv, Closing
<1>2. ASSUME NEW c \in Callers, NEW w \in Workspaces, StartOperation(c, w) PROVE CallInv'
  BY <1>2 DEF StartOperation, disks, CallInv, Closing
<1>3. ASSUME NEW c \in Callers, NEW w \in Workspaces, StartSocket(c, w) PROVE CallInv'
  BY <1>3 DEF StartSocket, disks, CallInv, GetOrLoad, Evict, MustLoad, Evicting, Closing, Working,
     Idle, Reading
<1>4. ASSUME NEW c \in Callers, MarkerRead(c) PROVE CallInv'
  BY <1>4 DEF MarkerRead, disks, CallInv, GetOrLoad, Evict, MustLoad, Evicting, Closing, Working,
     Idle, Reading
<1>5. ASSUME NEW c \in Callers, OperationAdmitted(c) PROVE CallInv'
  BY <1>5 DEF OperationAdmitted, disks, CallInv, Idle
<1>6. ASSUME NEW c \in Callers, End(c) PROVE CallInv'
  BY <1>6 DEF End, disks, CallInv, Idle
<1>7. ASSUME NEW w \in Workspaces, LoadFails(w) PROVE CallInv'
  BY <1>7 DEF LoadFails, disks, CallInv, LoadEnds, NoLoad, Working, Idle
<1>8. ASSUME NEW w \in Workspaces, Install(w) PROVE CallInv'
  BY <1>8 DEF Install, disks, CallInv, LoadEnds, NoLoad, Working, Idle
<1>9. ASSUME NEW w \in Workspaces, Discarded(w) PROVE CallInv'
  BY <1>9 DEF Discarded, disks, CallInv, LoadEnds, NoLoad, Working, Idle
<1>10. ASSUME NEW w \in Workspaces, Flushed(w) PROVE CallInv'
  BY <1>10 DEF Flushed, disks, CallInv, EvictionEnds, LineAfter, Evicting, Idle, NoEntry, Reading,
     Closing
<1>11. ASSUME NEW w \in Workspaces, FlushFails(w) PROVE CallInv'
  BY <1>11 DEF FlushFails, disks, CallInv, EvictionEnds, LineAfter, Evicting, Idle, Reading
<1>12. CASE Restart
  BY <1>12 DEF Restart, disks, CallInv, NoEntry, NoLoad, Idle
<1> QED
  BY <1>a, <1>1, <1>2, <1>3, <1>4, <1>5, <1>6, <1>7, <1>8, <1>9, <1>10, <1>11, <1>12
     DEF CallStarts, LoadSteps, EvictionSteps, RemovalSteps, ShutdownSteps, Next, vars, disks,
        Change, StartTurn, TurnEnds, LoadBuilt, MakeRoom, Sweep, Drained, Provision, Remove,
        RemoveDrained, RemoveEvicts, Removed, RemoveFails, Shutdown, ShutdownDrained,
        ShutdownEvicts, ShutdownDone, Exit, EvictForCapacity

\* A load begins when no runtime is there, and none comes to be until it ends.
LEMMA LoadInvKept ==
  ASSUME TypeOK, CallInv, LoadInv, LineInv, WaitInv, CloseInv, [Next]_vars
  PROVE  LoadInv'
<1> USE DEF TypeOK
<1>a. ASSUME UNCHANGED <<load, entry, disk, marker>> PROVE LoadInv'
  BY <1>a DEF LoadInv
<1>1. ASSUME NEW c \in Callers, NEW w \in Workspaces, StartSocket(c, w) PROVE LoadInv'
  BY <1>1 DEF StartSocket, disks, LoadInv, GetOrLoad, Evict, MustLoad, Evicting, Closing, Working,
     Idle, Reading, CallInv, LineInv, WaitInv, CloseInv
<1>2. ASSUME NEW c \in Callers, MarkerRead(c) PROVE LoadInv'
  BY <1>2 DEF MarkerRead, disks, LoadInv, GetOrLoad, Evict, MustLoad, Evicting, Closing, Working,
     Idle, Reading, CallInv, LineInv, WaitInv, CloseInv
<1>3. ASSUME NEW c \in Callers, Change(c) PROVE LoadInv'
  BY <1>3 DEF Change, LoadInv
<1>4. ASSUME NEW w \in Workspaces, TurnEnds(w) PROVE LoadInv'
  <2>1. CASE entry' = entry
    BY <1>4, <2>1 DEF TurnEnds, LoadInv
  <2>2. CASE entry' = [entry EXCEPT ![w].content = @ + 1]
    <3>1. \A v \in Workspaces : entry'[v].state = entry[v].state
      BY <2>2 DEF Entries
    <3> QED BY <1>4, <3>1 DEF TurnEnds, LoadInv
  <2> QED BY <1>4, <2>1, <2>2 DEF TurnEnds
<1>5. ASSUME NEW w \in Workspaces, LoadFails(w) PROVE LoadInv'
  BY <1>5 DEF LoadFails, disks, LoadInv, LoadEnds, NoLoad, Working, Idle, CallInv, LineInv,
     WaitInv, CloseInv
<1>6. ASSUME NEW w \in Workspaces, LoadBuilt(w) PROVE LoadInv'
  BY <1>6 DEF LoadBuilt, disks, LoadInv, CallInv, LineInv, WaitInv, CloseInv
<1>7. ASSUME NEW w \in Workspaces, MakeRoom(w) PROVE LoadInv'
  <2>1. /\ load[w].phase = "queued" /\ load'[w].content = load[w].content
        /\ \A v \in Workspaces : v # w => load'[v] = load[v]
        /\ \/ /\ load'[w].phase = "installing"
              /\ load'[w].victims \in SUBSET Evictable
              /\ entry' = Evict(load'[w].victims)
           \/ load'[w].phase = "discarding" /\ load'[w].victims = {} /\ entry' = entry
        /\ UNCHANGED disks
    BY <1>7, MakesRoom DEF MakeRoom, EvictForCapacity
  <2>2. \A v \in Workspaces : entry[v].state = "absent" => entry'[v].state = "absent"
    BY <2>1, Evicts
  <2> QED BY <2>1, <2>2 DEF LoadInv, disks
<1>8. ASSUME NEW w \in Workspaces, Install(w) PROVE LoadInv'
  BY <1>8 DEF Install, disks, LoadInv, LoadEnds, NoLoad, Working, Idle, CallInv, LineInv, WaitInv,
     CloseInv
<1>9. ASSUME NEW w \in Workspaces, Discarded(w) PROVE LoadInv'
  BY <1>9 DEF Discarded, disks, LoadInv, LoadEnds, NoLoad, Working, Idle, CallInv, LineInv,
     WaitInv, CloseInv
<1>10. ASSUME NEW w \in Workspaces, Sweep(w) PROVE LoadInv'
  BY <1>10 DEF Sweep, disks, LoadInv, Evictable, Evict, CallInv, LineInv, WaitInv, CloseInv
<1>11. ASSUME NEW w \in Workspaces, Drained(w) PROVE LoadInv'
  BY <1>11 DEF Drained, disks, LoadInv, CallInv, LineInv, WaitInv, CloseInv
<1>12. ASSUME NEW w \in Workspaces, Flushed(w) PROVE LoadInv'
  BY <1>12 DEF Flushed, disks, LoadInv, EvictionEnds, LineAfter, Evicting, Idle, NoEntry, Reading,
     Closing, CallInv, LineInv, WaitInv, CloseInv
<1>13. ASSUME NEW w \in Workspaces, FlushFails(w) PROVE LoadInv'
  BY <1>13 DEF FlushFails, disks, LoadInv, EvictionEnds, LineAfter, Evicting, Idle, Reading,
     CallInv, LineInv, WaitInv, CloseInv
<1>14. ASSUME NEW w \in Workspaces, Provision(w) PROVE LoadInv'
  BY <1>14 DEF Provision, disks, LoadInv, CallInv, LineInv, WaitInv, CloseInv
<1>15. ASSUME NEW w \in Workspaces, Remove(w) PROVE LoadInv'
  BY <1>15 DEF Remove, disks, LoadInv, Quiesce, CallInv, LineInv, WaitInv, CloseInv
<1>16. ASSUME NEW w \in Workspaces, RemoveEvicts(w) PROVE LoadInv'
  BY <1>16 DEF RemoveEvicts, disks, LoadInv, EvictForRemoval, Evict, CallInv, LineInv, WaitInv,
     CloseInv
<1>17. ASSUME NEW w \in Workspaces, Removed(w) PROVE LoadInv'
  BY <1>17 DEF Removed, disks, LoadInv, CallInv, LineInv, WaitInv, CloseInv
<1>18. ASSUME NEW w \in Workspaces, RemoveFails(w) PROVE LoadInv'
  BY <1>18 DEF RemoveFails, disks, LoadInv, CallInv, LineInv, WaitInv, CloseInv
<1>19. CASE Shutdown
  BY <1>19 DEF Shutdown, disks, LoadInv, Quiesce, CallInv, LineInv, WaitInv, CloseInv
<1>20. CASE ShutdownEvicts
  BY <1>20 DEF ShutdownEvicts, disks, LoadInv, Evict, Loaded, CallInv, LineInv, WaitInv, CloseInv
<1>21. CASE Restart
  BY <1>21 DEF Restart, disks, LoadInv, NoEntry, NoLoad, Idle, CallInv, LineInv, WaitInv, CloseInv
<1> QED
  BY <1>a, <1>1, <1>2, <1>3, <1>4, <1>5, <1>6, <1>7, <1>8, <1>9, <1>10, <1>11, <1>12, <1>13, <1>14,
     <1>15, <1>16, <1>17, <1>18, <1>19, <1>20, <1>21
     DEF CallStarts, LoadSteps, EvictionSteps, RemovalSteps, ShutdownSteps, Next, vars, disks,
        StartRequest, StartOperation, OperationAdmitted, StartTurn, End, RemoveDrained,
        ShutdownDrained, ShutdownDone, Exit


\* Whoever is served leaves the line to the others; whoever comes stands behind them.
LEMMA Served ==
  ASSUME NEW s \in Seq(Workspaces), s # <<>>, \A i, j \in DOMAIN s : s[i] = s[j] => i = j
  PROVE  /\ Tail(s) \in Seq(Workspaces)
         /\ \A i, j \in DOMAIN Tail(s) : Tail(s)[i] = Tail(s)[j] => i = j
         /\ {Tail(s)[i] : i \in DOMAIN Tail(s)} = {s[i] : i \in DOMAIN s} \ {Head(s)}
<1>1. /\ Tail(s) \in Seq(Workspaces) /\ Len(s) \in Nat /\ Len(s) >= 1
      /\ DOMAIN s = 1 .. Len(s) /\ DOMAIN Tail(s) = 1 .. Len(s) - 1 /\ Head(s) = s[1]
      /\ \A i \in DOMAIN Tail(s) : i + 1 \in DOMAIN s /\ Tail(s)[i] = s[i + 1]
  OBVIOUS
<1>2. \A i, j \in DOMAIN Tail(s) : Tail(s)[i] = Tail(s)[j] => i = j
  BY <1>1
<1>3. \A i \in DOMAIN Tail(s) : Tail(s)[i] \in {s[k] : k \in DOMAIN s} \ {Head(s)}
  BY <1>1
<1>4. ASSUME NEW i \in DOMAIN s, s[i] # Head(s) PROVE s[i] \in {Tail(s)[k] : k \in DOMAIN Tail(s)}
  <2>1. i - 1 \in DOMAIN Tail(s) /\ Tail(s)[i - 1] = s[i]
    BY <1>1, <1>4
  <2> QED BY <2>1
<1> QED BY <1>1, <1>2, <1>3, <1>4

LEMMA Queued ==
  ASSUME NEW s \in Seq(Workspaces), NEW x \in Workspaces, \A i \in DOMAIN s : s[i] # x,
         \A i, j \in DOMAIN s : s[i] = s[j] => i = j
  PROVE  /\ Append(s, x) \in Seq(Workspaces)
         /\ \A i, j \in DOMAIN Append(s, x) : Append(s, x)[i] = Append(s, x)[j] => i = j
         /\ {Append(s, x)[i] : i \in DOMAIN Append(s, x)} = {s[i] : i \in DOMAIN s} \union {x}
         /\ s # <<>> => Head(Append(s, x)) = Head(s)
<1>1. /\ Append(s, x) \in Seq(Workspaces) /\ Len(s) \in Nat /\ DOMAIN s = 1 .. Len(s)
      /\ DOMAIN Append(s, x) = 1 .. Len(s) + 1 /\ Append(s, x)[Len(s) + 1] = x
      /\ \A i \in DOMAIN s : Append(s, x)[i] = s[i]
  OBVIOUS
<1>2. \A i, j \in DOMAIN Append(s, x) : Append(s, x)[i] = Append(s, x)[j] => i = j
  BY <1>1
<1>3. {Append(s, x)[i] : i \in DOMAIN Append(s, x)} = {s[i] : i \in DOMAIN s} \union {x}
  BY <1>1
<1>4. s # <<>> => Head(Append(s, x)) = Head(s)
  BY <1>1
<1> QED BY <1>1, <1>2, <1>3, <1>4

\* The line moves on.
LEMMA LineMoves ==
  ASSUME TypeOK, LineInv, NEW w \in Workspaces,
         capacity # <<>>, Head(capacity) = w, capacity' = Tail(capacity),
         load'[w].phase \notin {"queued", "installing"},
         \A v \in Workspaces \ {w} : load'[v] = load[v]
  PROVE  LineInv'
<1>1. /\ \A i, j \in DOMAIN capacity' : capacity'[i] = capacity'[j] => i = j
      /\ {capacity'[i] : i \in DOMAIN capacity'} = {capacity[i] : i \in DOMAIN capacity} \ {w}
  <2>1. capacity \in Seq(Workspaces) /\ \A i, j \in DOMAIN capacity : capacity[i] = capacity[j] => i = j
    BY DEF LineInv, TypeOK
  <2>2. /\ \A i, j \in DOMAIN Tail(capacity) : Tail(capacity)[i] = Tail(capacity)[j] => i = j
        /\ {Tail(capacity)[i] : i \in DOMAIN Tail(capacity)}
             = {capacity[i] : i \in DOMAIN capacity} \ {Head(capacity)}
    BY <2>1, Served
  <2> QED BY <2>2
<1>2. \A v \in Workspaces \ {w} : load[v].phase # "installing"
  BY DEF LineInv
<1> QED BY <1>1, <1>2 DEF LineInv

\* Loads leave the line in its order, each when it is installed or given up.
LEMMA LineInvKept ==
  ASSUME TypeOK, LoadInv, LineInv, WaitInv, [Next]_vars
  PROVE  LineInv'
<1> USE DEF TypeOK
<1>a. ASSUME UNCHANGED <<load, capacity>> PROVE LineInv'
  BY <1>a DEF LineInv
<1>1. ASSUME NEW c \in Callers, NEW w \in Workspaces, StartSocket(c, w) PROVE LineInv'
  BY <1>1 DEF StartSocket, disks, LineInv, GetOrLoad, Evict, MustLoad, Evicting, Closing, Working,
     Idle, Reading, LoadInv, WaitInv
<1>2. ASSUME NEW c \in Callers, MarkerRead(c) PROVE LineInv'
  BY <1>2 DEF MarkerRead, disks, LineInv, GetOrLoad, Evict, MustLoad, Evicting, Closing, Working,
     Idle, Reading, LoadInv, WaitInv
<1>3. ASSUME NEW w \in Workspaces, LoadFails(w) PROVE LineInv'
  BY <1>3 DEF LoadFails, disks, LineInv, LoadEnds, NoLoad, Working, Idle, LoadInv, WaitInv
<1>4. ASSUME NEW w \in Workspaces, LoadBuilt(w) PROVE LineInv'
  <2>1. load[w].phase = "reading" /\ \A v \in Workspaces : v # w => load'[v] = load[v]
    BY <1>4 DEF LoadBuilt
  <2>2. \A i \in DOMAIN capacity : capacity[i] # w
    BY <2>1 DEF LineInv
  <2>3. CASE load'[w].phase = "discarding" /\ capacity' = capacity
    BY <2>1, <2>3 DEF LineInv
  <2>4. CASE load'[w].phase = "queued" /\ capacity' = Append(capacity, w)
    <3>1. /\ \A i, j \in DOMAIN capacity' : capacity'[i] = capacity'[j] => i = j
          /\ {capacity'[i] : i \in DOMAIN capacity'} = {capacity[i] : i \in DOMAIN capacity} \union {w}
          /\ capacity # <<>> => Head(capacity') = Head(capacity)
      <4>1. capacity \in Seq(Workspaces) /\ \A i, j \in DOMAIN capacity : capacity[i] = capacity[j] => i = j
        BY DEF LineInv
      <4> HIDE DEF TypeOK
      <4>2. /\ \A i, j \in DOMAIN Append(capacity, w) :
                 Append(capacity, w)[i] = Append(capacity, w)[j] => i = j
            /\ {Append(capacity, w)[i] : i \in DOMAIN Append(capacity, w)}
                 = {capacity[i] : i \in DOMAIN capacity} \union {w}
            /\ capacity # <<>> => Head(Append(capacity, w)) = Head(capacity)
        BY <2>2, <4>1, Queued
      <4> QED BY <2>4, <4>2
    <3>2. \A v \in Workspaces : load[v].phase = "installing" => capacity # <<>>
      BY DEF LineInv
    <3> QED BY <2>1, <2>4, <3>1, <3>2 DEF LineInv
  <2> QED BY <1>4, <2>3, <2>4 DEF LoadBuilt
<1>5. ASSUME NEW w \in Workspaces, MakeRoom(w) PROVE LineInv'
  <2>1. /\ capacity # <<>> /\ Head(capacity) = w /\ load[w].phase = "queued"
        /\ \A v \in Workspaces \ {w} : load'[v] = load[v]
        /\ \/ load'[w].phase = "installing" /\ capacity' = capacity
           \/ load'[w].phase = "discarding" /\ capacity' = Tail(capacity)
    BY <1>5, MakesRoom
  <2>2. CASE load'[w].phase = "installing" /\ capacity' = capacity
    BY <2>1, <2>2 DEF LineInv
  <2> QED BY <2>1, <2>2, LineMoves
<1>6. ASSUME NEW w \in Workspaces, Install(w) PROVE LineInv'
  <2>1. /\ load[w].phase = "installing" /\ load' = [load EXCEPT ![w] = NoLoad]
        /\ capacity' = Tail(capacity) /\ NoLoad.phase = "none"
    BY <1>6 DEF Install, NoLoad
  <2>2. capacity # <<>> /\ Head(capacity) = w
    BY <2>1 DEF LineInv
  <2>3. load'[w].phase = "none" /\ \A v \in Workspaces \ {w} : load'[v] = load[v]
    BY <2>1
  <2> QED BY <2>1, <2>2, <2>3, LineMoves
<1>7. ASSUME NEW w \in Workspaces, Discarded(w) PROVE LineInv'
  BY <1>7 DEF Discarded, disks, LineInv, LoadEnds, NoLoad, Working, Idle, LoadInv, WaitInv
<1>8. ASSUME NEW w \in Workspaces, Flushed(w) PROVE LineInv'
  BY <1>8 DEF Flushed, disks, LineInv, EvictionEnds, LineAfter, Evicting, Idle, NoEntry, Reading,
     Closing, LoadInv, WaitInv
<1>9. ASSUME NEW w \in Workspaces, FlushFails(w) PROVE LineInv'
  <2>1. EvictionEnds(w, FALSE)
    BY <1>9 DEF FlushFails
  <2>2. capacity' = LineAfter(w, FALSE)
    BY <2>1, EvictionsEnd
  <2>3. \A v \in Workspaces : IF w \in load[v].victims THEN load'[v].phase = "discarding"
                              ELSE load'[v] = load[v]
    <3> SUFFICES ASSUME NEW v \in Workspaces
                 PROVE  IF w \in load[v].victims THEN load'[v].phase = "discarding"
                        ELSE load'[v] = load[v]
      OBVIOUS
    <3>1. \/ load'[v] = load[v] /\ w \notin load[v].victims
          \/ /\ w \in load[v].victims
             /\ load'[v] = [phase |-> "discarding", content |-> load[v].content, victims |-> {}]
      BY <2>1, EvictionsEnd
    <3> QED BY <3>1
  <2>4. CASE \A v \in Workspaces : w \notin load[v].victims
    <3>1. capacity' = capacity /\ \A v \in Workspaces : load'[v] = load[v]
      BY <2>2, <2>3, <2>4 DEF LineAfter
    <3> QED BY <3>1 DEF LineInv
  <2>5. ASSUME NEW v \in Workspaces, w \in load[v].victims PROVE LineInv'
    <3>1. capacity # <<>> /\ Head(capacity) = v /\ capacity' = Tail(capacity)
      BY <2>2, <2>5 DEF LineInv, LoadInv, LineAfter
    <3>2. \A u \in Workspaces \ {v} : load[u].victims = {}
      BY <3>1 DEF LineInv, LoadInv
    <3>3. load'[v].phase = "discarding" /\ \A u \in Workspaces \ {v} : load'[u] = load[u]
      BY <2>3, <2>5, <3>2
    <3> QED BY <3>1, <3>3, LineMoves
  <2> QED BY <2>4, <2>5
<1>10. CASE Restart
  BY <1>10 DEF Restart, disks, LineInv, NoEntry, NoLoad, Idle, LoadInv, WaitInv
<1> QED
  BY <1>a, <1>1, <1>2, <1>3, <1>4, <1>5, <1>6, <1>7, <1>8, <1>9, <1>10
     DEF CallStarts, LoadSteps, EvictionSteps, RemovalSteps, ShutdownSteps, Next, vars, disks,
        StartRequest, StartOperation, OperationAdmitted, Change, StartTurn, End, TurnEnds, Sweep,
        Drained, Provision, Remove, RemoveDrained, RemoveEvicts, Removed, RemoveFails, Shutdown,
        ShutdownDrained, ShutdownEvicts, ShutdownDone, Exit

\* Whatever is waited for is under way until those who wait are told.
LEMMA WaitInvKept ==
  ASSUME TypeOK, CallInv, LoadInv, LineInv, WaitInv, [Next]_vars
  PROVE  WaitInv'
<1> USE DEF TypeOK
<1>a. ASSUME UNCHANGED <<call, load, entry, removal, exitWaits>> PROVE WaitInv'
  BY <1>a DEF WaitInv, Evicting
<1>b. ASSUME UNCHANGED <<call, load, removal, exitWaits>>,
             \A v \in Workspaces : Evicting(v) => Evicting(v)'
      PROVE WaitInv'
  BY <1>b DEF WaitInv, CallInv, Loads
<1>g. ASSUME NEW c \in Callers, NEW w \in Workspaces, NEW kind \in {"request", "socket"},
             GetOrLoad(c, w, kind), UNCHANGED <<removal, exitWaits>>
      PROVE WaitInv'
  <2>1. /\ \A d \in Callers : d # c => call'[d] = call[d]
        /\ \/ entry' = entry
           \/ entry[w].state = "save-failed" /\ ~Busy(w) /\ entry' = Evict({w})
        /\ \/ load' = load
           \/ /\ ~Closing(w) /\ entry[w].state = "absent" /\ load[w].phase = "none"
              /\ load' = [load EXCEPT ![w] = Reading] /\ entry' = entry
        /\ \/ call'[c] = Idle
           \/ kind = "request" /\ call'[c] = Working(w) /\ entry[w].state = "active" /\ entry' = entry
           \/ /\ call'[c] = [pc |-> "eviction", ws |-> w, kind |-> kind, holds |-> FALSE]
              /\ ~Closing(w) /\ entry'[w].state \in {"draining", "flushing"}
           \/ /\ call'[c] = [pc |-> "load", ws |-> w, kind |-> kind, holds |-> FALSE]
              /\ ~Closing(w) /\ load'[w].phase # "none"
    BY <1>g, GetsOrLoads
  <2>2. \A v \in Workspaces : Evicting(v) => Evicting(v)'
    <3>1. CASE entry' = Evict({w})
      BY <3>1, Evicts DEF Evicting
    <3>2. CASE entry' = entry
      BY <3>2 DEF Evicting
    <3> QED BY <2>1, <3>1, <3>2
  <2>3. \A v \in Workspaces : /\ load[v].phase # "none" => load'[v].phase # "none"
                              /\ load'[v].victims \subseteq load[v].victims
    BY <2>1 DEF Reading
  <2>4. ASSUME NEW d \in Callers
        PROVE  /\ call'[d].pc = "load" => load'[call'[d].ws].phase # "none"
               /\ call'[d].pc = "eviction" => Evicting(call[d].ws)'
    <3>1. CASE d = c
      <4>1. Idle.pc = "idle" /\ Working(w).pc = "working"
        BY DEF Idle, Working
      <4>2. CASE call'[c].pc \notin {"load", "eviction"}
        BY <3>1, <4>2
      <4>3. CASE call'[c] = [pc |-> "eviction", ws |-> w, kind |-> kind, holds |-> FALSE]
                 /\ entry'[w].state \in {"draining", "flushing"}
        BY <3>1, <4>3 DEF Evicting
      <4>4. CASE call'[c] = [pc |-> "load", ws |-> w, kind |-> kind, holds |-> FALSE]
                 /\ load'[w].phase # "none"
        BY <3>1, <4>4
      <4> QED BY <2>1, <4>1, <4>2, <4>3, <4>4
    <3>2. CASE d # c
      <4>1. /\ call'[d] = call[d] /\ (call[d].pc # "idle" => call[d].ws \in Workspaces)
            /\ call[d].pc = "load" => load[call[d].ws].phase # "none"
            /\ call[d].pc = "eviction" => Evicting(call[d].ws)
        BY <2>1, <3>2 DEF WaitInv, CallInv
      <4>2. call[d].pc = "eviction" => Evicting(call[d].ws)'
        <5>1. call[d].pc = "eviction" => entry'[call[d].ws].state \in {"draining", "flushing"}
          BY <2>2, <4>1 DEF Evicting
        <5> QED BY <4>1, <5>1 DEF Evicting
      <4> QED BY <2>3, <4>1, <4>2
    <3> QED BY <3>1, <3>2
  <2>5. ASSUME NEW v \in Workspaces
        PROVE  /\ \A u \in load'[v].victims : Evicting(u)'
               /\ removal'[v] = "load" => load'[v].phase # "none"
               /\ removal'[v] = "eviction" => Evicting(v)'
    <3>1. load[v].victims \subseteq Workspaces
      BY DEF Loads
    <3>2. /\ \A u \in load[v].victims : Evicting(u)
          /\ removal[v] = "load" => load[v].phase # "none"
          /\ removal[v] = "eviction" => Evicting(v)
      BY DEF WaitInv
    <3> QED BY <1>g, <2>2, <2>3, <3>1, <3>2
  <2>6. \A u \in exitWaits' : Evicting(u)'
    BY <1>g, <2>2 DEF WaitInv
  <2> QED BY <2>4, <2>5, <2>6 DEF WaitInv, Evicting
<1>e. ASSUME NEW w \in Workspaces, NEW ok \in BOOLEAN, EvictionEnds(w, ok),
             \A v \in Workspaces : v # w => entry'[v] = entry[v]
      PROVE WaitInv'
  <2>1. \A c \in Callers :
          IF call[c].ws = w /\ call[c].pc = "eviction"
          THEN \/ call'[c] = Idle
               \/ call'[c] = [call[c] EXCEPT !.pc = "load"] /\ load'[w] = Reading
          ELSE \/ call'[c] = call[c]
               \/ call'[c] = [call[c] EXCEPT !.holds = FALSE]
    BY <1>e, EvictionsEnd
  <2>2. removal' = IF removal[w] = "eviction"
                     THEN [removal EXCEPT ![w] = IF ok THEN "marker" ELSE "none"] ELSE removal
    BY <1>e, EvictionsEnd
  <2>3. /\ \A v \in Workspaces : v # w => removal'[v] = removal[v]
        /\ removal'[w] # "eviction"
        /\ removal'[w] = "load" => removal[w] = "load"
        /\ exitWaits' = exitWaits \ {w}
    <3>1. exitWaits' = exitWaits \ {w}
      BY <1>e, EvictionsEnd
    <3> QED BY <2>2, <3>1
  <2>4. \A v \in Workspaces : /\ load[v].phase # "none" => load'[v].phase # "none"
                              /\ load'[v].victims \subseteq load[v].victims \ {w}
    <3> SUFFICES ASSUME NEW v \in Workspaces
                 PROVE  /\ load[v].phase # "none" => load'[v].phase # "none"
                        /\ load'[v].victims \subseteq load[v].victims \ {w}
      OBVIOUS
    <3>1. load[v] \in Loads
      OBVIOUS
    <3>2. \/ v = w /\ ok /\ ~Closing(w) /\ load'[v] = Reading
          \/ load'[v] = load[v] /\ w \notin load[v].victims
          \/ /\ ok /\ w \in load[v].victims
             /\ load'[v] = [load[v] EXCEPT !.victims = @ \ {w}]
          \/ /\ ~ok /\ w \in load[v].victims
             /\ load'[v] = [phase |-> "discarding", content |-> load[v].content, victims |-> {}]
      BY <1>e, EvictionsEnd
    <3> HIDE DEF TypeOK
    <3>3. CASE load'[v] = [load[v] EXCEPT !.victims = @ \ {w}]
      BY <3>1, <3>3 DEF Loads
    <3>4. CASE load'[v] # [load[v] EXCEPT !.victims = @ \ {w}]
      BY <3>2, <3>4 DEF Reading
    <3> QED BY <3>3, <3>4
  <2>5. \A v \in Workspaces : v # w /\ Evicting(v) => Evicting(v)'
    BY <1>e DEF Evicting
  <2>6. ASSUME NEW c \in Callers
        PROVE  /\ call'[c].pc = "load" => load'[call'[c].ws].phase # "none"
               /\ call'[c].pc = "eviction" => entry'[call'[c].ws].state \in {"draining", "flushing"}
    <3>1. /\ call[c] \in Calls /\ (call[c].pc # "idle" => call[c].ws \in Workspaces)
          /\ call[c].pc = "load" => load[call[c].ws].phase # "none"
          /\ call[c].pc = "eviction" => Evicting(call[c].ws)
      BY DEF CallInv, WaitInv
    <3> HIDE DEF TypeOK
    <3>2. CASE call[c].ws = w /\ call[c].pc = "eviction"
      <4>1. \/ call'[c] = Idle
            \/ call'[c] = [call[c] EXCEPT !.pc = "load"] /\ load'[w] = Reading
        BY <2>1, <3>2
      <4>2. CASE call'[c] = Idle
        BY <4>2 DEF Idle
      <4>3. CASE call'[c] = [call[c] EXCEPT !.pc = "load"] /\ load'[w] = Reading
        <5>1. call'[c].pc = "load" /\ call'[c].ws = w
          BY <3>1, <3>2, <4>3 DEF Calls
        <5>2. load'[w].phase # "none"
          BY <4>3 DEF Reading
        <5> QED BY <5>1, <5>2
      <4> QED BY <4>1, <4>2, <4>3
    <3>3. CASE ~(call[c].ws = w /\ call[c].pc = "eviction")
      <4>1. call'[c].pc = call[c].pc /\ call'[c].ws = call[c].ws
        BY <2>1, <3>1, <3>3 DEF Calls
      <4>2. call[c].pc = "eviction" => call[c].ws # w /\ entry'[call[c].ws].state \in {"draining", "flushing"}
        BY <1>e, <3>1, <3>3 DEF Evicting
      <4> QED BY <2>4, <3>1, <4>1, <4>2
    <3> QED BY <3>2, <3>3
  <2>7. \A v \in Workspaces : load[v].victims \subseteq Workspaces
    BY DEF Loads
  <2>8. ASSUME NEW v \in Workspaces
        PROVE  /\ \A u \in load'[v].victims : Evicting(u)'
               /\ removal'[v] = "load" => load'[v].phase # "none"
               /\ removal'[v] = "eviction" => Evicting(v)'
    <3>1. /\ \A u \in load[v].victims : Evicting(u)
          /\ removal[v] = "load" => load[v].phase # "none"
          /\ removal[v] = "eviction" => Evicting(v)
      BY DEF WaitInv
    <3>2. \A u \in load'[v].victims : Evicting(u)'
      BY <2>4, <2>5, <2>7, <3>1
    <3>3. CASE v = w
      BY <2>3, <2>4, <3>1, <3>2, <3>3
    <3>4. CASE v # w
      BY <2>3, <2>4, <2>5, <3>1, <3>2, <3>4
    <3> QED BY <3>3, <3>4
  <2>9. \A v \in exitWaits' : Evicting(v)'
    BY <2>3, <2>5 DEF WaitInv
  <2> QED BY <2>6, <2>8, <2>9 DEF WaitInv, Evicting
<1>1. ASSUME NEW c \in Callers, NEW w \in Workspaces, StartRequest(c, w) PROVE WaitInv'
  BY <1>1 DEF StartRequest, disks, WaitInv, Evicting, Closing, CallInv, LoadInv, LineInv
<1>2. ASSUME NEW c \in Callers, NEW w \in Workspaces, StartOperation(c, w) PROVE WaitInv'
  BY <1>2 DEF StartOperation, disks, WaitInv, Evicting, Closing, CallInv, LoadInv, LineInv
<1>3. ASSUME NEW c \in Callers, NEW w \in Workspaces, StartSocket(c, w) PROVE WaitInv'
  BY <1>3, <1>g DEF StartSocket
<1>4. ASSUME NEW c \in Callers, MarkerRead(c) PROVE WaitInv'
  <2>1. CASE call[c].ws \in marker
    <3>1. call[c].ws \in Workspaces
      BY <1>4 DEF MarkerRead, CallInv
    <3> QED BY <1>4, <1>g, <2>1, <3>1 DEF MarkerRead
  <2>2. CASE call[c].ws \notin marker
    BY <1>4, <2>2 DEF MarkerRead, WaitInv, Evicting, Idle
  <2> QED BY <2>1, <2>2
<1>5. ASSUME NEW c \in Callers, OperationAdmitted(c) PROVE WaitInv'
  BY <1>5 DEF OperationAdmitted, disks, WaitInv, Evicting, Idle, CallInv, LoadInv, LineInv
<1>6. ASSUME NEW c \in Callers, Change(c) PROVE WaitInv'
  <2>1. \A v \in Workspaces : entry'[v].state = entry[v].state
    BY <1>6 DEF Change, Entries
  <2> QED BY <1>6, <1>b, <2>1 DEF Change, Evicting
<1>7. ASSUME NEW c \in Callers, End(c) PROVE WaitInv'
  BY <1>7 DEF End, disks, WaitInv, Evicting, Idle, CallInv, LoadInv, LineInv
<1>8. ASSUME NEW w \in Workspaces, TurnEnds(w) PROVE WaitInv'
  <2>1. \A v \in Workspaces : entry'[v].state = entry[v].state
    <3>1. CASE entry' = entry
      BY <3>1
    <3>2. CASE entry' = [entry EXCEPT ![w].content = @ + 1]
      BY <3>2 DEF Entries
    <3> QED BY <1>8, <3>1, <3>2 DEF TurnEnds
  <2> QED BY <1>8, <1>b, <2>1 DEF TurnEnds, Evicting
<1>9. ASSUME NEW w \in Workspaces, LoadFails(w) PROVE WaitInv'
  BY <1>9 DEF LoadFails, disks, WaitInv, Evicting, LoadEnds, NoLoad, Working, Idle, CallInv,
     LoadInv, LineInv
<1>10. ASSUME NEW w \in Workspaces, LoadBuilt(w) PROVE WaitInv'
  <2>1. /\ load[w].phase = "reading" /\ load'[w].phase # "none" /\ load'[w].victims = {}
        /\ \A v \in Workspaces : v # w => load'[v] = load[v]
        /\ UNCHANGED <<entry, removal, call, exitWaits>>
    BY <1>10 DEF LoadBuilt
  <2> QED BY <2>1 DEF WaitInv, CallInv, Evicting
<1>11. ASSUME NEW w \in Workspaces, MakeRoom(w) PROVE WaitInv'
  <2>1. /\ \A v \in Workspaces : v # w => load'[v] = load[v]
        /\ \/ /\ load'[w].phase = "installing" /\ load'[w].victims \in SUBSET Evictable
              /\ entry' = Evict(load'[w].victims)
           \/ load'[w].phase = "discarding" /\ load'[w].victims = {} /\ entry' = entry
        /\ UNCHANGED <<removal, call, exitWaits>>
    BY <1>11, MakesRoom DEF MakeRoom, EvictForCapacity
  <2>2. \A v \in Workspaces : Evicting(v) => Evicting(v)'
    BY <2>1, Evicts DEF Evicting
  <2>3. load'[w].phase # "none" /\ \A v \in load'[w].victims : Evicting(v)'
    BY <2>1, Evicts DEF Evicting, Evictable
  <2>4. \A v \in Workspaces : load[v].victims \subseteq Workspaces
    BY DEF Loads
  <2>5. \A v \in exitWaits : Evicting(v)'
    BY <2>2 DEF WaitInv
  <2>6. \A v \in Workspaces : /\ \A u \in load'[v].victims : Evicting(u)'
                              /\ removal[v] = "load" => load'[v].phase # "none"
                              /\ removal[v] = "eviction" => Evicting(v)'
    BY <2>1, <2>2, <2>3, <2>4 DEF WaitInv
  <2>7. \A c \in Callers : /\ call[c].pc = "load" => load'[call[c].ws].phase # "none"
                           /\ call[c].pc = "eviction" => Evicting(call[c].ws)'
    BY <2>1, <2>2, <2>3 DEF WaitInv, CallInv, Evicting
  <2> QED BY <2>1, <2>5, <2>6, <2>7 DEF WaitInv, Evicting
<1>12. ASSUME NEW w \in Workspaces, Install(w) PROVE WaitInv'
  BY <1>12 DEF Install, disks, WaitInv, Evicting, LoadEnds, NoLoad, Working, Idle, CallInv,
     LoadInv, LineInv
<1>13. ASSUME NEW w \in Workspaces, Discarded(w) PROVE WaitInv'
  BY <1>13 DEF Discarded, disks, WaitInv, Evicting, LoadEnds, NoLoad, Working, Idle, CallInv,
     LoadInv, LineInv
<1>14. ASSUME NEW w \in Workspaces, Sweep(w) PROVE WaitInv'
  BY <1>14, <1>b, Evicts DEF Sweep, Evicting
<1>15. ASSUME NEW w \in Workspaces, Drained(w) PROVE WaitInv'
  <2>1. \A v \in Workspaces : Evicting(v) => Evicting(v)'
    BY <1>15 DEF Drained, Evicting, Entries
  <2> QED BY <1>15, <1>b, <2>1 DEF Drained
<1>16. ASSUME NEW w \in Workspaces, Flushed(w) PROVE WaitInv'
  <2>1. EvictionEnds(w, TRUE) /\ \A v \in Workspaces : v # w => entry'[v] = entry[v]
    BY <1>16 DEF Flushed
  <2> QED BY <1>e, <2>1
<1>17. ASSUME NEW w \in Workspaces, FlushFails(w) PROVE WaitInv'
  <2>1. EvictionEnds(w, FALSE) /\ \A v \in Workspaces : v # w => entry'[v] = entry[v]
    BY <1>17 DEF FlushFails
  <2> QED BY <1>e, <2>1
<1>18. ASSUME NEW w \in Workspaces, Remove(w) PROVE WaitInv'
  <2>1. \A v \in Workspaces : Evicting(v) => Evicting(v)'
    BY <1>18, Quiesces DEF Remove, Evicting
  <2>2. UNCHANGED <<call, load, exitWaits>> /\ \A v \in Workspaces : \/ removal'[v] = removal[v]
                                                                     \/ removal'[v] = "operations"
    BY <1>18 DEF Remove
  <2> QED BY <2>1, <2>2 DEF WaitInv, CallInv, Loads, Evicting
<1>19. ASSUME NEW w \in Workspaces, RemoveDrained(w) PROVE WaitInv'
  BY <1>19 DEF RemoveDrained, disks, WaitInv, Evicting, CallInv, LoadInv, LineInv
<1>20. ASSUME NEW w \in Workspaces, RemoveEvicts(w) PROVE WaitInv'
  <2>1. CASE load[w].phase # "none"
    BY <1>20, <2>1 DEF RemoveEvicts, WaitInv, Evicting
  <2>2. CASE load[w].phase = "none"
    <3>1. /\ UNCHANGED <<call, load, exitWaits>> /\ \A v \in Workspaces : v # w => removal'[v] = removal[v]
          /\ \/ removal'[w] \in {"none", "marker"} /\ entry' = entry
             \/ entry[w].state # "absent" /\ removal'[w] = "eviction" /\ entry' = Evict({w})
      BY <1>20, <2>2 DEF RemoveEvicts, EvictForRemoval
    <3>2. CASE entry' = entry /\ removal'[w] \in {"none", "marker"}
      BY <3>1, <3>2 DEF WaitInv, Evicting
    <3>3. CASE entry[w].state # "absent" /\ removal'[w] = "eviction" /\ entry' = Evict({w})
      <4>1. entry[w].state \in {"absent", "active", "draining", "flushing", "save-failed"}
        BY DEF Entries
      <4>2. \A v \in Workspaces :
              entry'[v].state = IF v \in {w} /\ entry[v].state \in {"active", "save-failed"}
                                  THEN "draining" ELSE entry[v].state
        BY <3>3, Evicts
      <4>3. Evicting(w)' /\ \A v \in Workspaces : Evicting(v) => Evicting(v)'
        BY <3>3, <4>1, <4>2 DEF Evicting
      <4>4. \A v \in Workspaces : load[v].victims \subseteq Workspaces
        BY DEF Loads
      <4> QED BY <3>1, <3>3, <4>3, <4>4 DEF WaitInv, CallInv, Evicting
    <3> QED BY <3>1, <3>2, <3>3
  <2> QED BY <2>1, <2>2
<1>21. ASSUME NEW w \in Workspaces, Removed(w) PROVE WaitInv'
  BY <1>21 DEF Removed, disks, WaitInv, Evicting, CallInv, LoadInv, LineInv
<1>22. ASSUME NEW w \in Workspaces, RemoveFails(w) PROVE WaitInv'
  BY <1>22 DEF RemoveFails, disks, WaitInv, Evicting, CallInv, LoadInv, LineInv
<1>23. CASE Shutdown
  <2>1. \A v \in Workspaces : Evicting(v) => Evicting(v)'
    BY <1>23, Quiesces DEF Shutdown, Evicting
  <2> QED BY <1>23, <1>b, <2>1 DEF Shutdown
<1>24. CASE ShutdownEvicts
  <2>1. \A v \in Workspaces : entry[v].state \in {"absent", "active", "draining", "flushing", "save-failed"}
    BY DEF Entries
  <2>2. \A v \in Workspaces : /\ Evicting(v) => Evicting(v)'
                              /\ entry[v].state # "absent" => Evicting(v)'
    BY <1>24, <2>1, Evicts DEF ShutdownEvicts, Evicting
  <2>3. UNCHANGED <<call, load, removal>> /\ exitWaits' = Loaded
    BY <1>24 DEF ShutdownEvicts
  <2>4. \A v \in Workspaces : load[v].victims \subseteq Workspaces
    BY DEF Loads
  <2>5. \A v \in exitWaits' : Evicting(v)'
    BY <2>2, <2>3 DEF Loaded
  <2> QED BY <2>2, <2>3, <2>4, <2>5 DEF WaitInv, CallInv, Evicting
<1>25. CASE Restart
  BY <1>25 DEF Restart, disks, WaitInv, Evicting, NoEntry, NoLoad, Idle, CallInv, LoadInv, LineInv
<1> QED
  BY <1>a, <1>1, <1>2, <1>3, <1>4, <1>5, <1>6, <1>7, <1>8, <1>9, <1>10, <1>11, <1>12, <1>13, <1>14,
     <1>15, <1>16, <1>17, <1>18, <1>19, <1>20, <1>21, <1>22, <1>23, <1>24, <1>25
     DEF CallStarts, LoadSteps, EvictionSteps, RemovalSteps, ShutdownSteps, Next, vars, disks,
        StartTurn, Provision, ShutdownDrained, ShutdownDone, Exit

\* Work and turns keep their runtime: what is busy is not evicted, and a drained one has no turn.
LEMMA WorkInvKept ==
  ASSUME TypeOK, CallInv, LoadInv, WorkInv, CloseInv, [Next]_vars
  PROVE  WorkInv'
<1> USE DEF TypeOK
<1>a. ASSUME UNCHANGED <<call, entry, turn>> PROVE WorkInv'
  BY <1>a DEF WorkInv, WorkKeepsRuntime
<1>b. ASSUME NEW ws \in SUBSET Workspaces, entry' = Evict(ws), UNCHANGED <<call, turn>>,
             \A w \in ws : entry[w].state = "active" => ~Busy(w) /\ w \notin turn
      PROVE WorkInv'
  <2>1. \A c \in Callers : call[c].pc = "working" =>
          /\ call[c].holds /\ entry[call[c].ws].state = "active"
          /\ call[c].ws \in Workspaces /\ Busy(call[c].ws)
    BY DEF WorkInv, WorkKeepsRuntime, CallInv, Busy
  <2> QED BY <1>b, <2>1, Evicts DEF WorkInv, WorkKeepsRuntime
<1>g. ASSUME NEW c \in Callers, NEW w \in Workspaces, NEW kind \in {"request", "socket"},
             GetOrLoad(c, w, kind), UNCHANGED turn
      PROVE WorkInv'
  <2>1. /\ \A d \in Callers : d # c => call'[d] = call[d]
        /\ \/ entry' = entry
           \/ entry[w].state = "save-failed" /\ entry' = Evict({w})
        /\ \/ call'[c] = Idle
           \/ call'[c] = Working(w) /\ entry[w].state = "active" /\ entry' = entry
           \/ call'[c] = [pc |-> "eviction", ws |-> w, kind |-> kind, holds |-> FALSE]
           \/ call'[c] = [pc |-> "load", ws |-> w, kind |-> kind, holds |-> FALSE]
    BY <1>g, GetsOrLoads
  <2>2. \A v \in Workspaces : entry[v].state \in {"active", "draining"} => entry'[v].state = entry[v].state
    BY <2>1, Evicts
  <2>3. \A d \in Callers : call[d].pc = "working" =>
          call[d].holds /\ entry[call[d].ws].state = "active" /\ call[d].ws \in Workspaces
    BY DEF WorkInv, WorkKeepsRuntime, CallInv
  <2>4. call'[c].pc = "working" => call'[c].holds /\ entry'[call'[c].ws].state = "active"
    BY <2>1, <2>2 DEF Idle, Working
  <2>5. WorkKeepsRuntime'
    BY <2>1, <2>2, <2>3, <2>4 DEF WorkKeepsRuntime
  <2> QED BY <1>g, <2>2, <2>5 DEF WorkInv
<1>1. ASSUME NEW c \in Callers, NEW w \in Workspaces, StartRequest(c, w) PROVE WorkInv'
  BY <1>1 DEF StartRequest, disks, WorkInv, WorkKeepsRuntime, Closing, CallInv, LoadInv, CloseInv
<1>2. ASSUME NEW c \in Callers, NEW w \in Workspaces, StartOperation(c, w) PROVE WorkInv'
  BY <1>2 DEF StartOperation, disks, WorkInv, WorkKeepsRuntime, Closing, CallInv, LoadInv, CloseInv
<1>3. ASSUME NEW c \in Callers, NEW w \in Workspaces, StartSocket(c, w) PROVE WorkInv'
  BY <1>3, <1>g DEF StartSocket
<1>4. ASSUME NEW c \in Callers, MarkerRead(c) PROVE WorkInv'
  <2>1. CASE call[c].ws \in marker
    <3>1. call[c].ws \in Workspaces
      BY <1>4 DEF MarkerRead, CallInv
    <3> QED BY <1>4, <1>g, <2>1, <3>1 DEF MarkerRead
  <2>2. CASE call[c].ws \notin marker
    BY <1>4, <2>2 DEF MarkerRead, WorkInv, WorkKeepsRuntime, CallInv, Idle
  <2> QED BY <2>1, <2>2
<1>5. ASSUME NEW c \in Callers, OperationAdmitted(c) PROVE WorkInv'
  BY <1>5 DEF OperationAdmitted, disks, WorkInv, WorkKeepsRuntime, Idle, CallInv, LoadInv, CloseInv
<1>6. ASSUME NEW c \in Callers, Change(c) PROVE WorkInv'
  <2>1. \A v \in Workspaces : entry'[v].state = entry[v].state
    BY <1>6 DEF Change, Entries
  <2> QED BY <1>6, <2>1 DEF Change, WorkInv, WorkKeepsRuntime, CallInv
<1>7. ASSUME NEW c \in Callers, StartTurn(c) PROVE WorkInv'
  BY <1>7 DEF StartTurn, disks, WorkInv, WorkKeepsRuntime, CallInv, LoadInv, CloseInv
<1>8. ASSUME NEW c \in Callers, End(c) PROVE WorkInv'
  BY <1>8 DEF End, disks, WorkInv, WorkKeepsRuntime, Idle, CallInv, LoadInv, CloseInv
<1>9. ASSUME NEW w \in Workspaces, TurnEnds(w) PROVE WorkInv'
  <2>1. \A v \in Workspaces : entry'[v].state = entry[v].state
    <3>1. CASE entry' = entry
      BY <3>1
    <3>2. CASE entry' = [entry EXCEPT ![w].content = @ + 1]
      BY <3>2 DEF Entries
    <3> QED BY <1>9, <3>1, <3>2 DEF TurnEnds
  <2>2. turn' \subseteq turn /\ call' = call
    BY <1>9 DEF TurnEnds
  <2> QED BY <2>1, <2>2 DEF WorkInv, WorkKeepsRuntime, CallInv
<1>10. ASSUME NEW w \in Workspaces, LoadFails(w) PROVE WorkInv'
  BY <1>10 DEF LoadFails, disks, WorkInv, WorkKeepsRuntime, LoadEnds, NoLoad, Working, Idle,
     CallInv, LoadInv, CloseInv
<1>11. ASSUME NEW w \in Workspaces, MakeRoom(w) PROVE WorkInv'
  <2>1. \/ \E victims \in SUBSET Evictable : entry' = Evict(victims)
        \/ entry' = entry
    BY <1>11, MakesRoom
  <2>2. UNCHANGED <<call, turn>>
    BY <1>11 DEF MakeRoom, EvictForCapacity
  <2>3. Evictable \subseteq Workspaces /\ \A v \in Evictable : ~Busy(v) /\ v \notin turn
    BY DEF Evictable
  <2> QED BY <1>a, <1>b, <2>1, <2>2, <2>3
<1>12. ASSUME NEW w \in Workspaces, Install(w) PROVE WorkInv'
  BY <1>12 DEF Install, disks, WorkInv, WorkKeepsRuntime, LoadEnds, NoLoad, Working, Idle, CallInv,
     LoadInv, CloseInv
<1>13. ASSUME NEW w \in Workspaces, Discarded(w) PROVE WorkInv'
  BY <1>13 DEF Discarded, disks, WorkInv, WorkKeepsRuntime, LoadEnds, NoLoad, Working, Idle,
     CallInv, LoadInv, CloseInv
<1>14. ASSUME NEW w \in Workspaces, Sweep(w) PROVE WorkInv'
  BY <1>14, <1>b DEF Sweep, Evictable
<1>15. ASSUME NEW w \in Workspaces, Drained(w) PROVE WorkInv'
  BY <1>15 DEF Drained, disks, WorkInv, WorkKeepsRuntime, CallInv, LoadInv, CloseInv
<1>16. ASSUME NEW w \in Workspaces, Flushed(w) PROVE WorkInv'
  BY <1>16 DEF Flushed, disks, WorkInv, WorkKeepsRuntime, EvictionEnds, LineAfter, Evicting, Idle,
     NoEntry, Reading, Closing, CallInv, LoadInv, CloseInv
<1>17. ASSUME NEW w \in Workspaces, FlushFails(w) PROVE WorkInv'
  BY <1>17 DEF FlushFails, disks, WorkInv, WorkKeepsRuntime, EvictionEnds, LineAfter, Evicting,
     Idle, Reading, CallInv, LoadInv, CloseInv
<1>18. ASSUME NEW w \in Workspaces, Remove(w) PROVE WorkInv'
  BY <1>18 DEF Remove, disks, WorkInv, WorkKeepsRuntime, Quiesce, CallInv, LoadInv, CloseInv
<1>19. ASSUME NEW w \in Workspaces, RemoveEvicts(w) PROVE WorkInv'
  <2>1. UNCHANGED <<call, turn>> /\ (entry' = entry \/ (entry' = Evict({w}) /\ ~Busy(w)))
    BY <1>19 DEF RemoveEvicts, EvictForRemoval
  <2>2. CASE entry' = Evict({w}) /\ ~Busy(w)
    <3>1. \A c \in Callers : call[c].pc = "working" =>
            /\ call[c].holds /\ entry[call[c].ws].state = "active"
            /\ call[c].ws \in Workspaces /\ call[c].ws # w
      BY <2>2 DEF WorkInv, WorkKeepsRuntime, CallInv, Busy
    <3>2. \A v \in turn : entry'[v].state \in {"active", "draining"}
      BY <2>2, Evicts DEF WorkInv
    <3>3. \A v \in Workspaces : v # w => entry'[v].state = entry[v].state
      <4>1. \A v \in Workspaces :
              entry'[v].state = IF v \in {w} /\ entry[v].state \in {"active", "save-failed"}
                                  THEN "draining" ELSE entry[v].state
        BY <2>2, Evicts
      <4> QED BY <4>1
    <3> QED BY <2>1, <3>1, <3>2, <3>3 DEF WorkInv, WorkKeepsRuntime
  <2> QED BY <1>a, <2>1, <2>2
<1>20. CASE Shutdown
  BY <1>20 DEF Shutdown, disks, WorkInv, WorkKeepsRuntime, Quiesce, CallInv, LoadInv, CloseInv
<1>21. CASE ShutdownEvicts
  <2>1. UNCHANGED <<call, turn>> /\ entry' = Evict(Workspaces) /\ \A w \in Workspaces : ~Busy(w)
    BY <1>21 DEF ShutdownEvicts, CloseInv
  <2>2. \A c \in Callers : call[c].pc # "working"
    BY <2>1 DEF CallInv, Busy
  <2>3. \A v \in turn : entry'[v].state \in {"active", "draining"}
    BY <2>1, Evicts DEF WorkInv
  <2> QED BY <2>1, <2>2, <2>3 DEF WorkInv, WorkKeepsRuntime
<1>22. CASE Restart
  BY <1>22 DEF Restart, disks, WorkInv, WorkKeepsRuntime, NoEntry, NoLoad, Idle, CallInv, LoadInv,
     CloseInv
<1> QED
  BY <1>a, <1>1, <1>2, <1>3, <1>4, <1>5, <1>6, <1>7, <1>8, <1>9, <1>10, <1>11, <1>12, <1>13, <1>14,
     <1>15, <1>16, <1>17, <1>18, <1>19, <1>20, <1>21, <1>22
     DEF CallStarts, LoadSteps, EvictionSteps, RemovalSteps, ShutdownSteps, Next, vars, disks,
        LoadBuilt, Provision, RemoveDrained, Removed, RemoveFails, ShutdownDrained, ShutdownDone,
        Exit

\* A place is taken only when one is free, by the load that is served.
LEMMA RoomInvKept ==
  ASSUME TypeOK, CallInv, LoadInv, LineInv, WaitInv, RoomInv, [Next]_vars
  PROVE  RoomInv'
<1> USE DEF TypeOK
<1>a. ASSUME UNCHANGED <<load, entry>> PROVE RoomInv'
  BY <1>a DEF RoomInv, WithinCapacity, Loaded
<1>b. ASSUME \A v \in Workspaces : entry'[v].state = "absent" <=> entry[v].state = "absent",
             \A v \in Workspaces : load'[v].phase = "installing" =>
               load[v].phase = "installing" /\ load'[v].victims = load[v].victims
      PROVE RoomInv'
  <2>1. Loaded' = Loaded
    BY <1>b DEF Loaded
  <2> QED BY <1>b, <2>1 DEF RoomInv, WithinCapacity
<1>f. /\ IsFiniteSet(Loaded) /\ Cardinality(Loaded) \in Nat
      /\ \A V : IsFiniteSet(Loaded \ V) /\ Cardinality(Loaded \ V) \in Nat
  <2>1. Loaded \subseteq Workspaces /\ IsFiniteSet(Workspaces)
    BY WorkspacesAssumption DEF Loaded
  <2>2. IsFiniteSet(Loaded) /\ \A V : IsFiniteSet(Loaded \ V)
    BY <2>1, FS_Subset
  <2> QED BY <2>2, FS_CardinalityType
<1>g. ASSUME NEW c \in Callers, NEW w \in Workspaces, NEW kind \in {"request", "socket"},
             GetOrLoad(c, w, kind)
      PROVE RoomInv'
  <2>1. /\ \/ entry' = entry
           \/ entry[w].state = "save-failed" /\ ~Busy(w) /\ entry' = Evict({w})
        /\ \/ load' = load
           \/ /\ ~Closing(w) /\ entry[w].state = "absent" /\ load[w].phase = "none"
              /\ load' = [load EXCEPT ![w] = Reading] /\ entry' = entry
    BY <1>g, GetsOrLoads
  <2>2. \A v \in Workspaces : entry'[v].state = "absent" <=> entry[v].state = "absent"
    BY <2>1, Evicts
  <2> QED BY <1>b, <2>1, <2>2 DEF Reading
<1>1. ASSUME NEW c \in Callers, NEW w \in Workspaces, StartSocket(c, w) PROVE RoomInv'
  BY <1>1, <1>g DEF StartSocket
<1>2. ASSUME NEW c \in Callers, MarkerRead(c) PROVE RoomInv'
  <2>1. CASE call[c].ws \in marker
    <3>1. call[c].ws \in Workspaces
      BY <1>2 DEF MarkerRead, CallInv
    <3> QED BY <1>2, <1>g, <2>1, <3>1 DEF MarkerRead
  <2> QED BY <1>2, <1>a, <2>1 DEF MarkerRead
<1>3. ASSUME NEW c \in Callers, Change(c) PROVE RoomInv'
  <2>1. \A v \in Workspaces : entry'[v].state = entry[v].state
    BY <1>3 DEF Change, Entries
  <2> QED BY <1>3, <1>b, <2>1 DEF Change
<1>4. ASSUME NEW w \in Workspaces, TurnEnds(w) PROVE RoomInv'
  <2>1. \A v \in Workspaces : entry'[v].state = entry[v].state
    <3>1. CASE entry' = entry
      BY <3>1
    <3>2. CASE entry' = [entry EXCEPT ![w].content = @ + 1]
      BY <3>2 DEF Entries
    <3> QED BY <1>4, <3>1, <3>2 DEF TurnEnds
  <2> QED BY <1>4, <1>b, <2>1 DEF TurnEnds
<1>5. ASSUME NEW w \in Workspaces, LoadFails(w) PROVE RoomInv'
  BY <1>5, <1>b DEF LoadFails, NoLoad
<1>6. ASSUME NEW w \in Workspaces, LoadBuilt(w) PROVE RoomInv'
  BY <1>6, <1>b DEF LoadBuilt
<1>7. ASSUME NEW w \in Workspaces, MakeRoom(w) PROVE RoomInv'
  <2>1. /\ capacity # <<>> /\ Head(capacity) = w
        /\ \A v \in Workspaces : v # w => load'[v] = load[v]
        /\ \/ /\ load'[w].phase = "installing"
              /\ load'[w].victims \in SUBSET Evictable
              /\ \/ load'[w].victims = {} /\ Excess <= 0
                 \/ Cardinality(load'[w].victims) = Excess
              /\ entry' = Evict(load'[w].victims)
           \/ load'[w].phase = "discarding" /\ entry' = entry
    BY <1>7, MakesRoom
  <2>2. CASE load'[w].phase = "discarding" /\ entry' = entry
    BY <1>b, <2>1, <2>2
  <2>3. CASE load'[w].phase = "installing"
    <3> DEFINE V == load'[w].victims
    <3>1. Loaded' = Loaded
      <4>1. \A v \in Workspaces : entry'[v].state = "absent" <=> entry[v].state = "absent"
        BY <2>1, <2>3, Evicts
      <4> QED BY <4>1 DEF Loaded
    <3>2. V \subseteq Loaded
      BY <2>1, <2>3 DEF Evictable, Loaded
    <3>3. Cardinality(Loaded \ V) + 1 <= MaxLoaded
      <4>1. CASE V = {} /\ Excess <= 0
        <5>1. Loaded \ V = Loaded
          BY <4>1
        <5> HIDE DEF V
        <5> QED BY <1>f, <4>1, <5>1, MaxLoadedAssumption DEF Excess
      <4>2. CASE Cardinality(V) = Excess
        <5> HIDE DEF V
        <5>1. Cardinality(Loaded \ V) = Cardinality(Loaded) - Cardinality(V)
          <6>1. Loaded \cap V = V
            BY <3>2
          <6>2. Cardinality(Loaded \ V) = Cardinality(Loaded) - Cardinality(Loaded \cap V)
            BY <1>f, FS_Difference
          <6> QED BY <6>1, <6>2
        <5> QED BY <1>f, <4>2, <5>1, MaxLoadedAssumption DEF Excess
      <4> QED BY <2>1, <2>3, <4>1, <4>2
    <3>4. \A v \in Workspaces : v # w => load'[v].phase # "installing"
      BY <2>1 DEF LineInv
    <3> QED BY <3>1, <3>3, <3>4 DEF RoomInv, WithinCapacity
  <2> QED BY <2>1, <2>2, <2>3
<1>8. ASSUME NEW w \in Workspaces, Install(w) PROVE RoomInv'
  <2>1. /\ load[w].phase = "installing" /\ load[w].victims = {}
        /\ load' = [load EXCEPT ![w] = NoLoad] /\ NoLoad.phase = "none"
        /\ \A v \in Workspaces : v # w => entry'[v] = entry[v]
    BY <1>8 DEF Install, NoLoad
  <2>2. Cardinality(Loaded) + 1 <= MaxLoaded
    <3>1. Loaded \ {} = Loaded
      OBVIOUS
    <3> QED BY <2>1, <3>1 DEF RoomInv
  <2>3. Loaded' \subseteq Loaded \union {w}
    BY <2>1 DEF Loaded
  <2>4. /\ IsFiniteSet(Loaded \union {w})
        /\ Cardinality(Loaded \union {w}) <= Cardinality(Loaded) + 1
    <3>1. /\ IsFiniteSet(Loaded \union {w})
          /\ \/ Cardinality(Loaded \union {w}) = Cardinality(Loaded)
             \/ Cardinality(Loaded \union {w}) = Cardinality(Loaded) + 1
      <4>1. IsFiniteSet(Loaded)
        BY <1>f
      <4> QED BY <4>1, FS_AddElement
    <3> QED BY <1>f, <3>1
  <2>5. Cardinality(Loaded') <= Cardinality(Loaded \union {w}) /\ IsFiniteSet(Loaded')
    BY <2>3, <2>4, FS_Subset
  <2>6. Cardinality(Loaded') \in Nat /\ Cardinality(Loaded \union {w}) \in Nat
    BY <2>4, <2>5, FS_CardinalityType
  <2>7. Cardinality(Loaded') <= MaxLoaded
    BY <1>f, <2>2, <2>4, <2>5, <2>6, MaxLoadedAssumption
  <2>8. \A v \in Workspaces : load'[v].phase # "installing"
    BY <2>1 DEF LineInv
  <2> QED BY <2>7, <2>8 DEF RoomInv, WithinCapacity
<1>9. ASSUME NEW w \in Workspaces, Discarded(w) PROVE RoomInv'
  BY <1>9, <1>b DEF Discarded, NoLoad
<1>10. ASSUME NEW w \in Workspaces, Sweep(w) PROVE RoomInv'
  BY <1>10, <1>b, Evicts DEF Sweep
<1>11. ASSUME NEW w \in Workspaces, Drained(w) PROVE RoomInv'
  <2>1. \A v \in Workspaces : entry'[v].state = "absent" <=> entry[v].state = "absent"
    BY <1>11 DEF Drained, Entries
  <2> QED BY <1>11, <1>b, <2>1 DEF Drained
<1>12. ASSUME NEW w \in Workspaces, Flushed(w) PROVE RoomInv'
  <2>1. EvictionEnds(w, TRUE) /\ entry' = [entry EXCEPT ![w] = NoEntry]
    BY <1>12 DEF Flushed
  <2>2. Loaded' = Loaded \ {w}
    BY <2>1 DEF Loaded, NoEntry
  <2>3. ASSUME NEW X, NEW Y \in SUBSET X, IsFiniteSet(X) PROVE Cardinality(Y) <= Cardinality(X) /\ Cardinality(Y) \in Nat
    BY <2>3, FS_Subset, FS_CardinalityType
  <2>4. Cardinality(Loaded') <= MaxLoaded
    BY <1>f, <2>2, <2>3, MaxLoadedAssumption DEF RoomInv, WithinCapacity
  <2>5. ASSUME NEW v \in Workspaces, load'[v].phase = "installing"
        PROVE  Cardinality(Loaded' \ load'[v].victims) + 1 <= MaxLoaded
    <3>1. load[v].phase = "installing" /\ load[v].victims \subseteq load'[v].victims \union {w}
      BY <2>1, <2>5 DEF EvictionEnds, Reading, Loads
    <3>2. Loaded' \ load'[v].victims \in SUBSET (Loaded \ load[v].victims)
      BY <2>2, <3>1
    <3>3. Cardinality(Loaded \ load[v].victims) + 1 <= MaxLoaded
      BY <3>1 DEF RoomInv
    <3> DEFINE X == Loaded \ load[v].victims
               Y == Loaded' \ load'[v].victims
    <3>4. IsFiniteSet(X) /\ Cardinality(X) \in Nat
      BY <1>f
    <3> HIDE DEF X, Y
    <3>5. Cardinality(Y) <= Cardinality(X) /\ Cardinality(Y) \in Nat
      BY <2>3, <3>2, <3>4 DEF X, Y
    <3>6. Cardinality(X) + 1 <= MaxLoaded
      BY <3>3 DEF X
    <3>7. Cardinality(Y) + 1 <= MaxLoaded
      BY <3>4, <3>5, <3>6, MaxLoadedAssumption
    <3> QED BY <3>7 DEF Y
  <2> QED BY <2>4, <2>5 DEF RoomInv, WithinCapacity
<1>13. ASSUME NEW w \in Workspaces, FlushFails(w) PROVE RoomInv'
  <2>1. EvictionEnds(w, FALSE) /\ entry' = [entry EXCEPT ![w].state = "save-failed"]
        /\ entry[w].state = "flushing"
    BY <1>13 DEF FlushFails
  <2>2. \A v \in Workspaces : load'[v].phase = "installing" => load'[v] = load[v]
    <3> SUFFICES ASSUME NEW v \in Workspaces PROVE load'[v].phase = "installing" => load'[v] = load[v]
      OBVIOUS
    <3>1. \/ load'[v] = load[v]
          \/ load'[v] = [phase |-> "discarding", content |-> load[v].content, victims |-> {}]
      BY <2>1, EvictionsEnd
    <3> QED BY <3>1
  <2>3. \A v \in Workspaces : entry'[v].state = "absent" <=> entry[v].state = "absent"
    BY <2>1 DEF Entries
  <2> QED BY <1>b, <2>2, <2>3
<1>14. ASSUME NEW w \in Workspaces, Remove(w) PROVE RoomInv'
  BY <1>14, <1>b, Quiesces DEF Remove
<1>15. ASSUME NEW w \in Workspaces, RemoveEvicts(w) PROVE RoomInv'
  <2>1. load' = load /\ (entry' = entry \/ entry' = Evict({w}))
    BY <1>15 DEF RemoveEvicts, EvictForRemoval
  <2>2. \A v \in Workspaces : entry'[v].state = "absent" <=> entry[v].state = "absent"
    BY <2>1, Evicts
  <2> QED BY <1>b, <2>1, <2>2
<1>16. CASE Shutdown
  BY <1>16, <1>b, Quiesces DEF Shutdown
<1>17. CASE ShutdownEvicts
  BY <1>17, <1>b, Evicts DEF ShutdownEvicts
<1>18. CASE Restart
  <2>1. /\ \A v \in Workspaces : load'[v].phase = "none"
        /\ Loaded' = {}
    BY <1>18 DEF Restart, NoLoad, NoEntry, Loaded
  <2>2. Cardinality(Loaded') <= MaxLoaded
    BY <2>1, FS_EmptySet, MaxLoadedAssumption
  <2> QED BY <2>1, <2>2 DEF RoomInv, WithinCapacity
<1> QED
  BY <1>a, <1>1, <1>2, <1>3, <1>4, <1>5, <1>6, <1>7, <1>8, <1>9, <1>10, <1>11, <1>12, <1>13, <1>14,
     <1>15, <1>16, <1>17, <1>18
     DEF CallStarts, LoadSteps, EvictionSteps, RemovalSteps, ShutdownSteps, Next, vars, disks,
        StartRequest, StartOperation, OperationAdmitted, StartTurn, End, Provision, RemoveDrained,
        Removed, RemoveFails, ShutdownDrained, ShutdownDone, Exit

\* Every change reaches the copy that counts, and no copy is dropped before it is on disk.
LEMMA DataInvKept ==
  ASSUME TypeOK, CallInv, LoadInv, WorkInv, DataInv, CloseInv, [Next]_vars
  PROVE  DataInv'
<1> USE DEF TypeOK
<1>a. ASSUME UNCHANGED <<process, made, entry, disk, marker>> PROVE DataInv'
  BY <1>a DEF DataInv
<1>g. ASSUME NEW c \in Callers, NEW w \in Workspaces, NEW kind \in {"request", "socket"},
             GetOrLoad(c, w, kind), UNCHANGED <<disks, process>>
      PROVE DataInv'
  <2>1. entry' = entry \/ entry' = Evict({w})
    BY <1>g, GetsOrLoads
  <2>2. \A v \in Workspaces : /\ entry'[v].content = entry[v].content
                              /\ entry'[v].state = "absent" <=> entry[v].state = "absent"
    BY <2>1, Evicts
  <2> QED BY <1>g, <2>2 DEF DataInv, disks
<1>1. ASSUME NEW c \in Callers, NEW w \in Workspaces, StartSocket(c, w) PROVE DataInv'
  BY <1>1, <1>g DEF StartSocket
<1>2. ASSUME NEW c \in Callers, MarkerRead(c) PROVE DataInv'
  <2>1. CASE call[c].ws \in marker
    <3>1. call[c].ws \in Workspaces
      BY <1>2 DEF MarkerRead, CallInv
    <3> QED BY <1>2, <1>g, <2>1, <3>1 DEF MarkerRead
  <2> QED BY <1>2, <1>a, <2>1 DEF MarkerRead, disks
<1>3. ASSUME NEW c \in Callers, Change(c) PROVE DataInv'
  <2>1. /\ call[c].ws \in Workspaces /\ call[c].holds /\ entry[call[c].ws].state = "active"
        /\ process # "down" /\ made[call[c].ws] < MaxChanges
        /\ made' = [made EXCEPT ![call[c].ws] = @ + 1]
        /\ UNCHANGED <<process, disk, marker>>
    BY <1>3 DEF Change, Running, CallInv, WorkInv, WorkKeepsRuntime
  <2>2. entry' = [entry EXCEPT ![call[c].ws].content = @ + 1]
    BY <1>3, <2>1 DEF Change
  <2>3. entry[call[c].ws].content = made[call[c].ws]
    BY <2>1 DEF DataInv
  <2>4. /\ entry'[call[c].ws].content = entry[call[c].ws].content + 1
        /\ \A v \in Workspaces : /\ entry'[v].state = entry[v].state
                                 /\ v # call[c].ws => entry'[v].content = entry[v].content
    BY <2>1, <2>2, <2>3, Changes
  <2> QED BY <2>1, <2>3, <2>4 DEF DataInv
<1>4. ASSUME NEW w \in Workspaces, TurnEnds(w) PROVE DataInv'
  <2>1. /\ entry[w].state # "absent" /\ process # "down" /\ UNCHANGED <<process, disk, marker>>
        /\ \/ UNCHANGED <<made, entry>>
           \/ /\ made[w] < MaxChanges /\ made' = [made EXCEPT ![w] = @ + 1]
              /\ entry' = [entry EXCEPT ![w].content = @ + 1]
    BY <1>4 DEF TurnEnds, Running, WorkInv
  <2>2. entry[w].content = made[w]
    BY <2>1 DEF DataInv
  <2>3. CASE UNCHANGED <<made, entry>>
    BY <1>a, <2>1, <2>3
  <2>4. CASE /\ made[w] < MaxChanges /\ made' = [made EXCEPT ![w] = @ + 1]
             /\ entry' = [entry EXCEPT ![w].content = @ + 1]
    <3>1. /\ entry'[w].content = entry[w].content + 1
          /\ \A v \in Workspaces : /\ entry'[v].state = entry[v].state
                                   /\ v # w => entry'[v].content = entry[v].content
      BY <2>2, <2>4, Changes
    <3> QED BY <2>1, <2>2, <2>4, <3>1 DEF DataInv
  <2> QED BY <2>1, <2>3, <2>4
<1>5. ASSUME NEW w \in Workspaces, MakeRoom(w) PROVE DataInv'
  BY <1>5 DEF MakeRoom, disks, DataInv, EvictForCapacity, Evictable, Excess, Evict, CallInv,
     LoadInv, WorkInv, CloseInv
<1>6. ASSUME NEW w \in Workspaces, Install(w) PROVE DataInv'
  BY <1>6 DEF Install, disks, DataInv, LoadEnds, NoLoad, Working, Idle, CallInv, LoadInv, WorkInv,
     CloseInv
<1>7. ASSUME NEW w \in Workspaces, Sweep(w) PROVE DataInv'
  BY <1>7 DEF Sweep, disks, DataInv, Evictable, Evict, CallInv, LoadInv, WorkInv, CloseInv
<1>8. ASSUME NEW w \in Workspaces, Drained(w) PROVE DataInv'
  BY <1>8 DEF Drained, disks, DataInv, CallInv, LoadInv, WorkInv, CloseInv
<1>9. ASSUME NEW w \in Workspaces, Flushed(w) PROVE DataInv'
  BY <1>9 DEF Flushed, disks, DataInv, EvictionEnds, LineAfter, Evicting, Idle, NoEntry, Reading,
     Closing, CallInv, LoadInv, WorkInv, CloseInv
<1>10. ASSUME NEW w \in Workspaces, FlushFails(w) PROVE DataInv'
  BY <1>10 DEF FlushFails, disks, DataInv, EvictionEnds, LineAfter, Evicting, Idle, Reading,
     CallInv, LoadInv, WorkInv, CloseInv
<1>11. ASSUME NEW w \in Workspaces, Provision(w) PROVE DataInv'
  BY <1>11 DEF Provision, disks, DataInv, CallInv, LoadInv, WorkInv, CloseInv
<1>12. ASSUME NEW w \in Workspaces, Remove(w) PROVE DataInv'
  BY <1>12 DEF Remove, disks, DataInv, Quiesce, CallInv, LoadInv, WorkInv, CloseInv
<1>13. ASSUME NEW w \in Workspaces, RemoveEvicts(w) PROVE DataInv'
  <2>1. UNCHANGED <<disks, process>> /\ (entry' = entry \/ entry' = Evict({w}))
    BY <1>13 DEF RemoveEvicts, EvictForRemoval
  <2>2. \A v \in Workspaces : /\ entry'[v].content = entry[v].content
                              /\ entry'[v].state = "absent" <=> entry[v].state = "absent"
    BY <2>1, Evicts
  <2> QED BY <2>1, <2>2 DEF DataInv, disks
<1>14. ASSUME NEW w \in Workspaces, Removed(w) PROVE DataInv'
  BY <1>14 DEF Removed, disks, DataInv, CallInv, LoadInv, WorkInv, CloseInv
<1>15. ASSUME NEW w \in Workspaces, RemoveFails(w) PROVE DataInv'
  BY <1>15 DEF RemoveFails, disks, DataInv, CallInv, LoadInv, WorkInv, CloseInv
<1>16. CASE Shutdown
  <2>1. \A v \in Workspaces : entry'[v].state = entry[v].state /\ entry'[v].content = entry[v].content
    BY <1>16, Quiesces DEF Shutdown
  <2>2. process # "down" /\ UNCHANGED disks
    BY <1>16 DEF Shutdown, Running
  <2> QED BY <2>1, <2>2 DEF DataInv, disks
<1>17. CASE ShutdownDrained
  BY <1>17 DEF ShutdownDrained, disks, DataInv, CallInv, LoadInv, WorkInv, CloseInv
<1>18. CASE ShutdownEvicts
  BY <1>18 DEF ShutdownEvicts, disks, DataInv, Evict, Loaded, CallInv, LoadInv, WorkInv, CloseInv
<1>19. CASE ShutdownDone
  BY <1>19 DEF ShutdownDone, disks, DataInv, CallInv, LoadInv, WorkInv, CloseInv
<1>20. CASE Exit
  BY <1>20 DEF Exit, disks, DataInv, CallInv, LoadInv, WorkInv, CloseInv
<1>21. CASE Restart
  BY <1>21 DEF Restart, disks, DataInv, NoEntry, NoLoad, Idle, CallInv, LoadInv, WorkInv, CloseInv
<1> QED
  BY <1>a, <1>1, <1>2, <1>3, <1>4, <1>5, <1>6, <1>7, <1>8, <1>9, <1>10, <1>11, <1>12, <1>13, <1>14,
     <1>15, <1>16, <1>17, <1>18, <1>19, <1>20, <1>21
     DEF CallStarts, LoadSteps, EvictionSteps, RemovalSteps, ShutdownSteps, Next, vars, disks,
        StartRequest, StartOperation, OperationAdmitted, StartTurn, End, LoadFails, LoadBuilt,
        Discarded, RemoveDrained

\* What closes takes no more work and no more loads, and is closed once all it had is gone.
LEMMA CloseInvKept ==
  ASSUME TypeOK, CallInv, LoadInv, WaitInv, WorkInv, CloseInv, [Next]_vars
  PROVE  CloseInv'
<1> USE DEF TypeOK
<1>a. ASSUME UNCHANGED <<removal, entry, load, process, call, exitWaits>> PROVE CloseInv'
  BY <1>a DEF CloseInv, Busy
<1>1. ASSUME NEW c \in Callers, NEW w \in Workspaces, StartRequest(c, w) PROVE CloseInv'
  BY <1>1 DEF StartRequest, disks, CloseInv, Busy, Closing, CallInv, LoadInv, WaitInv, WorkInv
<1>2. ASSUME NEW c \in Callers, NEW w \in Workspaces, StartOperation(c, w) PROVE CloseInv'
  BY <1>2 DEF StartOperation, disks, CloseInv, Busy, Closing, CallInv, LoadInv, WaitInv, WorkInv
<1>3. ASSUME NEW c \in Callers, NEW w \in Workspaces, StartSocket(c, w) PROVE CloseInv'
  BY <1>3 DEF StartSocket, disks, CloseInv, Busy, GetOrLoad, Evict, MustLoad, Evicting, Closing,
     Working, Idle, Reading, CallInv, LoadInv, WaitInv, WorkInv
<1>4. ASSUME NEW c \in Callers, MarkerRead(c) PROVE CloseInv'
  BY <1>4 DEF MarkerRead, disks, CloseInv, Busy, GetOrLoad, Evict, MustLoad, Evicting, Closing,
     Working, Idle, Reading, CallInv, LoadInv, WaitInv, WorkInv
<1>5. ASSUME NEW c \in Callers, OperationAdmitted(c) PROVE CloseInv'
  BY <1>5 DEF OperationAdmitted, disks, CloseInv, Busy, Idle, CallInv, LoadInv, WaitInv, WorkInv
<1>6. ASSUME NEW c \in Callers, Change(c) PROVE CloseInv'
  BY <1>6 DEF Change, disks, CloseInv, Busy, CallInv, LoadInv, WaitInv, WorkInv
<1>7. ASSUME NEW c \in Callers, End(c) PROVE CloseInv'
  BY <1>7 DEF End, disks, CloseInv, Busy, Idle, CallInv, LoadInv, WaitInv, WorkInv
<1>8. ASSUME NEW w \in Workspaces, TurnEnds(w) PROVE CloseInv'
  BY <1>8 DEF TurnEnds, disks, CloseInv, Busy, CallInv, LoadInv, WaitInv, WorkInv
<1>9. ASSUME NEW w \in Workspaces, LoadFails(w) PROVE CloseInv'
  BY <1>9 DEF LoadFails, disks, CloseInv, Busy, LoadEnds, NoLoad, Working, Idle, CallInv, LoadInv,
     WaitInv, WorkInv
<1>10. ASSUME NEW w \in Workspaces, LoadBuilt(w) PROVE CloseInv'
  <2>1. /\ load[w].phase = "reading" /\ \A v \in Workspaces : v # w => load'[v] = load[v]
        /\ UNCHANGED <<removal, entry, process, call, exitWaits>>
    BY <1>10 DEF LoadBuilt
  <2>2. removal[w] # "marker" /\ process \notin {"evictions", "stopped", "failed"}
    BY <2>1 DEF CloseInv
  <2> QED BY <2>1, <2>2 DEF CloseInv, Busy
<1>11. ASSUME NEW w \in Workspaces, MakeRoom(w) PROVE CloseInv'
  BY <1>11 DEF MakeRoom, disks, CloseInv, Busy, EvictForCapacity, Evictable, Excess, Evict,
     CallInv, LoadInv, WaitInv, WorkInv
<1>12. ASSUME NEW w \in Workspaces, Install(w) PROVE CloseInv'
  BY <1>12 DEF Install, disks, CloseInv, Busy, LoadEnds, NoLoad, Working, Idle, CallInv, LoadInv,
     WaitInv, WorkInv
<1>13. ASSUME NEW w \in Workspaces, Discarded(w) PROVE CloseInv'
  BY <1>13 DEF Discarded, disks, CloseInv, Busy, LoadEnds, NoLoad, Working, Idle, CallInv, LoadInv,
     WaitInv, WorkInv
<1>14. ASSUME NEW w \in Workspaces, Sweep(w) PROVE CloseInv'
  BY <1>14 DEF Sweep, disks, CloseInv, Busy, Evictable, Evict, CallInv, LoadInv, WaitInv, WorkInv
<1>15. ASSUME NEW w \in Workspaces, Drained(w) PROVE CloseInv'
  BY <1>15 DEF Drained, disks, CloseInv, Busy, CallInv, LoadInv, WaitInv, WorkInv
<1>16. ASSUME NEW w \in Workspaces, Flushed(w) PROVE CloseInv'
  BY <1>16 DEF Flushed, disks, CloseInv, Busy, EvictionEnds, LineAfter, Evicting, Idle, NoEntry,
     Reading, Closing, CallInv, LoadInv, WaitInv, WorkInv
<1>17. ASSUME NEW w \in Workspaces, FlushFails(w) PROVE CloseInv'
  BY <1>17 DEF FlushFails, disks, CloseInv, Busy, EvictionEnds, LineAfter, Evicting, Idle, Reading,
     CallInv, LoadInv, WaitInv, WorkInv
<1>18. ASSUME NEW w \in Workspaces, Remove(w) PROVE CloseInv'
  BY <1>18 DEF Remove, disks, CloseInv, Busy, Quiesce, CallInv, LoadInv, WaitInv, WorkInv
<1>19. ASSUME NEW w \in Workspaces, RemoveDrained(w) PROVE CloseInv'
  BY <1>19 DEF RemoveDrained, disks, CloseInv, Busy, CallInv, LoadInv, WaitInv, WorkInv
<1>20. ASSUME NEW w \in Workspaces, RemoveEvicts(w) PROVE CloseInv'
  BY <1>20 DEF RemoveEvicts, disks, CloseInv, Busy, EvictForRemoval, Evict, CallInv, LoadInv,
     WaitInv, WorkInv
<1>21. ASSUME NEW w \in Workspaces, Removed(w) PROVE CloseInv'
  BY <1>21 DEF Removed, disks, CloseInv, Busy, CallInv, LoadInv, WaitInv, WorkInv
<1>22. ASSUME NEW w \in Workspaces, RemoveFails(w) PROVE CloseInv'
  BY <1>22 DEF RemoveFails, disks, CloseInv, Busy, CallInv, LoadInv, WaitInv, WorkInv
<1>23. CASE Shutdown
  BY <1>23 DEF Shutdown, disks, CloseInv, Busy, Quiesce, CallInv, LoadInv, WaitInv, WorkInv
<1>24. CASE ShutdownDrained
  BY <1>24 DEF ShutdownDrained, disks, CloseInv, Busy, CallInv, LoadInv, WaitInv, WorkInv
<1>25. CASE ShutdownEvicts
  BY <1>25 DEF ShutdownEvicts, disks, CloseInv, Busy, Evict, Loaded, CallInv, LoadInv, WaitInv,
     WorkInv
<1>26. CASE ShutdownDone
  BY <1>26 DEF ShutdownDone, disks, CloseInv, Busy, CallInv, LoadInv, WaitInv, WorkInv
<1>27. CASE Exit
  BY <1>27 DEF Exit, disks, CloseInv, Busy, CallInv, LoadInv, WaitInv, WorkInv
<1>28. CASE Restart
  BY <1>28 DEF Restart, disks, CloseInv, Busy, NoEntry, NoLoad, Idle, CallInv, LoadInv, WaitInv,
     WorkInv
<1> QED
  BY <1>a, <1>1, <1>2, <1>3, <1>4, <1>5, <1>6, <1>7, <1>8, <1>9, <1>10, <1>11, <1>12, <1>13, <1>14,
     <1>15, <1>16, <1>17, <1>18, <1>19, <1>20, <1>21, <1>22, <1>23, <1>24, <1>25, <1>26, <1>27,
     <1>28
     DEF CallStarts, LoadSteps, EvictionSteps, RemovalSteps, ShutdownSteps, Next, vars, disks,
        StartTurn, Provision

-----------------------------------------------------------------------------
\* The theorems

LEMMA InitEstablishes == Init => IInv
<1> SUFFICES ASSUME Init PROVE IInv
  OBVIOUS
<1>1. TypeOK
  <2>1. 0 \in Contents
    BY MaxChangesAssumption DEF Contents
  <2> QED BY <2>1, Records DEF Init, TypeOK
<1>2. Loaded = {} /\ Cardinality(Loaded) = 0
  <2>1. Loaded = {}
    BY DEF Init, Loaded, NoEntry
  <2> QED BY <2>1, FS_EmptySet
<1>3. CallInv /\ WaitInv /\ WorkInv
  BY DEF Init, Idle, NoLoad, CallInv, WaitInv, WorkInv, WorkKeepsRuntime
<1>4. LoadInv /\ LineInv
  BY DEF Init, NoEntry, NoLoad, LoadInv, LineInv
<1>5. RoomInv
  BY <1>2, MaxLoadedAssumption DEF Init, NoLoad, RoomInv, WithinCapacity
<1>6. DataInv /\ CloseInv
  BY DEF Init, NoEntry, NoLoad, DataInv, CloseInv
<1> QED BY <1>1, <1>3, <1>4, <1>5, <1>6 DEF IInv

LEMMA Inductive == IInv /\ [Next]_vars => IInv'
<1> SUFFICES ASSUME IInv, [Next]_vars PROVE IInv'
  OBVIOUS
<1>1. /\ TypeOK /\ CallInv /\ LoadInv /\ LineInv /\ WaitInv
      /\ WorkInv /\ RoomInv /\ DataInv /\ CloseInv
  BY DEF IInv
<1>2. TypeOK' /\ CallInv'
  BY <1>1, TypeOKKept, CallInvKept
<1>3. LoadInv' /\ LineInv' /\ WaitInv'
  BY <1>1, LoadInvKept, LineInvKept, WaitInvKept
<1>4. WorkInv' /\ RoomInv' /\ DataInv' /\ CloseInv'
  BY <1>1, WorkInvKept, RoomInvKept, DataInvKept, CloseInvKept
<1> QED BY <1>2, <1>3, <1>4 DEF IInv

\* All parts of the invariant hold in every behaviour of the registry.
THEOREM Invariance == Spec => []IInv
BY InitEstablishes, Inductive, PTL DEF Spec

\* The registry's state keeps its types (runtime-registry.ts).
THEOREM TypesHold == Spec => []TypeOK
<1>1. IInv => TypeOK
  BY DEF IInv
<1> QED BY <1>1, Invariance, PTL

\* However many loads build at once, the map never holds more runtimes than
\* maxLoadedWorkspaces (getOrLoad, installLoadedEntry, evictForCapacity).
THEOREM CapacityHolds == Spec => []WithinCapacity
<1>1. IInv => WithinCapacity
  BY DEF IInv, RoomInv
<1> QED BY <1>1, Invariance, PTL

\* A runtime is built only while none is loaded, evicted or kept after a failed save
\* (getOrLoad, evictOne).
THEOREM NeverTwoRuntimes == Spec => []OneRuntime
<1>1. IInv => OneRuntime
  BY DEF IInv, LoadInv, OneRuntime
<1> QED BY <1>1, Invariance, PTL

\* No eviction, removal or shutdown drains a runtime that a request or an operation works
\* on (withWorkspace, runWorkspaceOperation, evictOne).
THEOREM WorkIsUndisturbed == Spec => []WorkKeepsRuntime
<1>1. IInv => WorkKeepsRuntime
  BY DEF IInv, WorkInv
<1> QED BY <1>1, Invariance, PTL

\* Across evictions, failed saves, removals and restarts the latest copy of a Workspace
\* holds every change made to it (getOrLoad, disposeRuntime).
THEOREM ChangesSurvive == Spec => []NoChangeLost
<1>1. IInv => NoChangeLost
  BY DEF IInv, TypeOK, DataInv, NoChangeLost
<1> QED BY <1>1, Invariance, PTL

\* A removed Workspace has no runtime and none on its way; a shutdown that succeeded has
\* saved and closed every one (remove, shutdown).
THEOREM NothingStaysBehind == Spec => []NothingLeftBehind
<1>1. IInv => NothingLeftBehind
  <2> SUFFICES ASSUME IInv PROVE NothingLeftBehind
    OBVIOUS
  <2>1. \A w \in Workspaces \ marker : entry[w].state = "absent" /\ load[w].phase \in {"none", "reading"}
    <3>1. \A w \in Workspaces : load[w].phase \in {"none", "reading", "queued", "installing", "discarding"}
      BY DEF IInv, TypeOK, Loads
    <3> QED BY <3>1 DEF IInv, DataInv, LoadInv
  <2>2. process = "stopped" => \A w \in Workspaces : /\ entry[w].state = "absent"
                                                    /\ load[w].phase = "none"
                                                    /\ disk[w] = made[w]
    BY DEF IInv, CloseInv, DataInv
  <2> QED BY <2>1, <2>2 DEF NothingLeftBehind
<1> QED BY <1>1, Invariance, PTL

\* Nobody waits for what is over, and whoever is served in the line for a place can go on
\* or waits for an eviction under way (getOrLoad, installLoadedEntry, evictOne).
THEOREM NobodyWaitsInVain == Spec => []WaitsAreFounded
<1>1. IInv => WaitsAreFounded
  <2> SUFFICES ASSUME IInv PROVE WaitsAreFounded
    OBVIOUS
  <2>1. exitWaits \subseteq Workspaces /\ \A w \in Workspaces : load[w].victims \subseteq Workspaces
    BY DEF IInv, TypeOK, Loads
  <2> QED BY <2>1 DEF IInv, WaitInv, LineInv, WaitsAreFounded
<1> QED BY <1>1, Invariance, PTL
=============================================================================
