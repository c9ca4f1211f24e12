------------------------------ MODULE RunCommit ------------------------------
(* The commit pipeline of one Simulation Run in World: runtime.ts with its
   event-log.ts, snapshot-store.ts and the recovery checks of registry.ts.

   Publishers hand batches of events to one publish queue.  The head of the
   queue numbers its events, appends the durable ones to the journal, applies
   the batch to the committed state, saves a snapshot (at once for durable
   events, on a timer for projected ones) and lets the Packs observe it.  A step
   stands for the code between two awaits.  A failure whose outcome is unknown
   stops the Run and quarantines it on disk; a crash may happen anywhere.

   Events are their sequence numbers.  Of a batch the model keeps the last
   number and which numbers are durable; of a state or a snapshot, the last
   sequence applied to it and the durable events it reflects. *)
EXTENDS Naturals, Sequences

CONSTANTS
  Commands,    \* callers of invokeCapability and other awaited operations
  Emitters,    \* Pack Runtime emissions that may be in flight at one time
  Timer,       \* the owner of a snapshot save nobody awaits
  NoSnapshot,  \* snapshot.json does not exist
  MaxSeq,      \* bound: no new request once this sequence number is reached
  MaxBatch,    \* bound: events in one batch
  MaxCrashes,  \* bound: crashes of the process
  MaxLate      \* bound: appends that closed runtimes have in flight at one time

Publishers == Commands \union Emitters

ASSUME PublisherAssumption == Commands \intersect Emitters = {} /\ Timer \notin Publishers
Batches == [last : Nat, durable : SUBSET Nat]
States == [seq : Nat, durable : SUBSET Nat]

ASSUME SnapshotAssumption == NoSnapshot \notin States
ASSUME BoundAssumption == MaxSeq \in Nat /\ MaxBatch \in Nat /\ MaxCrashes \in Nat
                          /\ MaxLate \in Nat

VARIABLES
  \* on disk
  journal,     \* events.jsonl: the sequence numbers of the lines written to it
  damaged,     \* events.jsonl cannot be read back: a partial line, or one out of order
  snapshot,    \* snapshot.json
  marker,      \* snapshot.json.failed
  \* in the process
  phase,       \* of the runtime: stopped, open, the steps of close, ...
  seq,         \* the last sequence number handed out
  committed,   \* committedState: [seq, durable]
  publishing,  \* publishQueue; the head is the publish at work
  pc,          \* where each publisher is
  half,        \* of a command: 1 publishing command.issued, 2 command.result
  batch,       \* the events a publisher is committing: [last, durable]
  written,     \* durable events a publisher's request has committed so far
  checked,     \* the event log remembers its last number (lastPersistedSeq)
  saving,      \* snapshotSaveQueue; the head is the save at work
  saveStep,    \* of the head: idle, writing, failing
  capture,     \* the state a save is writing
  timer,       \* projectedSnapshotTimer is armed (projectedSnapshotDirty)
  failure,     \* commitFailure
  quarantine,  \* quarantinePending: none, writing, settled
  emissionFailure, \* runtimeEmissionFailure
  \* of the runtimes closed and left before this one
  late,        \* the durable events of each append they still have in flight
  \* history
  overtaken,   \* a runtime was loaded while such an append was in flight
  unproven,    \* a quarantine failed: "restart safety is unproven"
  acked,       \* durable events of commands that were answered with success
  crashes

disk == <<journal, damaged, snapshot, marker>>
queue == <<publishing, pc, half, batch, written, checked>>
saves == <<saving, saveStep, capture>>
stop == <<failure, quarantine>>
past == <<late, overtaken, unproven, crashes>>
vars == <<disk, phase, seq, committed, queue, saves, timer, stop,
          emissionFailure, acked, past>>

ClosePhases == {"operations", "clock", "emissions", "connection", "saves", "final"}
Live == phase = "open" \/ phase \in ClosePhases
NoBatch == [last |-> 0, durable |-> {}]
Empty == [seq |-> 0, durable |-> {}]

\* assertCommitAvailable
Available == failure = "none" /\ phase # "closed"

\* The highest of a nonempty set of sequence numbers.
Top(S) == CHOOSE n \in S : \A m \in S : m <= n

\* The batches that can be numbered next, within the bounds.
NextBatches ==
  {b \in [last : {n \in seq + 1..seq + MaxBatch : n <= MaxSeq},
          durable : SUBSET (seq + 1..seq + MaxBatch)] :
     \A s \in b.durable : s <= b.last}

\* What an append that did not complete may have left of the durable events D.
Prefixes(D) == {{s \in D : s <= n} : n \in D \union {0}}

\* Mutant: the journal is not compared with the snapshot.
RecoverableUncompared == ~marker /\ ~damaged

\* Mutant: the quarantine marker is not looked for.
RecoverableUnmarked == ~damaged /\ (snapshot # NoSnapshot => \A s \in journal : s <= snapshot.seq)

\* The disk describes a Run that createRuntime accepts.
Recoverable == /\ ~marker
               /\ ~damaged
               /\ snapshot # NoSnapshot => \A s \in journal : s <= snapshot.seq

Init ==
  /\ journal = {} /\ damaged = FALSE
  /\ snapshot = NoSnapshot /\ marker = FALSE
  /\ phase = "stopped" /\ seq = 0 /\ committed = Empty
  /\ publishing = <<>> /\ pc = [p \in Publishers |-> "idle"]
  /\ half = [p \in Publishers |-> 1]
  /\ batch = [p \in Publishers |-> NoBatch] /\ written = [p \in Publishers |-> {}]
  /\ checked = FALSE
  /\ saving = <<>> /\ saveStep = "idle" /\ capture = Empty
  /\ timer = FALSE /\ failure = "none" /\ quarantine = "none"
  /\ emissionFailure = FALSE
  /\ late = <<>> /\ overtaken = FALSE /\ unproven = FALSE
  /\ acked = {} /\ crashes = 0

-----------------------------------------------------------------------------
(* Failure: the first one stops the Run and starts the quarantine; every caller
   waits for the quarantine before it throws. *)

FailCommit(kind) ==
  IF failure = "none"
  THEN failure' = kind /\ quarantine' = "writing" /\ timer' = FALSE
  ELSE UNCHANGED <<stop, timer>>

QuarantineSettles ==
  /\ quarantine = "writing"
  /\ quarantine' = "settled"
  /\ \/ marker' = TRUE /\ UNCHANGED unproven
     \/ marker' \in {marker, TRUE} /\ unproven' = TRUE
  /\ UNCHANGED <<journal, damaged, snapshot, phase, seq, committed, queue, saves, timer,
                 failure, emissionFailure, late, overtaken, acked, crashes>>

(* The publish at the head of the queue is over.  A command publishes twice,
   before and after its Pack accepts it; an emission's error is kept for the
   next drain. *)

Succeed(p) ==
  /\ publishing' = Tail(publishing)
  /\ pc' = [pc EXCEPT ![p] = IF p \in Commands /\ half[p] = 1 THEN "dispatched" ELSE "idle"]
  /\ written' = [written EXCEPT ![p] = IF p \in Commands /\ half[p] = 1 THEN @ ELSE {}]
  /\ half' = [half EXCEPT ![p] = 1]
  /\ acked' = IF p \in Commands /\ half[p] = 2 THEN acked \union written[p] ELSE acked
  /\ UNCHANGED emissionFailure

\* Mutant: a rejected publish leaves the queue waiting for it.
RejectHoldsQueue(p) ==
  /\ pc' = [pc EXCEPT ![p] = "idle"]
  /\ half' = [half EXCEPT ![p] = 1] /\ written' = [written EXCEPT ![p] = {}]
  /\ emissionFailure' = (emissionFailure \/ p \in Emitters)
  /\ UNCHANGED <<publishing, acked>>

Withdraw(p) ==
  /\ publishing' = Tail(publishing)
  /\ pc' = [pc EXCEPT ![p] = "idle"]
  /\ half' = [half EXCEPT ![p] = 1] /\ written' = [written EXCEPT ![p] = {}]
  /\ UNCHANGED acked

Reject(p) == Withdraw(p) /\ emissionFailure' = (emissionFailure \/ p \in Emitters)

Dismiss(p) == Withdraw(p) /\ UNCHANGED emissionFailure

-----------------------------------------------------------------------------
(* Entering the queue. *)

\* invokeCapability: admitted at an execution boundary, then prepared outside of
\* every queue while commandsInFlight keeps close waiting.
Admit(c) ==
  /\ phase = "open" /\ failure = "none" /\ seq < MaxSeq
  /\ pc[c] = "idle"
  /\ pc' = [pc EXCEPT ![c] = "prepared"]
  /\ UNCHANGED <<disk, phase, seq, committed, publishing, half, batch, written, checked, saves, timer,
                 stop, emissionFailure, acked, past>>

Enqueue(c) ==
  /\ pc[c] = "prepared"
  /\ pc' = [pc EXCEPT ![c] = "queued"]
  /\ publishing' = Append(publishing, c)
  /\ UNCHANGED <<disk, phase, seq, committed, half, batch, written, checked, saves, timer, stop,
                 emissionFailure, acked, past>>

\* The Pack throws on the command it is sent.
DispatchThrows(c) ==
  /\ pc[c] = "dispatched"
  /\ pc' = [pc EXCEPT ![c] = "idle"]
  /\ written' = [written EXCEPT ![c] = {}]
  /\ UNCHANGED <<disk, phase, seq, committed, publishing, half, batch, checked, saves, timer,
                 stop, emissionFailure, acked, past>>

\* drainRuntimeEmissions between a command's dispatch and its result: it waits
\* until no emission is pending, and throws the error one of them left behind.
Dispatched(c) ==
  /\ pc[c] = "dispatched"
  /\ \A e \in Emitters : pc[e] = "idle"
  /\ IF emissionFailure
     THEN /\ pc' = [pc EXCEPT ![c] = "idle"]
          /\ written' = [written EXCEPT ![c] = {}]
          /\ UNCHANGED <<publishing, half>>
     ELSE /\ pc' = [pc EXCEPT ![c] = "queued"]
          /\ publishing' = Append(publishing, c)
          /\ half' = [half EXCEPT ![c] = 2]
          /\ UNCHANGED written
  /\ emissionFailure' = FALSE
  /\ UNCHANGED <<disk, phase, seq, committed, batch, checked, saves, timer, stop, acked, past>>

\* The runtime subscription, until close unsubscribes; ignored once a commit failed.
Emit(e) ==
  /\ phase \in {"open", "operations", "clock", "emissions"} /\ failure = "none" /\ seq < MaxSeq
  /\ pc[e] = "idle"
  /\ pc' = [pc EXCEPT ![e] = "queued"]
  /\ publishing' = Append(publishing, e)
  /\ UNCHANGED <<disk, phase, seq, committed, half, batch, written, checked, saves, timer, stop,
                 emissionFailure, acked, past>>

-----------------------------------------------------------------------------
(* The publish at the head of the queue: enqueuePublish and publishManyNow. *)

AtHead(p) == publishing # <<>> /\ Head(publishing) = p

\* The queue slot is refused, or the numbered batch fails its validation: nothing
\* has changed but the numbers handed out.  An emission refused for its audience
\* is logged as a fault of its Pack and not kept for the next drain.
BeginRefused(p) ==
  /\ pc[p] = "queued" /\ AtHead(p)
  /\ seq' \in IF Available /\ NextBatches # {} THEN {b.last : b \in NextBatches} ELSE {seq}
  /\ \/ Reject(p)
     \/ Available /\ p \in Emitters /\ Dismiss(p)
  /\ UNCHANGED <<disk, phase, committed, batch, checked, saves, timer, stop, past>>

Increasing(D) == \A s \in D, t \in journal : t < s

\* The first append of an event log compares its events with the last line of the
\* file, later ones with the number it remembers; what it reads of a damaged file
\* is left open.
Checks(D) == \/ checked' = (checked \/ (D # {} /\ Increasing(D)))
             \/ damaged /\ D # {} /\ checked' = TRUE

\* Mutant: the committed state is updated before the journal.
BeginCommitted(p) ==
  /\ pc[p] = "queued" /\ AtHead(p)
  /\ Available
  /\ \E b \in NextBatches :
       /\ batch' = [batch EXCEPT ![p] = b] /\ seq' = b.last /\ Checks(b.durable)
       /\ committed' = [seq |-> b.last, durable |-> committed.durable \union b.durable]
  /\ pc' = [pc EXCEPT ![p] = "append"]
  /\ UNCHANGED <<disk, phase, publishing, half, written, saves, timer, stop,
                 emissionFailure, acked, past>>

\* The events are numbered and applied to the admission state, and the event log
\* makes its check.
Begin(p) ==
  /\ pc[p] = "queued" /\ AtHead(p)
  /\ Available
  /\ \E b \in NextBatches :
       batch' = [batch EXCEPT ![p] = b] /\ seq' = b.last /\ Checks(b.durable)
  /\ pc' = [pc EXCEPT ![p] = "append"]
  /\ UNCHANGED <<disk, phase, committed, publishing, half, written, saves, timer, stop,
                 emissionFailure, acked, past>>

\* state.apply throws on one of them.
BeginFails(p) ==
  /\ pc[p] = "queued" /\ AtHead(p)
  /\ Available
  /\ \E b \in NextBatches : seq' = b.last
  /\ pc' = [pc EXCEPT ![p] = "failing"]
  /\ FailCommit("uncertain")
  /\ UNCHANGED <<disk, phase, committed, publishing, half, batch, written, checked, saves,
                 emissionFailure, acked, past>>

\* appendFile: all of D reaches the file, or a part, the last line of it possibly
\* cut short.
Writes(D) == journal' = journal \union D /\ damaged' = (damaged \/ ~Increasing(D))
WritesPartly(D) == \E part \in Prefixes(D) : /\ journal' = journal \union part
                                            /\ damaged' \in {damaged \/ ~Increasing(part), TRUE}

\* Mutant: the snapshot of a durable batch is left to the timer too.
CommitSavesLater(p) ==
  LET D == batch[p].durable IN
  /\ pc[p] = "append"
  /\ D # {} => checked
  /\ Writes(D)
  /\ committed' = [seq |-> batch[p].last, durable |-> committed.durable \union D]
  /\ written' = [written EXCEPT ![p] = @ \union D]
  /\ batch' = [batch EXCEPT ![p] = NoBatch]
  /\ timer' = TRUE /\ pc' = [pc EXCEPT ![p] = "observe"]
  /\ UNCHANGED <<snapshot, marker, phase, seq, publishing, half, checked, saves, stop,
                 emissionFailure, acked, past>>

\* appendMany has written the durable events; committedState follows, and the
\* snapshot is saved at once or left to the timer.
Commit(p) ==
  LET D == batch[p].durable IN
  /\ pc[p] = "append"
  /\ D # {} => checked
  /\ Writes(D)
  /\ committed' = [seq |-> batch[p].last, durable |-> committed.durable \union D]
  /\ written' = [written EXCEPT ![p] = @ \union D]
  /\ batch' = [batch EXCEPT ![p] = NoBatch]
  /\ IF D # {}
     THEN timer' = FALSE /\ saving' = Append(saving, p) /\ pc' = [pc EXCEPT ![p] = "save"]
     ELSE timer' = TRUE /\ UNCHANGED saving /\ pc' = [pc EXCEPT ![p] = "observe"]
  /\ UNCHANGED <<snapshot, marker, phase, seq, publishing, half, checked, saveStep, capture,
                 stop, emissionFailure, acked, past>>

\* appendMany throws: the sequence check before it writes, or the write itself,
\* after none or some of the lines.
CommitFails(p) ==
  LET D == batch[p].durable IN
  /\ pc[p] = "append" /\ D # {}
  /\ \/ UNCHANGED <<journal, damaged>>
     \/ checked /\ WritesPartly(D)
  /\ pc' = [pc EXCEPT ![p] = "failing"]
  /\ batch' = [batch EXCEPT ![p] = NoBatch]
  /\ FailCommit("uncertain")
  /\ UNCHANGED <<snapshot, marker, phase, seq, committed, publishing, half, written, checked, saves,
                 emissionFailure, acked, past>>

\* observeCommittedEvents succeeds, and the slot is over.
Observe(p) ==
  /\ pc[p] = "observe"
  /\ Succeed(p)
  /\ UNCHANGED <<disk, phase, seq, committed, batch, checked, saves, timer, stop, past>>

\* The slot publishes again: an observation of a procedure step, or what an
\* emission holds beyond an interaction signal.
ObserveAgain(p) ==
  /\ pc[p] = "observe" /\ seq < MaxSeq
  /\ pc' = [pc EXCEPT ![p] = "queued"]
  /\ UNCHANGED <<disk, phase, seq, committed, publishing, half, batch, written, checked, saves, timer,
                 stop, emissionFailure, acked, past>>

\* A Pack missed events that are committed.
ObserveFails(p) ==
  /\ pc[p] = "observe"
  /\ pc' = [pc EXCEPT ![p] = "failing"]
  /\ FailCommit("observer")
  /\ UNCHANGED <<disk, phase, seq, committed, publishing, half, batch, written, checked, saves,
                 emissionFailure, acked, past>>

\* Mutant: a quarantine that could not be written is never reported.
ThrowQuarantined(p) ==
  /\ pc[p] = "failing" /\ quarantine = "settled" /\ marker
  /\ Reject(p)
  /\ UNCHANGED <<disk, phase, seq, committed, batch, checked, saves, timer, stop, past>>

\* failCommit throws once the quarantine is settled.
Throw(p) ==
  /\ pc[p] = "failing" /\ quarantine = "settled"
  /\ Reject(p)
  /\ UNCHANGED <<disk, phase, seq, committed, batch, checked, saves, timer, stop, past>>

-----------------------------------------------------------------------------
(* Snapshot saves: queueSnapshotSave. *)

TimerFires ==
  /\ timer
  /\ timer' = FALSE
  /\ saving' = Append(saving, Timer)
  /\ UNCHANGED <<disk, phase, seq, committed, queue, saveStep, capture, stop,
                 emissionFailure, acked, past>>

\* The save at the head takes the committed state as it is now.
SaveBegins ==
  /\ saving # <<>> /\ saveStep = "idle" /\ Available
  /\ saveStep' = "writing" /\ capture' = committed
  /\ UNCHANGED <<disk, phase, seq, committed, queue, saving, timer, stop, emissionFailure,
                 acked, past>>

\* The owner of the save at the head goes on, or is refused with it.
OwnerObserves ==
  IF Head(saving) = Timer
  THEN UNCHANGED <<queue, emissionFailure, acked>>
  ELSE /\ pc' = [pc EXCEPT ![Head(saving)] = "observe"]
       /\ UNCHANGED <<publishing, half, batch, written, checked, emissionFailure, acked>>

OwnerRejected ==
  IF Head(saving) = Timer
  THEN UNCHANGED <<queue, emissionFailure, acked>>
  ELSE Reject(Head(saving)) /\ UNCHANGED <<batch, checked>>

SaveRefused ==
  /\ saving # <<>> /\ saveStep = "idle" /\ ~Available
  /\ saving' = Tail(saving)
  /\ OwnerRejected
  /\ UNCHANGED <<disk, phase, seq, committed, saveStep, capture, timer, stop, past>>

SaveDone ==
  /\ saveStep = "writing"
  /\ snapshot' = capture
  /\ saving' = Tail(saving) /\ saveStep' = "idle" /\ capture' = Empty
  /\ OwnerObserves
  /\ UNCHANGED <<journal, damaged, marker, phase, seq, committed, timer, stop, past>>

\* writeAtomic throws before its rename, or after it.
SaveFails ==
  /\ saveStep = "writing"
  /\ saveStep' = "failing" /\ capture' = Empty
  /\ snapshot' \in {snapshot, capture}
  /\ FailCommit("uncertain")
  /\ UNCHANGED <<journal, damaged, marker, phase, seq, committed, queue, saving, emissionFailure, acked, past>>

SaveThrows ==
  /\ saveStep = "failing" /\ quarantine = "settled"
  /\ saving' = Tail(saving) /\ saveStep' = "idle"
  /\ OwnerRejected
  /\ UNCHANGED <<disk, phase, seq, committed, capture, timer, stop, past>>

-----------------------------------------------------------------------------
(* close.  Its steps stand for its awaits: the operations admitted before it,
   the Packs' clock, the pending emissions, the Pack connection, the snapshot
   saves in the queue, and the final snapshot. *)

BeginClose ==
  /\ phase = "open"
  /\ phase' = "operations"
  /\ UNCHANGED <<disk, seq, committed, queue, saves, timer, stop, emissionFailure, acked, past>>

OperationsEnd ==
  /\ phase = "operations"
  /\ \A c \in Commands : pc[c] = "idle"
  /\ phase' = "clock"
  /\ UNCHANGED <<disk, seq, committed, queue, saves, timer, stop, emissionFailure, acked, past>>

\* A failed Run skips its Packs; otherwise their clock is stopped, or is not.
StopClock ==
  /\ phase = "clock"
  /\ \/ failure = "none" /\ phase' = "emissions" /\ UNCHANGED <<timer, stop>>
     \/ phase' = "connection" /\ FailCommit("uncertain")
  /\ UNCHANGED <<disk, seq, committed, queue, saves, emissionFailure, acked, past>>

\* Mutant: close goes on with emissions still pending.
EmissionsEndEarly ==
  /\ phase = "emissions"
  /\ phase' = "connection"
  /\ emissionFailure' = FALSE
  /\ IF emissionFailure THEN FailCommit("uncertain") ELSE UNCHANGED <<timer, stop>>
  /\ UNCHANGED <<disk, seq, committed, queue, saves, acked, past>>

\* drainRuntimeEmissions, whose error close treats as a failed commit.
EmissionsEnd ==
  /\ phase = "emissions"
  /\ \A e \in Emitters : pc[e] = "idle"
  /\ phase' = "connection"
  /\ emissionFailure' = FALSE
  /\ IF emissionFailure THEN FailCommit("uncertain") ELSE UNCHANGED <<timer, stop>>
  /\ UNCHANGED <<disk, seq, committed, queue, saves, acked, past>>

\* The connection closes, or fails to, and the timer is cleared.
Disconnect ==
  /\ phase = "connection" /\ quarantine # "writing"
  /\ phase' = "saves"
  /\ timer' = FALSE
  /\ \/ UNCHANGED stop
     \/ failure = "none" /\ failure' = "uncertain" /\ quarantine' = "writing"
  /\ UNCHANGED <<disk, seq, committed, queue, saves, emissionFailure, acked, past>>

\* Mutant: the final snapshot does not wait for the saves in the queue.
SavesEndEarly ==
  /\ phase = "saves" /\ quarantine # "writing"
  /\ phase' = IF failure = "none" THEN "final" ELSE "closed"
  /\ UNCHANGED <<disk, seq, committed, queue, saves, timer, stop, emissionFailure, acked, past>>

SavesEnd ==
  /\ phase = "saves" /\ saving = <<>> /\ quarantine # "writing"
  /\ phase' = IF failure = "none" THEN "final" ELSE "closed"
  /\ UNCHANGED <<disk, seq, committed, queue, saves, timer, stop, emissionFailure, acked, past>>

FinalSave ==
  /\ phase = "final"
  /\ \/ snapshot' = committed /\ phase' = "closed" /\ UNCHANGED <<timer, stop>>
     \/ snapshot' \in {snapshot, committed} /\ phase' = "saves" /\ FailCommit("uncertain")
  /\ UNCHANGED <<journal, damaged, marker, seq, committed, queue, saves, emissionFailure,
                 acked, past>>

-----------------------------------------------------------------------------
(* The process may stop at any time.  An append in flight leaves any part of its
   lines; an atomic write in flight has happened or has not. *)

Forget ==
  /\ publishing' = <<>> /\ pc' = [p \in Publishers |-> "idle"]
  /\ half' = [p \in Publishers |-> 1]
  /\ batch' = [p \in Publishers |-> NoBatch] /\ written' = [p \in Publishers |-> {}]
  /\ checked' = FALSE
  /\ saving' = <<>> /\ saveStep' = "idle" /\ capture' = Empty
  /\ timer' = FALSE /\ failure' = "none" /\ quarantine' = "none"
  /\ emissionFailure' = FALSE

Crash ==
  /\ phase # "stopped" /\ crashes < MaxCrashes
  /\ crashes' = crashes + 1
  /\ phase' = "stopped" /\ seq' = 0 /\ committed' = Empty
  /\ \/ UNCHANGED <<journal, damaged>>
     \/ \E p \in Publishers :
          /\ pc[p] = "append" /\ batch[p].durable # {} /\ checked
          /\ WritesPartly(batch[p].durable)
  /\ \/ UNCHANGED snapshot
     \/ saveStep = "writing" /\ snapshot' = capture
     \/ phase \in {"starting", "final"} /\ snapshot' = committed
  /\ \/ UNCHANGED marker
     \/ quarantine = "writing" /\ marker' = TRUE
  /\ Forget
  /\ late' = <<>>
  /\ UNCHANGED <<overtaken, unproven, acked>>

(* createRuntime: the checks on what is on disk, then the restored state, or the
   first snapshot of a fresh Run before anything is journaled.  A load waits for
   the close before it, but not for what that close has left: after a failure
   close skips the drain, and an append may still be in flight.  It lands, whole
   or in part, under whatever runtime is there; the rest of the old runtime's
   work is refused by its failure and touches nothing but its own memory.  (A
   close that threw leaves its runtime registered; a second one, which finds
   everything skipped or settled, removes it.) *)

AppendLeft ==
  LET p == Head(publishing) IN
  IF publishing # <<>> /\ pc[p] = "append" /\ batch[p].durable # {}
  THEN <<batch[p].durable>> ELSE <<>>

LeaveBehind == late' = late \o AppendLeft /\ Len(late') <= MaxLate

LateAppend(i) ==
  /\ WritesPartly(late[i])
  /\ late' = SubSeq(late, 1, i - 1) \o SubSeq(late, i + 1, Len(late))
  /\ UNCHANGED <<snapshot, marker, phase, seq, committed, queue, saves, timer, stop,
                 emissionFailure, overtaken, unproven, acked, crashes>>

LoadRefused ==
  /\ phase \in {"stopped", "closed", "refused"}
  /\ ~Recoverable
  /\ phase' = "refused" /\ seq' = 0 /\ committed' = Empty
  /\ Forget /\ LeaveBehind
  /\ UNCHANGED <<disk, overtaken, unproven, acked, crashes>>

Overtake == LeaveBehind /\ overtaken' = (overtaken \/ late' # <<>>)

\* Mutant: numbering starts over in every life of the process.
LoadRenumbered ==
  /\ phase \in {"stopped", "closed", "refused"}
  /\ Recoverable
  /\ seq' = 0
  /\ IF snapshot = NoSnapshot
     THEN phase' = "starting" /\ committed' = Empty
     ELSE phase' = "open" /\ committed' = snapshot
  /\ Forget /\ Overtake
  /\ UNCHANGED <<disk, unproven, acked, crashes>>

\* Mutant: a fresh Run is hydrated from the snapshot it does not have.
LoadUnchecked ==
  /\ phase \in {"stopped", "closed", "refused"}
  /\ Recoverable
  /\ phase' = IF snapshot = NoSnapshot THEN "starting" ELSE "open"
  /\ seq' = Top(journal \union IF snapshot = NoSnapshot THEN {0} ELSE {snapshot.seq})
  /\ committed' = snapshot
  /\ Forget /\ Overtake
  /\ UNCHANGED <<disk, unproven, acked, crashes>>

Load ==
  /\ phase \in {"stopped", "closed", "refused"}
  /\ Recoverable
  /\ IF snapshot = NoSnapshot
     THEN /\ phase' = "starting" /\ seq' = Top({0} \union journal)
          /\ committed' = [seq |-> seq', durable |-> {}]
     ELSE /\ phase' = "open" /\ seq' = Top({snapshot.seq} \union journal)
          /\ committed' = snapshot
  /\ Forget /\ Overtake
  /\ UNCHANGED <<disk, unproven, acked, crashes>>

FirstSave ==
  /\ phase = "starting"
  /\ \/ snapshot' = committed /\ phase' = "open"
     \/ snapshot' \in {snapshot, committed} /\ phase' = "stopped"
  /\ UNCHANGED <<journal, damaged, marker, seq, committed, queue, saves, timer, stop,
                 emissionFailure, acked, past>>

-----------------------------------------------------------------------------
Publish(p) == \/ BeginRefused(p) \/ Begin(p) \/ BeginFails(p)
              \/ Commit(p) \/ CommitFails(p)
              \/ Observe(p) \/ ObserveAgain(p) \/ ObserveFails(p) \/ Throw(p)

Save == SaveBegins \/ SaveRefused \/ SaveDone \/ SaveFails \/ SaveThrows

Close == \/ OperationsEnd \/ StopClock \/ EmissionsEnd
         \/ Disconnect \/ SavesEnd \/ FinalSave

Next == \/ \E c \in Commands : Admit(c) \/ Enqueue(c) \/ Dispatched(c) \/ DispatchThrows(c)
        \/ \E e \in Emitters : Emit(e)
        \/ \E p \in Publishers : Publish(p)
        \/ Save \/ TimerFires \/ QuarantineSettles
        \/ BeginClose \/ Close
        \/ Crash \/ LoadRefused \/ Load \/ FirstSave
        \/ \E i \in 1..Len(late) : LateAppend(i)

Spec == Init /\ [][Next]_vars

\* Every await of the pipeline returns or throws, and a prepared command goes on;
\* requests, crashes, the start of a close and a reload happen or do not.
Fairness ==
  /\ \A c \in Commands : WF_vars(Enqueue(c)) /\ WF_vars(Dispatched(c))
  /\ \A p \in Publishers : WF_vars(Publish(p))
  /\ WF_vars(Save) /\ WF_vars(TimerFires) /\ WF_vars(QuarantineSettles) /\ WF_vars(Close)

FairSpec == Spec /\ Fairness

-----------------------------------------------------------------------------
(* Every variable keeps its type. *)
TypeOK ==
  /\ journal \subseteq Nat /\ damaged \in BOOLEAN /\ marker \in BOOLEAN
  /\ snapshot \in States \union {NoSnapshot}
  /\ phase \in {"stopped", "starting", "open", "closed", "refused"} \union ClosePhases
  /\ seq \in Nat /\ committed \in States
  /\ publishing \in Seq(Publishers)
  /\ pc \in [Publishers -> {"idle", "prepared", "queued", "dispatched", "append", "save",
                            "observe", "failing"}]
  /\ half \in [Publishers -> {1, 2}]
  /\ batch \in [Publishers -> Batches] /\ written \in [Publishers -> SUBSET Nat]
  /\ checked \in BOOLEAN
  /\ saving \in Seq(Publishers \union {Timer})
  /\ saveStep \in {"idle", "writing", "failing"} /\ capture \in States
  /\ timer \in BOOLEAN
  /\ failure \in {"none", "uncertain", "observer"}
  /\ quarantine \in {"none", "writing", "settled"}
  /\ emissionFailure \in BOOLEAN
  /\ late \in Seq(SUBSET Nat) /\ overtaken \in BOOLEAN /\ unproven \in BOOLEAN
  /\ acked \subseteq Nat /\ crashes \in 0..MaxCrashes

(* "Public reads and persistence see only acknowledged journal appends": neither
   the committed state nor any snapshot, written or being written, shows a
   durable event the journal does not hold, even after a failed append. *)
NothingAheadOfJournal ==
  /\ Live => committed.durable \subseteq journal
  /\ snapshot # NoSnapshot => snapshot.durable \subseteq journal
  /\ saveStep = "writing" => capture.durable \subseteq journal

(* The quarantine keeps the next runtime out while a failed one still writes: a
   Run is loaded over an append in flight only if a quarantine could not be
   persisted, the case in which the code itself calls restart safety unproven. *)
OvertakenOnlyUnproven == overtaken => unproven

(* A Run in use, fresh or restored after any crash, reflects every event of its
   journal: what an interrupted commit left behind is never silently skipped,
   unless a runtime was loaded over an append that was still in flight. *)
JournalFullyApplied ==
  Live /\ failure = "none" /\ ~overtaken => journal \subseteq committed.durable

(* Once a command was answered with success its durable events are in the
   journal and in the snapshot on disk, through failures, crashes and closes. *)
AcknowledgedSurvives ==
  /\ acked \subseteq journal
  /\ acked # {} => snapshot # NoSnapshot /\ acked \subseteq snapshot.durable

(* What is handed to the journal continues its strict order, and its check never
   refuses it, in one life of the process or across restarts that resume the
   numbering from disk, unless a runtime was loaded over an append in flight. *)
NoSequenceRegression ==
  ~overtaken => \A p \in Publishers : pc[p] = "append" /\ batch[p].durable # {} =>
                  checked /\ Increasing(batch[p].durable)

(* A close without failure leaves the very state that was committed, with nothing
   of it still in flight, and a Run that can be opened again (but for what an
   overtaken append may have left in its journal). *)
CleanCloseIsComplete ==
  phase = "closed" /\ failure = "none" =>
    /\ snapshot = committed
    /\ publishing = <<>> /\ saving = <<>> /\ ~timer
    /\ \A p \in Publishers : pc[p] = "idle"
    /\ overtaken \/ Recoverable

(* The snapshot on disk never goes back: saves finish in the order of the states
   they captured, the final one of a close included. *)
SnapshotOnlyAdvances ==
  [][snapshot # NoSnapshot => snapshot' # NoSnapshot /\ snapshot'.seq >= snapshot.seq
                              /\ snapshot.durable \subseteq snapshot'.durable]_vars

(* Journal, reads and answers together implement an append-only log that is
   resumed whole or not at all, until it is resumed over an append in flight, and
   that even then loses nothing and shows nothing it does not hold. *)
Log == INSTANCE DurableLog WITH log <- journal, serving <- Live, answered <- acked,
                                shown <- IF Live THEN committed.durable ELSE {}
ImplementsDurableLog == Log!Spec

(* Whatever is admitted or queued is settled: no publisher waits forever behind
   a failed publish, a failed save or a quarantine. *)
PublishersSettle ==
  \A p \in Publishers : pc[p] \in {"queued", "append", "save", "observe", "failing"}
                          ~> pc[p] \in {"idle", "dispatched"}

(* A close that has begun ends, in failure or not. *)
CloseEnds == phase = "operations" ~> phase \in {"closed", "stopped"}

(* runtime.ts:229 "Set once close has saved the final snapshot: nothing may
   commit or save after it", of every close. *)
NothingAfterClosed == [][phase = "closed" => UNCHANGED <<journal, snapshot>>]_vars
=============================================================================
