---------------------------- MODULE RunExecution ----------------------------
(* Playback and pace of one Simulation Run in World: the execution half of
   registry.ts with execution-store.ts, over the clock and maximum-pace
   operations of runtime.ts.

   Callers change the execution of the Run one at a time (executionOperations)
   and its lifecycle one at a time (lifecycle; KeyedOperations models both
   lines).  Reads of the status belong to neither.  A fast-forward is a job of
   its own that outlives the call that started it; its entry in maximumPaceJobs
   and its lease go when its last save has settled.  Step by step, the model
   keeps what the process remembers of the execution (executionStates), what
   execution.json holds, and the clock of the Run's runtime.

   Simulation time is a number of slices.  The closing of a runtime, commands
   and commits are RunCommit's; here an operation of the runtime succeeds or
   throws. *)
EXTENDS Naturals

CONSTANTS
  Callers,     \* calls in flight at one time
  Operations,  \* what each caller may ask for, of AllOperations
  Wishes,      \* the fields a "set" may ask for
  Minutes,     \* how far an "advance" may go
  Step,        \* how long a slice is
  NoOne,       \* nobody's turn
  NoJob,       \* maximumPaceJobs has no entry
  NoState,     \* executionStates has no entry, execution.json does not exist
  NoTarget,    \* a fast-forward without an end
  Roles,       \* the Run declares roles, so it starts paused and awaits a screen
  MaxTime,     \* bound: simulation time
  MaxCrashes   \* bound: crashes of the process

\* "status" is executionOverview, which holds no lease and is executionStatus for a
\* Run that is loaded; "close" is the timer of an unleased Run.
AllOperations == {"set", "advance", "screen", "status", "close", "reset", "delete"}

ASSUME CallerAssumption == NoOne \notin Callers
ASSUME OperationAssumption == Operations \in [Callers -> SUBSET AllOperations]
ASSUME WishAssumption == Wishes \subseteq [playback : {"playing", "paused", "keep"},
                                           pace : {"realtime", "maximum", "keep"}]
                                           \ {[playback |-> "keep", pace |-> "keep"]}
ASSUME MinutesAssumption == Minutes \subseteq Nat \ {0} /\ Step \in Nat \ {0}
ASSUME BoundAssumption == MaxTime \in Nat /\ MaxCrashes \in Nat /\ Roles \in BOOLEAN
ASSUME TargetAssumption == NoTarget \notin Nat

VARIABLES
  runtime,     \* simulationRuns: absent, live, closing, or dead after a failed close
  clock,       \* of the runtime, or of the snapshot: [time, paused]
  saved,       \* the time in the snapshot
  failStopped, \* terminalExecutionFailure
  deleted,     \* the Run's directory is gone
  entry,       \* executionStates: [pace, acc]
  stored,      \* execution.json
  job,         \* maximumPaceJobs
  lease,       \* a maximum-pace lease is held
  awaiting,    \* awaitingFirstScreen
  executing,   \* whose turn it is in executionOperations
  lifecycle,   \* whose turn it is in the lifecycle line
  op,          \* what each caller asked for
  pc,          \* where it is
  want,        \* the fields it asked for, or Keep
  current,     \* the status it has read, and then the one it returns
  crashes

run == <<runtime, clock, saved, failStopped, deleted>>
kept == <<entry, stored>>
work == <<job, lease>>
turns == <<executing, lifecycle>>
asked == <<op, want>>
calls == <<op, pc, want, current>>
vars == <<run, kept, work, turns, calls, awaiting, crashes>>

Keep == "keep"
Nothing == [playback |-> Keep, pace |-> Keep]
Playbacks == {"playing", "paused"}
Paces == {"realtime", "maximum"}
Statuses == {"none", "running", "paused", "stopped", "completed", "failed"}
Accelerations == [status : Statuses, from : Nat, target : Nat \union {NoTarget},
                  onComplete : Playbacks]
NoAcceleration == [status |-> "none", from |-> 0, target |-> NoTarget, onComplete |-> "paused"]
States == [pace : Paces, acc : Accelerations]
Reports == [playback : Playbacks, pace : Paces, acc : Accelerations]
Phases == {"starting", "entering", "running", "final", "clock", "terminal", "failing", "orphan"}
Jobs == [phase : Phases, live : BOOLEAN, stop : BOOLEAN, preserve : BOOLEAN,
         dest : [playback : Playbacks, pace : Paces], acc : Accelerations, result : States]
ASSUME NothingAssumption == NoState \notin States /\ NoJob \notin Jobs

Fresh == [playback |-> "paused", pace |-> "realtime", acc |-> NoAcceleration]
Maximum == [playback |-> "playing", pace |-> "maximum"]
FreshClock == [time |-> 0, paused |-> Roles]

Kept(s) == [pace |-> s.pace, acc |-> s.acc]
Fields(s) == [playback |-> s.playback, pace |-> s.pace]
Running(s) == s # NoState /\ s.acc.status = "running"

Init ==
  /\ runtime = "live" /\ clock = FreshClock /\ saved = 0
  /\ failStopped = FALSE /\ deleted = FALSE
  /\ entry = NoState /\ stored = NoState
  /\ job = NoJob /\ lease = FALSE
  /\ awaiting = Roles
  /\ executing = NoOne /\ lifecycle = NoOne
  /\ op = [c \in Callers |-> "status"] /\ pc = [c \in Callers |-> "idle"]
  /\ want = [c \in Callers |-> Nothing]
  /\ current = [c \in Callers |-> Fresh]
  /\ crashes = 0

Goes(c, where) == pc' = [pc EXCEPT ![c] = where]

\* The calls that hold a lease on the Run of the kind their route takes.
ApiLeases == {c \in Callers : pc[c] # "idle" /\ op[c] \in {"set", "advance"}}
ScreenLeases == {c \in Callers : pc[c] # "idle" /\ op[c] = "screen"}

-----------------------------------------------------------------------------
(* Calls and their turns. *)

FirstStep(o) == CASE o = "status" /\ runtime = "absent" -> "glance"
                  [] o = "status" /\ runtime # "absent" -> "report"
                  [] o \in {"close", "reset"} -> "claim"
                  [] OTHER -> "turn"

\* A choice of execution clears the mark at once; a join needs it to begin with.
\* An advance is asked for below the bound on time only.
Call(c, o, w) ==
  /\ pc[c] = "idle"
  /\ o = "screen" => awaiting
  /\ o = "advance" => clock.time < MaxTime
  /\ op' = [op EXCEPT ![c] = o] /\ want' = [want EXCEPT ![c] = w]
  /\ Goes(c, FirstStep(o))
  /\ awaiting' = (awaiting /\ o \notin {"set", "advance"})
  /\ UNCHANGED <<run, kept, work, turns, current, crashes>>

Asking(o) ==
  CASE o = "set" -> Wishes
    [] o = "advance" -> [playback : Playbacks, pace : {Keep}]
    [] o = "screen" -> {[playback |-> "playing", pace |-> Keep]}
    [] OTHER -> {Nothing}

Calls(c) == \E o \in Operations[c] : \E w \in Asking(o) : Call(c, o, w)

TakeTurn(c) ==
  /\ pc[c] = "turn" /\ executing = NoOne
  /\ executing' = c
  /\ Goes(c, CASE op[c] = "set" -> "ask"
               [] op[c] = "screen" -> IF awaiting THEN "ask" ELSE "answer"
               [] op[c] = "advance" -> "advance"
               [] op[c] = "delete" -> "claim")
  /\ UNCHANGED <<run, kept, work, lifecycle, asked, current, awaiting, crashes>>

\* The call returns or throws, and its turns pass on.
Return(c) ==
  /\ pc[c] \in {"answer", "thrown"}
  /\ Goes(c, "idle")
  /\ executing' = IF executing = c THEN NoOne ELSE executing
  /\ lifecycle' = IF lifecycle = c THEN NoOne ELSE lifecycle
  /\ current' = [current EXCEPT ![c] = Fresh]
  /\ want' = [want EXCEPT ![c] = Nothing]
  /\ op' = [op EXCEPT ![c] = "status"]
  /\ awaiting' = (awaiting /\ ~(op[c] = "screen" /\ pc[c] = "answer"))
  /\ UNCHANGED <<run, kept, work, crashes>>

-----------------------------------------------------------------------------
(* Loading, and reading the status.  A running fast-forward comes back from
   execution.json as a paused one. *)

Restored(s) == IF Running(s) THEN [s EXCEPT !.acc.status = "paused"] ELSE s

\* What executionStates holds for a Run that is loaded.
Remembered == IF runtime = "absent" /\ stored # NoState THEN Restored(stored) ELSE entry

\* load, in the lifecycle line: the runtime at hand, or createRuntime.
Load ==
  /\ lifecycle = NoOne /\ ~deleted
  /\ runtime' = IF runtime = "absent" THEN "live" ELSE runtime
  /\ failStopped' = IF runtime = "absent"
                    THEN stored # NoState /\ stored.acc.status = "failed"
                    ELSE failStopped
  /\ UNCHANGED <<clock, saved, deleted>>

Asks(c) == pc[c] \in {"ask", "report"}

\* A load that throws.  When it is the read of execution.json that does, the
\* runtime has its place already: it is in use, whatever the
\* file says of a failure.
LoadFails(c) ==
  /\ \/ Asks(c) \/ pc[c] = "load"
     \/ pc[c] = "glance" /\ deleted
  /\ lifecycle = NoOne
  /\ \/ (deleted \/ runtime = "absent") /\ UNCHANGED runtime
     \/ ~deleted /\ runtime = "absent" /\ runtime' = "live"
  /\ Goes(c, "thrown")
  /\ UNCHANGED <<clock, saved, failStopped, deleted, kept, work, turns, asked, current,
                 awaiting, crashes>>

\* The status that the remembered state s and the clock give.
Status(s, paused) ==
  IF job # NoJob /\ Running(s)
  THEN [playback |-> "playing", pace |-> "maximum", acc |-> s.acc]
  ELSE [playback |-> IF paused THEN "paused" ELSE "playing",
        pace |-> IF paused /\ s # NoState THEN s.pace ELSE "realtime",
        acc |-> IF s # NoState THEN s.acc ELSE NoAcceleration]

\* executionStatus with a state in memory: no await after the load.
StatusKnown(c) ==
  /\ Asks(c)
  /\ Load
  /\ Remembered # NoState
  /\ current' = [current EXCEPT ![c] = Status(Remembered, clock.paused)]
  /\ entry' = Kept(current'[c])
  /\ Goes(c, IF pc[c] = "ask" THEN "decide" ELSE "answer")
  /\ UNCHANGED <<stored, work, turns, asked, awaiting, crashes>>

\* Without one it reads execution.json, holding on to the clock it saw ...
StatusReads(c) ==
  /\ Asks(c)
  /\ Load
  /\ Remembered = NoState
  /\ current' = [current EXCEPT ![c] = Status(NoState, clock.paused)]
  /\ entry' = Remembered
  /\ Goes(c, IF pc[c] = "ask" THEN "asking" ELSE "reporting")
  /\ UNCHANGED <<stored, work, turns, asked, awaiting, crashes>>

DiskRead(c) ==
  /\ pc[c] \in {"asking", "reporting"}
  /\ \/ /\ current' = [current EXCEPT ![c] = Status(Restored(stored), @.playback = "paused")]
        /\ Goes(c, IF pc[c] = "asking" THEN "asked" ELSE "reported")
     \/ UNCHANGED current /\ Goes(c, "thrown")
  /\ UNCHANGED <<run, kept, work, turns, asked, awaiting, crashes>>

\* ... and remembers what it found, whatever happened in between.
StatusRemembers(c) ==
  /\ pc[c] \in {"asked", "reported"}
  /\ entry' = Kept(current[c])
  /\ Goes(c, IF pc[c] = "asked" THEN "decide" ELSE "answer")
  /\ UNCHANGED <<run, stored, work, turns, asked, current, awaiting, crashes>>

\* executionOverview of a Run that is not loaded reads its summary first, and
\* waits for its manifest before it remembers the state.
OverviewReads(c) ==
  /\ pc[c] = "glance" /\ ~deleted
  /\ current' = [current EXCEPT ![c] = Status(entry, clock.paused)]
  /\ Goes(c, IF entry = NoState THEN "reporting" ELSE "reported")
  /\ UNCHANGED <<run, kept, work, turns, asked, awaiting, crashes>>

-----------------------------------------------------------------------------
(* applyExecution. *)

Destination(c) ==
  [playback |-> IF want[c].playback = Keep THEN current[c].playback ELSE want[c].playback,
   pace |-> IF want[c].pace = Keep THEN current[c].pace ELSE want[c].pace]

Changes(c) == Destination(c) # Fields(current[c])

\* The controller of the job is told where to go, and the call waits for it.
Redirect(dest, preserved) ==
  job' = [job EXCEPT !.stop = TRUE, !.dest = dest, !.preserve = preserved]

\* The job that the status spoke of is over: ask again.
Outdated(c) == Fields(current[c]) = Maximum /\ job = NoJob

AskAgain(c) ==
  /\ pc[c] = "decide"
  /\ Outdated(c)
  /\ Goes(c, "ask")
  /\ UNCHANGED <<run, kept, work, turns, asked, current, awaiting, crashes>>

Unchanged(c) ==
  /\ pc[c] = "decide"
  /\ ~Outdated(c) /\ ~Changes(c)
  /\ Goes(c, IF job = NoJob \/ Running(entry) THEN "answer" ELSE "wait")
  /\ UNCHANGED <<run, kept, work, turns, asked, current, awaiting, crashes>>

\* Mutant: the job has been told, so the call goes on.
InterruptAtOnce(c) ==
  /\ pc[c] = "decide"
  /\ ~Outdated(c) /\ Changes(c) /\ job # NoJob
  /\ Redirect(Destination(c), Destination(c) = [playback |-> "paused", pace |-> "maximum"])
  /\ Goes(c, "load")
  /\ UNCHANGED <<run, kept, lease, turns, asked, current, awaiting, crashes>>

Interrupt(c) ==
  /\ pc[c] = "decide"
  /\ ~Outdated(c) /\ Changes(c) /\ job # NoJob
  /\ Redirect(Destination(c), Destination(c) = [playback |-> "paused", pace |-> "maximum"])
  /\ Goes(c, "wait")
  /\ current' = [current EXCEPT ![c] = Fresh]
  /\ UNCHANGED <<run, kept, lease, turns, asked, awaiting, crashes>>

Proceed(c) ==
  /\ pc[c] = "decide"
  /\ ~Outdated(c) /\ Changes(c) /\ job = NoJob
  /\ Goes(c, "load")
  /\ UNCHANGED <<run, kept, work, turns, asked, current, awaiting, crashes>>

\* advanceExecution ends the job at hand first.
Advance(c) ==
  /\ pc[c] = "advance"
  /\ IF job = NoJob
     THEN Goes(c, "load") /\ UNCHANGED job
     ELSE Goes(c, "waitAdvance") /\ Redirect([playback |-> "paused", pace |-> "maximum"], FALSE)
  /\ UNCHANGED <<run, kept, lease, turns, asked, current, awaiting, crashes>>

\* Where the end of the job takes the calls that wait for it.
Released == [c \in Callers |->
  CASE pc[c] = "wait" -> "report"
    [] pc[c] = "waitAdvance" -> "load"
    [] pc[c] = "waitReset" -> "check"
    [] pc[c] = "waitDelete" -> "settle"
    [] pc[c] = "waitClose" -> "recheck"
    [] OTHER -> pc[c]]

-----------------------------------------------------------------------------
(* Making the change: an operation of the runtime, then a save.  An operation is
   admitted only by a runtime that is in use; a close waits for those admitted. *)

Accepting == runtime = "live" /\ ~failStopped
Working(phase) == job # NoJob /\ job.phase = phase
MaximumPaceActive == \E phase \in {"entering", "running", "final"} : Working(phase)

\* The runtime's setClock is admitted, or refused.
Operates(c, before, during) ==
  /\ pc[c] = before
  /\ Goes(c, IF Accepting /\ ~MaximumPaceActive THEN during ELSE "thrown")
  /\ UNCHANGED <<run, kept, work, turns, asked, current, awaiting, crashes>>

\* setClock throws; the clock stays as it was, is frozen, or runs already when a
\* cue that was due fails.
SetClockFails(c) ==
  /\ pc[c] \in {"clocking", "pausing"}
  /\ \E paused \in {clock.paused, TRUE, ~(pc[c] = "clocking" /\ Destination(c).playback = "playing")} :
       clock' = [clock EXCEPT !.paused = paused]
  /\ saved' \in {saved, clock.time}
  /\ Goes(c, "thrown")
  /\ UNCHANGED <<runtime, failStopped, deleted, kept, work, turns, asked, current,
                 awaiting, crashes>>

\* What startMaximumPace does between two awaits: the lease, the entry in
\* maximumPaceJobs, and then the new acceleration, which must not have begun
\* after the present time.  (An absent runtime is loaded in the same step.)
Begins(c, plan) ==
  LET acc == [plan EXCEPT !.status = "running",
                          !.from = IF plan.status = "paused" THEN @ ELSE clock.time]
      valid == acc.from <= clock.time
  IN /\ job' = [phase |-> IF valid THEN "starting" ELSE "orphan", live |-> runtime \in {"absent", "live"},
                stop |-> FALSE, preserve |-> TRUE,
                dest |-> [playback |-> "paused", pace |-> "maximum"],
                acc |-> acc, result |-> [pace |-> "maximum", acc |-> acc]]
     /\ lease' = TRUE
     /\ IF valid
        THEN /\ entry' = [pace |-> "maximum", acc |-> acc]
             /\ current' = [current EXCEPT ![c] =
                  [playback |-> "playing", pace |-> "maximum", acc |-> acc]]
             /\ Goes(c, "saveStart")
        ELSE /\ entry' = Remembered
             /\ Goes(c, "thrown")
             /\ UNCHANGED current

Resumed(acc) == IF acc.status = "paused" THEN acc ELSE NoAcceleration

\* What a call means to start: an advance to its target, the paused
\* acceleration, or a new one without an end.
Plans(c) ==
  IF op[c] = "advance"
  THEN {[NoAcceleration EXCEPT !.target = clock.time + n, !.onComplete = want[c].playback] : n \in Minutes}
  ELSE {Resumed(current[c].acc)}

StartsMaximum(c) == op[c] = "advance" \/ Destination(c) = Maximum

\* Mutant: the fast-forward starts under a running clock.
StartPlaying(c) ==
  /\ pc[c] = "load" /\ StartsMaximum(c)
  /\ Load
  /\ \E plan \in Plans(c) : Begins(c, plan)
  /\ UNCHANGED <<stored, turns, asked, awaiting, crashes>>

Start(c) ==
  /\ pc[c] = "load" /\ StartsMaximum(c)
  /\ Load
  /\ \E plan \in Plans(c) :
       IF clock.paused
       THEN Begins(c, plan)
       ELSE /\ current' = [current EXCEPT ![c].acc = plan]
            /\ Goes(c, "pause")
            /\ entry' = Remembered
            /\ UNCHANGED work
  /\ UNCHANGED <<stored, turns, asked, awaiting, crashes>>

Paused(c) ==
  /\ pc[c] = "pausing"
  /\ clock' = [clock EXCEPT !.paused = TRUE] /\ saved' = clock.time
  /\ Begins(c, current[c].acc)
  /\ UNCHANGED <<runtime, failStopped, deleted, stored, turns, asked, awaiting, crashes>>

\* Mutant: the lease is the caller's, and goes when the start has been saved.
StartReleasesLease(c) ==
  /\ pc[c] = "saveStart"
  /\ stored' = Kept(current[c])
  /\ job' = [job EXCEPT !.phase = "entering"] /\ lease' = FALSE
  /\ Goes(c, "answer")
  /\ UNCHANGED <<run, entry, turns, asked, current, awaiting, crashes>>

\* The first save of a fast-forward: the job goes to work, or never was.
StartSaved(c) ==
  /\ pc[c] = "saveStart"
  /\ stored' = Kept(current[c])
  /\ job' = [job EXCEPT !.phase = "entering"]
  /\ Goes(c, "answer")
  /\ UNCHANGED <<run, entry, lease, turns, asked, current, awaiting, crashes>>

\* Mutant: a failed start keeps its lease.
StartKeepsLease(c) ==
  /\ pc[c] = "saveStart"
  /\ entry' = NoState
  /\ job' = NoJob
  /\ pc' = [Released EXCEPT ![c] = "thrown"]
  /\ UNCHANGED <<run, stored, lease, turns, asked, current, awaiting, crashes>>

StartFails(c) ==
  /\ pc[c] = "saveStart"
  /\ entry' = NoState
  /\ job' = NoJob /\ lease' = FALSE
  /\ pc' = [Released EXCEPT ![c] = "thrown"]
  /\ UNCHANGED <<run, stored, turns, asked, current, awaiting, crashes>>

\* A realtime change.
LoadForClock(c) ==
  /\ pc[c] = "load" /\ ~StartsMaximum(c)
  /\ Load
  /\ entry' = Remembered
  /\ Goes(c, "clock")
  /\ UNCHANGED <<stored, work, turns, asked, current, awaiting, crashes>>

ClockSet(c) ==
  LET dest == Destination(c)
      acc == current[c].acc
      left == acc.status # "none" /\ current[c].pace = "maximum" /\ dest.pace = "realtime"
  IN /\ pc[c] = "clocking"
     /\ clock' = [clock EXCEPT !.paused = dest.playback = "paused"] /\ saved' = clock.time
     /\ current' = [current EXCEPT ![c] =
          [playback |-> dest.playback, pace |-> dest.pace,
           acc |-> IF left THEN [acc EXCEPT !.status = "stopped"] ELSE acc]]
     /\ entry' = Kept(current'[c])
     /\ Goes(c, "save")
     /\ UNCHANGED <<runtime, failStopped, deleted, stored, work, turns, asked, awaiting, crashes>>

Saved(c) ==
  /\ pc[c] = "save"
  /\ \/ stored' = Kept(current[c]) /\ Goes(c, "answer")
     \/ UNCHANGED stored /\ Goes(c, "thrown")
  /\ UNCHANGED <<run, entry, work, turns, asked, current, awaiting, crashes>>

-----------------------------------------------------------------------------
(* The job: runMaximumPace and what follows it. *)

AtTarget == job.acc.target # NoTarget /\ clock.time >= job.acc.target

\* Its first operation: the clock must stand still, short of the target.
Enterable == /\ job.live /\ Accepting /\ clock.paused
             /\ job.acc.target # NoTarget => clock.time <= job.acc.target

Enter ==
  /\ Working("entering") /\ Enterable
  /\ job' = [job EXCEPT !.phase = "running"]
  /\ UNCHANGED <<run, kept, lease, turns, calls, awaiting, crashes>>

Least(a, b) == IF a <= b THEN a ELSE b

\* Mutant: the last slice is as long as the others.
SliceOvershoots ==
  /\ Working("running") /\ job.live /\ Accepting
  /\ ~job.stop /\ ~AtTarget
  /\ job.acc.target = NoTarget => clock.time < MaxTime
  /\ clock' = [time |-> clock.time + Step, paused |-> TRUE]
  /\ entry' = [pace |-> "maximum", acc |-> job.acc]
  /\ stored' \in {stored, entry'}
  /\ UNCHANGED <<runtime, saved, failStopped, deleted, work, turns, calls, awaiting, crashes>>

\* One slice, no further than the target, and its progress.
Slice ==
  /\ Working("running") /\ job.live /\ Accepting
  /\ ~job.stop /\ ~AtTarget
  /\ job.acc.target = NoTarget => clock.time < MaxTime
  /\ clock' = [time |-> IF job.acc.target = NoTarget THEN clock.time + Step
                        ELSE Least(clock.time + Step, job.acc.target),
               paused |-> TRUE]
  /\ entry' = [pace |-> "maximum", acc |-> job.acc]
  /\ stored' \in {stored, entry'}
  /\ UNCHANGED <<runtime, saved, failStopped, deleted, work, turns, calls, awaiting, crashes>>

\* It has reached its target or was told to stop; its last operation begins.
Leave ==
  /\ Working("running") /\ job.live /\ Accepting
  /\ job.stop \/ AtTarget
  /\ job' = [job EXCEPT !.phase = "final"]
  /\ UNCHANGED <<run, kept, lease, turns, calls, awaiting, crashes>>

\* The terminal state for a job that goes to dest.
Terminates(dest) ==
  LET status == IF AtTarget THEN "completed" ELSE IF job.preserve THEN "paused" ELSE "stopped"
      end == [pace |-> dest.pace, acc |-> [job.acc EXCEPT !.status = status]]
  IN /\ entry' = end
     /\ job' = [job EXCEPT !.phase = "terminal", !.result = end]

\* At its target it goes where it was meant to, otherwise where it was sent.
Ended == IF AtTarget THEN [playback |-> job.acc.onComplete, pace |-> "realtime"] ELSE job.dest

Finish ==
  /\ Working("final") /\ job.live /\ Accepting
  /\ saved' = clock.time
  /\ IF Ended = [playback |-> "playing", pace |-> "realtime"]
     THEN job' = [job EXCEPT !.phase = "clock"] /\ UNCHANGED entry
     ELSE Terminates(Ended)
  /\ UNCHANGED <<runtime, clock, failStopped, deleted, stored, lease, turns, calls, awaiting, crashes>>

Play ==
  /\ Working("clock") /\ job.live /\ Accepting
  /\ clock' = [clock EXCEPT !.paused = FALSE] /\ saved' = clock.time
  /\ Terminates([playback |-> "playing", pace |-> "realtime"])
  /\ UNCHANGED <<runtime, failStopped, deleted, stored, lease, turns, calls, awaiting, crashes>>

\* Anything in it throws: the Run is fail-stopped, its clock as it then is.
Fail ==
  /\ \E phase \in {"entering", "running", "final", "clock", "terminal"} : Working(phase)
  /\ LET end == [job.result EXCEPT !.acc.status = "failed"] IN
       entry' = end /\ job' = [job EXCEPT !.phase = "failing", !.result = end]
  /\ failStopped' = (failStopped \/ (job.live /\ runtime # "absent"))
  /\ \/ UNCHANGED clock
     \/ Working("clock") /\ clock' = [clock EXCEPT !.paused = FALSE]
  /\ UNCHANGED <<runtime, saved, deleted, stored, lease, turns, calls, awaiting, crashes>>

\* Mutant: whoever waits is not told.
GoneUnheard ==
  /\ \/ Working("terminal") /\ stored' = job.result
     \/ Working("failing") /\ stored' \in {stored, job.result}
  /\ job' = NoJob /\ lease' = FALSE
  /\ UNCHANGED <<run, entry, turns, calls, awaiting, crashes>>

\* Its last save has settled, in failure or not, and whoever waited goes on.
Gone ==
  /\ \/ Working("terminal") /\ stored' = job.result
     \/ Working("failing") /\ stored' \in {stored, job.result}
  /\ job' = NoJob /\ lease' = FALSE
  /\ pc' = Released
  /\ UNCHANGED <<run, entry, turns, asked, current, awaiting, crashes>>

\* The realtime clock.
Tick ==
  /\ runtime = "live" /\ ~clock.paused /\ clock.time < MaxTime
  /\ clock' = [clock EXCEPT !.time = @ + 1]
  /\ UNCHANGED <<runtime, saved, failStopped, deleted, kept, work, turns, calls, awaiting, crashes>>

-----------------------------------------------------------------------------
(* Closing, resetting and deleting the Run, in the lifecycle line. *)

\* settleCompletingMaximumPace: only a job that is completing is waited for.
Completing == job # NoJob /\ ~Running(entry)

ClaimClose(c) ==
  /\ pc[c] = "claim" /\ op[c] = "close" /\ lifecycle = NoOne
  /\ lifecycle' = c
  /\ Goes(c, IF lease \/ ApiLeases # {} \/ ScreenLeases # {} THEN "answer" ELSE "settle")
  /\ UNCHANGED <<run, kept, work, executing, asked, current, awaiting, crashes>>

ClaimReset(c) ==
  /\ pc[c] = "claim" /\ op[c] = "reset" /\ lifecycle = NoOne
  /\ lifecycle' = c
  /\ Goes(c, IF Completing THEN "waitReset" ELSE "check")
  /\ UNCHANGED <<run, kept, work, executing, asked, current, awaiting, crashes>>

\* A delete stops the job, and waits for it whatever it is doing.
ClaimDelete(c) ==
  /\ pc[c] = "claim" /\ op[c] = "delete" /\ lifecycle = NoOne
  /\ lifecycle' = c
  /\ awaiting' = FALSE
  /\ IF job = NoJob
     THEN Goes(c, "settle") /\ UNCHANGED job
     ELSE Goes(c, "waitDelete") /\ Redirect([playback |-> "paused", pace |-> "realtime"], FALSE)
  /\ UNCHANGED <<run, kept, lease, executing, asked, current, crashes>>

CheckReset(c) ==
  /\ pc[c] = "check"
  /\ Goes(c, CASE deleted \/ lease \/ ApiLeases # {} -> "thrown"
               [] runtime = "absent" -> "remove"
               [] OTHER -> "publish")
  /\ UNCHANGED <<run, kept, work, turns, asked, current, awaiting, crashes>>

\* publishResetBoundary.
Publish(c) ==
  /\ pc[c] = "publish"
  /\ Goes(c, IF Accepting THEN "settle" ELSE "thrown")
  /\ UNCHANGED <<run, kept, work, turns, asked, current, awaiting, crashes>>

\* closeLoaded.
Settle(c) ==
  /\ pc[c] = "settle"
  /\ Goes(c, CASE runtime = "absent" /\ op[c] = "close" -> "answer"
               [] runtime = "absent" /\ op[c] # "close" -> "remove"
               [] runtime # "absent" /\ Completing -> "waitClose"
               [] OTHER -> "recheck")
  /\ UNCHANGED <<run, kept, work, turns, asked, current, awaiting, crashes>>

InUse(c) == lease \/ (op[c] # "delete" /\ ApiLeases # {})

Recheck(c) ==
  /\ pc[c] = "recheck"
  /\ IF InUse(c)
     THEN Goes(c, "thrown") /\ UNCHANGED runtime
     ELSE Goes(c, "closing") /\ runtime' = IF runtime = "live" THEN "closing" ELSE runtime
  /\ UNCHANGED <<clock, saved, failStopped, deleted, kept, work, turns, asked, current,
                 awaiting, crashes>>

\* The close of the runtime lets the operations it admitted end.  A second close
\* of a failed one saves nothing.
Drained == \A c \in Callers : pc[c] \notin {"pausing", "clocking"}

Closes(c) ==
  /\ pc[c] = "closing" /\ Drained
  /\ runtime' = "absent" /\ failStopped' = FALSE
  /\ saved' \in IF runtime = "closing" THEN {clock.time} ELSE saved..clock.time
  /\ clock' = [clock EXCEPT !.time = saved']
  /\ Goes(c, IF op[c] = "close" THEN "answer" ELSE "remove")
  /\ UNCHANGED <<deleted, kept, work, turns, asked, current, awaiting, crashes>>

CloseFails(c) ==
  /\ pc[c] = "closing" /\ Drained
  /\ runtime' = "dead"
  /\ Goes(c, "thrown")
  /\ UNCHANGED <<clock, saved, failStopped, deleted, kept, work, turns, asked, current,
                 awaiting, crashes>>

\* Mutant: the snapshot is not among the files removed.
ResetKeepsSnapshot(c) ==
  /\ pc[c] = "remove" /\ op[c] = "reset"
  /\ stored' = NoState /\ clock' = FreshClock
  /\ Goes(c, "create")
  /\ UNCHANGED <<runtime, saved, failStopped, deleted, entry, work, turns, asked, current,
                 awaiting, crashes>>

\* A reset removes the files of the Run and builds it anew.  What is remembered
\* of its execution stays.
RemoveForReset(c) ==
  /\ pc[c] = "remove" /\ op[c] = "reset"
  /\ \/ stored' = NoState /\ clock' = FreshClock /\ saved' = 0 /\ Goes(c, "create")
     \/ /\ stored' \in {stored, NoState}
        /\ \/ clock' = FreshClock /\ saved' = 0
           \/ UNCHANGED <<clock, saved>>
        /\ Goes(c, "thrown")
  /\ UNCHANGED <<runtime, failStopped, deleted, entry, work, turns, asked, current,
                 awaiting, crashes>>

\* A screen that joins meanwhile may have written execution.json anew.
Create(c) ==
  /\ pc[c] = "create"
  /\ awaiting' = (awaiting \/ Roles)
  /\ \/ /\ runtime' = "live" /\ Goes(c, "answer")
        /\ entry' = IF stored # NoState THEN Restored(stored) ELSE entry
        /\ failStopped' = (stored # NoState /\ stored.acc.status = "failed")
     \/ runtime' \in {runtime, "live"} /\ Goes(c, "thrown") /\ UNCHANGED <<entry, failStopped>>
  /\ UNCHANGED <<clock, saved, deleted, stored, work, turns, asked, current, crashes>>

RemoveForDelete(c) ==
  /\ pc[c] = "remove" /\ op[c] = "delete"
  /\ entry' = NoState
  /\ \/ stored' = NoState /\ deleted' = TRUE /\ Goes(c, "answer")
     \/ stored' \in {stored, NoState} /\ UNCHANGED deleted /\ Goes(c, "thrown")
  /\ UNCHANGED <<runtime, clock, saved, failStopped, work, turns, asked, current, awaiting, crashes>>

\* The process dies and starts again without any Run loaded; time since the last
\* snapshot may be lost.
Crash ==
  /\ crashes < MaxCrashes
  /\ crashes' = crashes + 1
  /\ runtime' = "absent" /\ failStopped' = FALSE
  /\ \E t \in saved..clock.time : clock' = [clock EXCEPT !.time = t] /\ saved' = t
  /\ entry' = NoState /\ job' = NoJob /\ lease' = FALSE /\ awaiting' = FALSE
  /\ executing' = NoOne /\ lifecycle' = NoOne
  /\ op' = [c \in Callers |-> "status"] /\ pc' = [c \in Callers |-> "idle"]
  /\ want' = [c \in Callers |-> Nothing]
  /\ current' = [c \in Callers |-> Fresh]
  /\ UNCHANGED <<deleted, stored>>

-----------------------------------------------------------------------------
Loads(c) == \/ StatusKnown(c) \/ StatusReads(c) \/ LoadFails(c)
            \/ Start(c) \/ LoadForClock(c)

Claims(c) == ClaimClose(c) \/ ClaimReset(c) \/ ClaimDelete(c)

Steps(c) ==
  \/ Return(c) \/ DiskRead(c) \/ StatusRemembers(c) \/ OverviewReads(c)
  \/ AskAgain(c) \/ Unchanged(c) \/ Interrupt(c) \/ Proceed(c) \/ Advance(c)
  \/ Operates(c, "pause", "pausing") \/ Operates(c, "clock", "clocking")
  \/ SetClockFails(c) \/ Paused(c) \/ StartSaved(c) \/ StartFails(c)
  \/ ClockSet(c) \/ Saved(c)
  \/ CheckReset(c) \/ Publish(c) \/ Settle(c) \/ Recheck(c) \/ Closes(c) \/ CloseFails(c)
  \/ RemoveForReset(c) \/ Create(c) \/ RemoveForDelete(c)

Works == Enter \/ Slice \/ Leave \/ Finish \/ Play \/ Gone

\* A job that can do nothing else throws.
Doomed ==
  \/ Working("entering") /\ ~Enterable
  \/ \E phase \in {"running", "final", "clock"} : Working(phase) /\ ~(job.live /\ Accepting)

Next ==
  \/ \E c \in Callers : Calls(c) \/ TakeTurn(c) \/ Loads(c) \/ Claims(c) \/ Steps(c)
  \/ Works \/ Fail \/ Tick \/ Crash

Spec == Init /\ [][Next]_vars

\* A call goes on when it can: the lines are first come, first served, so one that
\* waits gets its turn if the line comes free again and again, and its own steps
\* are microtasks, or file operations that settle.  So are those of the job.
Fairness ==
  /\ \A c \in Callers : SF_vars(TakeTurn(c) \/ Loads(c) \/ Claims(c) \/ Steps(c))
  /\ WF_vars(Works \/ (Doomed /\ Fail))

FairSpec == Spec /\ Fairness

-----------------------------------------------------------------------------
(* Properties. *)

Places == {"idle", "turn", "ask", "asking", "asked", "decide", "load", "pause", "pausing",
           "clock", "clocking", "saveStart", "save", "wait", "waitAdvance", "waitReset",
           "waitDelete", "waitClose", "glance", "report", "reporting", "reported", "advance",
           "claim", "check", "publish", "settle", "recheck", "closing", "remove", "create",
           "answer", "thrown"}

(* Every variable keeps its type. *)
TypeOK ==
  /\ runtime \in {"absent", "live", "closing", "dead"}
  /\ clock \in [time : Nat, paused : BOOLEAN] /\ saved \in 0..clock.time
  /\ failStopped \in BOOLEAN /\ deleted \in BOOLEAN
  /\ entry \in States \union {NoState} /\ stored \in States \union {NoState}
  /\ job \in Jobs \union {NoJob} /\ lease \in BOOLEAN /\ awaiting \in BOOLEAN
  /\ executing \in Callers \union {NoOne} /\ lifecycle \in Callers \union {NoOne}
  /\ op \in [Callers -> AllOperations] /\ pc \in [Callers -> Places]
  /\ want \in [Callers -> [playback : Playbacks \union {Keep}, pace : Paces \union {Keep}]]
  /\ current \in [Callers -> Reports]
  /\ crashes \in 0..MaxCrashes

(* Simulation time has one driver: from the moment a fast-forward is registered
   until its last operation (or the change back to realtime) the realtime clock
   stands still.  runMaximumPace refuses to enter otherwise, and the Run is lost
   to a fail-stop. *)
OneTimeDriver ==
  \A phase \in {"starting", "entering", "running", "final", "clock"} :
    Working(phase) => clock.paused

(* A fast-forward never outlives the runtime it drives: while it is registered no
   close, reset or delete takes the runtime away, however the close was begun
   (closeLoaded's lease checks and settleCompletingMaximumPace).  One that was
   started on a runtime whose close had failed finds it dead to the end. *)
JobHoldsRun == job # NoJob => runtime = IF job.live THEN "live" ELSE "dead"

(* The lease of a fast-forward is held exactly while it is registered: neither a
   failed start nor a failed end leaves the Run busy for ever, and none gives the
   Run up too early. *)
LeaseIsJob == lease <=> job # NoJob

(* A change finds no fast-forward at work, but the one it registers: that there is
   none is read once (applyExecution, advanceExecution) and holds through the load,
   the change of the clock and the save, whatever calls and ends of jobs come
   between.  startMaximumPace would put a second job in the place of the first, and
   two writers would save one execution.json. *)
ChangesAlone ==
  \A c \in Callers :
    /\ pc[c] \in {"load", "pause", "pausing", "clock", "clocking", "save"} => job = NoJob
    /\ pc[c] = "saveStart" => Working("starting")

(* An advance that is reported complete stopped at its target, to the
   millisecond: its last slice is cut short. *)
CompletedAtTarget ==
  \A phase \in {"final", "clock"} :
    Working(phase) /\ job.acc.target # NoTarget => clock.time <= job.acc.target

(* Every call on a Run returns or throws: no wait for a turn, for a job or for a
   close lasts for ever - unless the Run has been left with a job that nobody
   runs (Begins), for which DeleteEnds tells what follows. *)
CallsEnd == \A c \in Callers : pc[c] # "idle" ~> pc[c] = "idle" \/ Working("orphan")

(* workspace-module-api.ts:1362 says a delete stops the Run "including active
   maximum-pace work"; so it ends. *)
DeleteEnds == \A c \in Callers : op[c] = "delete" ~> pc[c] = "idle"

(* workspace-module-api.ts:1282 says a set "sets playback to playing or paused
   and pace to realtime or maximum": the execution it returns has what it asked,
   but on a Run that has failed. *)
SetTakesEffect ==
  \A c \in Callers : op[c] = "set" /\ pc[c] = "answer" /\ ~failStopped =>
    /\ want[c].playback \in {Keep, current[c].playback}
    /\ want[c].pace \in {Keep, current[c].pace}
=============================================================================
