-------------------------- MODULE RunExecutionProofs --------------------------
(* Proofs about RunExecution: the driver of simulation time, the registration of a
   fast-forward and its lease, and the runtime it holds.

   Whoever changes the execution has the turn in executionOperations, and whoever takes the
   runtime away has the turn in the lifecycle line.  The two lines do not exclude each
   other: what keeps a change and a close apart are the leases, which a close, a reset and
   a delete look at before the runtime goes.  The invariant has a part for each of these:
   PlaceInv (which call can be where), TurnInv (the turns), JobInv (the job and its lease),
   CloseInv (no change is made while the runtime goes) and DriverInv (the clock under a
   job).  One lemma per action shows that it keeps them.

   A reset does not look at the lease of a screen that joins.  CloseInv is therefore about
   Runs on which joins and resets do not meet (Apart), and so is what follows from it;
   the other parts, and what follows from them, hold for every Run. *)
EXTENDS RunExecution, TLAPS

-----------------------------------------------------------------------------
(* Types: what the operators of the model return. *)

LEMMA RestoredType ==
  ASSUME NEW s \in States \union {NoState}
  PROVE  Restored(s) \in States \union {NoState}
BY DEF Restored, Running, States, Accelerations, Statuses

LEMMA RememberedType ==
  ASSUME TypeOK
  PROVE  Remembered \in States \union {NoState}
BY RestoredType DEF Remembered, TypeOK

LEMMA KeptType ==
  ASSUME NEW s \in Reports
  PROVE  Kept(s) \in States
BY DEF Reports, States, Kept

LEMMA StatusType ==
  ASSUME NEW s \in States \union {NoState}, NEW paused \in BOOLEAN
  PROVE  Status(s, paused) \in Reports
<1>1. s # NoState => s.acc \in Accelerations /\ s.pace \in Paces
  BY DEF States
<1>2. NoAcceleration \in Accelerations
  BY DEF NoAcceleration, Accelerations, Statuses, Playbacks
<1> QED
  BY <1>1, <1>2 DEF Status, Running, Reports, Playbacks, Paces

LEMMA FreshTypes == Fresh \in Reports /\ FreshClock \in [time : Nat, paused : BOOLEAN] /\ FreshClock.time = 0
BY BoundAssumption DEF Fresh, FreshClock, Reports, NoAcceleration, Accelerations, Statuses, Playbacks, Paces

LEMMA DestinationType ==
  ASSUME TypeOK, NEW c \in Callers
  PROVE  Destination(c) \in [playback : Playbacks, pace : Paces]
BY DEF Destination, TypeOK, Reports, Keep

LEMMA ClockType ==
  ASSUME TypeOK
  PROVE  /\ clock.time \in Nat /\ clock.paused \in BOOLEAN /\ saved \in Nat /\ saved <= clock.time
         /\ \A t \in Nat : [clock EXCEPT !.time = t] = [time |-> t, paused |-> clock.paused]
         /\ \A p \in BOOLEAN : [clock EXCEPT !.paused = p] = [time |-> clock.time, paused |-> p]
BY DEF TypeOK

LEMMA PlansType ==
  ASSUME TypeOK, NEW c \in Callers, op[c] = "advance" => want[c].playback \in Playbacks,
         NEW plan \in Plans(c)
  PROVE  plan \in Accelerations /\ plan.status \in {"none", "paused"}
<1>1. clock.time \in Nat
  BY ClockType
<1>2. CASE op[c] = "advance"
  <2>1. PICK n \in Minutes :
          plan = [NoAcceleration EXCEPT !.target = clock.time + n, !.onComplete = want[c].playback]
    BY <1>2 DEF Plans
  <2>2. clock.time + n \in Nat
    BY <1>1, MinutesAssumption
  <2> QED
    BY <1>2, <2>1, <2>2 DEF NoAcceleration, Accelerations, Statuses
<1>3. CASE op[c] # "advance"
  <2>1. plan = Resumed(current[c].acc) /\ current[c].acc \in Accelerations
    BY <1>3 DEF Plans, TypeOK, Reports
  <2> QED
    BY <2>1 DEF Resumed, NoAcceleration, Accelerations, Statuses, Playbacks
<1> QED
  BY <1>2, <1>3

(* Begins registers a job and takes the lease: the job of a valid start is not at work
   before it has been saved, and of another start there is only the registration. *)
LEMMA BeginsEffect ==
  ASSUME TypeOK, NEW c \in Callers, NEW plan \in Accelerations, Begins(c, plan)
  PROVE  /\ job' \in Jobs /\ job' # NoJob /\ lease' = TRUE
         /\ job'.live = (runtime \in {"absent", "live"}) /\ job'.acc.status = "running"
         /\ entry' \in States \union {NoState} /\ current' \in [Callers -> Reports]
         /\ \/ /\ job'.phase = "starting" /\ pc' = [pc EXCEPT ![c] = "saveStart"]
               /\ Running(entry') /\ current'[c].acc.status = "running"
               /\ \A d \in Callers \ {c} : current'[d] = current[d]
            \/ /\ job'.phase = "orphan" /\ pc' = [pc EXCEPT ![c] = "thrown"]
               /\ entry' = Remembered /\ current' = current
<1>1. clock.time \in Nat
  BY ClockType
<1> DEFINE acc == [plan EXCEPT !.status = "running",
                               !.from = IF plan.status = "paused" THEN @ ELSE clock.time]
           valid == acc.from <= clock.time
           state == [pace |-> "maximum", acc |-> acc]
           report == [playback |-> "playing", pace |-> "maximum", acc |-> acc]
           begun == [phase |-> IF valid THEN "starting" ELSE "orphan",
                     live |-> runtime \in {"absent", "live"},
                     stop |-> FALSE, preserve |-> TRUE,
                     dest |-> [playback |-> "paused", pace |-> "maximum"],
                     acc |-> acc, result |-> state]
<1>2. acc \in Accelerations /\ acc.status = "running"
  BY <1>1 DEF Accelerations, Statuses
<1>3. /\ job' = begun /\ lease' = TRUE
      /\ \/ /\ valid /\ entry' = state /\ current' = [current EXCEPT ![c] = report] /\ Goes(c, "saveStart")
         \/ ~valid /\ entry' = Remembered /\ Goes(c, "thrown") /\ UNCHANGED current
  BY DEF Begins
<1> HIDE DEF acc
<1>4. state \in States /\ report \in Reports /\ state # NoState
  BY <1>2, NothingAssumption DEF States, Reports, Playbacks, Paces
<1>5. begun \in Jobs
  <2>1. (runtime \in {"absent", "live"}) \in BOOLEAN
    OBVIOUS
  <2> QED
    BY <1>2, <1>4, <2>1 DEF Jobs, Phases, Playbacks, Paces
<1>6. job' \in Jobs /\ job' # NoJob
  BY <1>3, <1>5, NothingAssumption
<1>7. entry' \in States \union {NoState} /\ current' \in [Callers -> Reports]
  BY <1>3, <1>4, RememberedType DEF TypeOK
<1>8. job'.live = (runtime \in {"absent", "live"}) /\ job'.acc.status = "running"
  BY <1>2, <1>3
<1> QED
  BY <1>2, <1>3, <1>4, <1>6, <1>7, <1>8 DEF Goes, TypeOK, Running

-----------------------------------------------------------------------------
(* Runs that no screen waits for, or on which joins and resets do not meet: a reset does not
   look at the lease of a join (CheckReset, InUse). *)
Apart == ~Roles \/ \A c, d \in Callers : ~("screen" \in Operations[c] /\ "reset" \in Operations[d])

Changing == {"set", "advance", "screen"}

(* Between the load and the last save of a change. *)
Making == {"pause", "pausing", "clock", "clocking", "saveStart", "save"}

(* In the lifecycle line, after the claim. *)
Ending == {"waitReset", "waitDelete", "waitClose", "check", "publish", "settle", "recheck",
           "closing", "remove", "create"}

(* Which call can be at which place. *)
PlaceInv ==
  /\ awaiting => Roles
  /\ \A c \in Callers :
       /\ op[c] = "advance" => want[c].playback \in Playbacks
       /\ pc[c] # "idle" => op[c] \in Operations[c]
       /\ op[c] = "screen" => Roles
       /\ pc[c] = "turn" => op[c] \in Changing \cup {"delete"}
       /\ pc[c] \in {"ask", "asking", "asked", "decide", "wait", "clock", "clocking"}
            => op[c] \in {"set", "screen"}
       /\ pc[c] = "load" \/ pc[c] \in Making => op[c] \in Changing
       /\ pc[c] \in {"advance", "waitAdvance"} => op[c] = "advance"
       /\ pc[c] = "claim" \/ pc[c] \in Ending => op[c] \in {"close", "reset", "delete"}
       /\ pc[c] \in {"waitReset", "check", "publish", "create"} => op[c] = "reset"
       /\ pc[c] = "waitDelete" => op[c] = "delete"
       /\ pc[c] = "remove" => op[c] \in {"reset", "delete"}

(* Changes and deletes have the turn in executionOperations, and whatever takes the
   runtime away has the turn in the lifecycle line. *)
TurnInv ==
  \A c \in Callers :
    /\ op[c] \in Changing \cup {"delete"} /\ pc[c] \notin {"idle", "turn"} => executing = c
    /\ pc[c] \in Ending => lifecycle = c

(* A call that makes a change finds no job, but the one it has registered itself. *)
JobInv ==
  /\ LeaseIsJob
  /\ \A c \in Callers :
       /\ pc[c] = "saveStart" => Working("starting")
       /\ pc[c] = "load" \/ pc[c] \in Making \ {"saveStart"} => job = NoJob

(* No change is being made while the runtime is taken away. *)
CloseInv ==
  /\ JobHoldsRun
  /\ runtime = "closing" => \E c \in Callers : pc[c] = "closing"
  /\ \A c \in Callers :
       /\ pc[c] = "closing" => job = NoJob /\ runtime \in {"closing", "dead"}
       /\ pc[c] \in {"remove", "create"} => job = NoJob /\ runtime = "absent"
       /\ pc[c] \in Making \cup {"waitClose", "recheck"} => runtime # "absent"
       /\ pc[c] = "pausing" => runtime = "live"
       /\ (pc[c] \in Ending /\ op[c] = "close") \/ pc[c] \in {"closing", "remove", "create"}
            => \A d \in Callers : pc[d] \notin Making

(* The clock stands still under a job, no further than the job's target. *)
DriverInv == OneTimeDriver /\ \A phase \in {"running", "final", "clock"} :
  Working(phase) /\ job.acc.target # NoTarget => clock.time <= job.acc.target

(* The invariant. *)
Core == TypeOK /\ PlaceInv /\ TurnInv /\ JobInv /\ DriverInv /\ (Apart => CloseInv)

-----------------------------------------------------------------------------
(* The effects that actions share. *)
(* Nobody is in the lifecycle line when a Run is loaded, or its runtime at hand is used. *)
LEMMA LoadEffect ==
  ASSUME TypeOK, TurnInv, Load
  PROVE  /\ runtime' = (IF runtime = "absent" THEN "live" ELSE runtime)
         /\ runtime' \in {"live", "closing", "dead"}
         /\ failStopped' \in BOOLEAN /\ UNCHANGED <<clock, saved, deleted>>
         /\ \A d \in Callers : pc[d] \notin Ending
<1>1. lifecycle \notin Callers
  BY CallerAssumption DEF Load
<1>2. failStopped' \in BOOLEAN
  BY DEF Load, TypeOK
<1>3. runtime' = (IF runtime = "absent" THEN "live" ELSE runtime) /\ UNCHANGED <<clock, saved,
                                                                                 deleted>>
  BY DEF Load
<1>4. runtime \in {"absent", "live", "closing", "dead"}
  BY DEF TypeOK
<1> QED
  BY <1>1, <1>2, <1>3, <1>4 DEF TurnInv

(* A job that is told where to go, or goes to another phase, stays what it is. *)
Same(before, after) ==
  /\ after \in Jobs /\ after # NoJob /\ after.live = before.live /\ after.acc = before.acc
  /\ after.result = before.result

LEMMA RedirectEffect ==
  ASSUME job \in Jobs, NEW dest \in [playback : Playbacks, pace : Paces], NEW preserved \in
         BOOLEAN,
         Redirect(dest, preserved)
  PROVE  Same(job, job') /\ job'.phase = job.phase
<1>1. job' \in Jobs /\ job'.phase = job.phase /\ job'.live = job.live /\ job'.acc = job.acc
      /\ job'.result = job.result
  BY DEF Redirect, Jobs
<1> QED
  BY <1>1, NothingAssumption DEF Same

LEMMA PhaseEffect ==
  ASSUME job \in Jobs, NEW phase \in Phases, job' = [job EXCEPT !.phase = phase]
  PROVE  Same(job, job') /\ job'.phase = phase
<1>1. job' \in Jobs /\ job'.phase = phase /\ job'.live = job.live /\ job'.acc = job.acc
      /\ job'.result = job.result
  BY DEF Jobs
<1> QED
  BY <1>1, NothingAssumption DEF Same

(* The end of a job: what is remembered is its result. *)
LEMMA TerminatesEffect ==
  ASSUME job \in Jobs, NEW dest \in [playback : Playbacks, pace : Paces], Terminates(dest)
  PROVE  /\ job' \in Jobs /\ job' # NoJob /\ job'.live = job.live /\ job'.acc = job.acc
         /\ job'.phase = "terminal" /\ entry' \in States /\ job'.result = entry'
         /\ entry'.acc.status \in {"completed", "paused", "stopped"}
<1> DEFINE status == IF AtTarget THEN "completed" ELSE IF job.preserve THEN "paused" ELSE "stopped"
           end == [pace |-> dest.pace, acc |-> [job.acc EXCEPT !.status = status]]
<1>1. entry' = end /\ job' = [job EXCEPT !.phase = "terminal", !.result = end]
  BY DEF Terminates
<1>2. status \in {"completed", "paused", "stopped"}
  OBVIOUS
<1> HIDE DEF status
<1>3. end \in States /\ end.acc.status = status
  <2>1. job.acc \in Accelerations
    BY DEF Jobs
  <2> QED
    BY <1>2, <2>1 DEF States, Accelerations, Statuses
<1> HIDE DEF end
<1>4. /\ job' \in Jobs /\ job'.live = job.live /\ job'.acc = job.acc
      /\ job'.phase = "terminal" /\ job'.result = end
  BY <1>1, <1>3 DEF Jobs, Phases
<1> QED
  BY <1>1, <1>2, <1>3, <1>4, NothingAssumption

LEMMA FailsEffect ==
  ASSUME job \in Jobs, NEW end, end = [job.result EXCEPT !.acc.status = "failed"],
         job' = [job EXCEPT !.phase = "failing", !.result = end]
  PROVE  /\ job' \in Jobs /\ job' # NoJob /\ job'.live = job.live /\ job'.acc = job.acc
         /\ job'.phase = "failing" /\ end \in States /\ end.acc.status = "failed" /\ job'.result = end
<1>1. end \in States /\ end.acc.status = "failed"
  BY DEF Jobs, States, Accelerations, Statuses
<1>2. /\ job' \in Jobs /\ job'.live = job.live /\ job'.acc = job.acc
      /\ job'.phase = "failing" /\ job'.result = end
  BY <1>1 DEF Jobs, Phases
<1> QED
  BY <1>1, <1>2, NothingAssumption

LEMMA EndedType ==
  ASSUME job \in Jobs
  PROVE  Ended \in [playback : Playbacks, pace : Paces]
BY DEF Ended, Jobs, Accelerations, Playbacks, Paces

(* Whoever waits for the job goes on where it would have gone without one. *)
LEMMA ReleasedEffect ==
  ASSUME TypeOK
  PROVE  /\ Released \in [Callers -> Places]
         /\ \A c \in Callers :
              \/ pc[c] \notin {"wait", "waitAdvance", "waitReset", "waitDelete", "waitClose"}
                 /\ Released[c] = pc[c]
              \/ pc[c] = "wait" /\ Released[c] = "report"
              \/ pc[c] = "waitAdvance" /\ Released[c] = "load"
              \/ pc[c] = "waitReset" /\ Released[c] = "check"
              \/ pc[c] = "waitDelete" /\ Released[c] = "settle"
              \/ pc[c] = "waitClose" /\ Released[c] = "recheck"
BY DEF TypeOK, Released, Places

-----------------------------------------------------------------------------
(* A job at work changes, and nothing of the calls does. *)
LEMMA JobStep ==
  ASSUME Core, job \in Jobs, job # NoJob, job.phase # "starting",
         job' \in Jobs, job' # NoJob, job'.live = job.live,
         UNCHANGED <<runtime, lease, turns, calls, awaiting>>
  PROVE  PlaceInv' /\ TurnInv' /\ JobInv' /\ (Apart => CloseInv')
<1>1. PlaceInv /\ TurnInv /\ JobInv /\ (Apart => CloseInv)
  BY DEF Core
<1>2. UNCHANGED <<op, pc, want, executing, lifecycle, awaiting>>
  BY DEF turns, calls
<1>3. PlaceInv' /\ TurnInv'
  BY <1>1, <1>2 DEF PlaceInv, TurnInv
<1>4. \A c \in Callers : pc[c] # "saveStart" /\ pc[c] # "load" /\ pc[c] \notin Making
  BY <1>1 DEF JobInv, Working, Making
<1>5. JobInv'
  BY <1>1, <1>2, <1>4 DEF JobInv, LeaseIsJob
<1>6. Apart => CloseInv'
  BY <1>1, <1>2, <1>4 DEF CloseInv, JobHoldsRun
<1> QED
  BY <1>3, <1>5, <1>6

(* A job begins while no runtime is being taken away, under a clock that stands still. *)
LEMMA BeginsStep ==
  ASSUME Core, NEW c \in Callers, NEW plan \in Accelerations, Begins(c, plan),
         pc[c] = "load" \/ pc[c] = "pausing",
         runtime' \in {"absent", "live", "closing", "dead"},
         Apart => /\ runtime # "closing" /\ runtime' = (IF runtime = "absent" THEN "live" ELSE runtime)
                  /\ \A d \in Callers : /\ ~(pc[d] \in Ending /\ op[d] = "close")
                                        /\ pc[d] \notin {"closing", "remove", "create"},
         clock' \in [time : Nat, paused : BOOLEAN], clock'.paused, saved' \in 0..clock'.time,
         failStopped' \in BOOLEAN,
         UNCHANGED <<deleted, stored, turns, asked, awaiting, crashes>>
  PROVE  Core'
<1>1. TypeOK /\ PlaceInv /\ TurnInv /\ JobInv /\ DriverInv /\ (Apart => CloseInv)
  BY DEF Core
<1>2. /\ job' \in Jobs /\ job' # NoJob /\ lease' = TRUE
      /\ job'.live = (runtime \in {"absent", "live"})
      /\ entry' \in States \union {NoState} /\ current' \in [Callers -> Reports]
      /\ \/ job'.phase = "starting" /\ pc' = [pc EXCEPT ![c] = "saveStart"]
         \/ job'.phase = "orphan" /\ pc' = [pc EXCEPT ![c] = "thrown"]
  BY <1>1, BeginsEffect
<1>3. UNCHANGED <<executing, lifecycle, op, want>>
  BY DEF turns, asked
<1>4. /\ op[c] \in Changing /\ executing = c /\ job = NoJob
      /\ \A d \in Callers : d # c => pc[d] # "load" /\ pc[d] \notin Making
  BY <1>1 DEF PlaceInv, TurnInv, JobInv, Making
<1>5. Apart => runtime' \in {"live", "dead"} /\ runtime \in {"absent", "live", "dead"}
  BY <1>1 DEF TypeOK
<1>6. /\ \A d \in Callers \ {c} : pc'[d] = pc[d]
      /\ \/ job'.phase = "starting" /\ pc'[c] = "saveStart"
         \/ job'.phase = "orphan" /\ pc'[c] = "thrown"
  BY <1>1, <1>2 DEF TypeOK
<1>7. TypeOK'
  <2>1. pc' \in [Callers -> Places]
    BY <1>1, <1>2 DEF TypeOK, Places
  <2> QED
    BY <1>1, <1>2, <1>3, <1>5, <2>1 DEF TypeOK
<1>8. PlaceInv'
  BY <1>1, <1>3, <1>4, <1>6 DEF PlaceInv, Making, Ending
<1>9. TurnInv'
  BY <1>1, <1>3, <1>4, <1>6 DEF TurnInv, Ending
<1>10. JobInv'
  BY <1>2, <1>4, <1>6 DEF JobInv, LeaseIsJob, Working, Making
<1>11. Apart => CloseInv'
  <2> SUFFICES ASSUME Apart
               PROVE  CloseInv'
    OBVIOUS
  <2>1. JobHoldsRun'
    BY <1>2, <1>5 DEF JobHoldsRun
  <2>2. \A d \in Callers : /\ pc'[d] \notin {"closing", "remove", "create", "pausing"}
                           /\ ~(pc'[d] \in Ending /\ op'[d] = "close")
    BY <1>3, <1>4, <1>6 DEF Making, Ending
  <2> QED
    BY <1>5, <2>1, <2>2 DEF CloseInv
<1>12. DriverInv'
  BY <1>2 DEF DriverInv, OneTimeDriver, Working
<1> QED
  BY <1>7, <1>8, <1>9, <1>10, <1>11, <1>12 DEF Core

-----------------------------------------------------------------------------
(* Calls and their turns. *)

LEMMA CallKeeps ==
  ASSUME Core, NEW c \in Callers, NEW o \in Operations[c], NEW w \in Asking(o), Call(c, o,
         w)
  PROVE  Core'
<1>1. TypeOK /\ PlaceInv /\ TurnInv /\ JobInv /\ DriverInv /\ (Apart => CloseInv)
  BY DEF Core
<1>2. /\ pc[c] = "idle" /\ op' = [op EXCEPT ![c] = o] /\ want' = [want EXCEPT ![c] = w]
      /\ pc' = [pc EXCEPT ![c] = FirstStep(o)] /\ awaiting' \in BOOLEAN /\ (awaiting' => awaiting)
      /\ o = "screen" => awaiting
      /\ UNCHANGED <<runtime, clock, saved, failStopped, deleted, entry, stored, job, lease,
                     executing, lifecycle, current, crashes>>
  BY DEF Call, Goes, run, kept, work, turns
<1>3. /\ o \in AllOperations
      /\ w \in [playback : Playbacks \union {Keep}, pace : Paces \union {Keep}]
      /\ o = "advance" => w.playback \in Playbacks
      /\ FirstStep(o) \in {"glance", "report", "claim", "turn"}
      /\ FirstStep(o) = "claim" => o \in {"close", "reset"}
      /\ FirstStep(o) = "turn" <=> o \in Changing \cup {"delete"}
  <2>1. o \in AllOperations
    BY OperationAssumption
  <2>2. /\ w \in [playback : Playbacks \union {Keep}, pace : Paces \union {Keep}]
        /\ o = "advance" => w.playback \in Playbacks
    <3>1. CASE o = "set"
      BY <3>1, WishAssumption DEF Asking, Playbacks, Paces, Keep
    <3>2. CASE o = "advance"
      BY <3>2 DEF Asking, Playbacks, Paces, Keep
    <3>3. CASE o = "screen"
      BY <3>3 DEF Asking, Playbacks, Paces, Keep
    <3>4. CASE o \notin {"set", "advance", "screen"}
      BY <3>4 DEF Asking, Nothing
    <3> QED
      BY <3>1, <3>2, <3>3, <3>4
  <2>3. /\ FirstStep(o) \in {"glance", "report", "claim", "turn"}
        /\ FirstStep(o) = "claim" => o \in {"close", "reset"}
        /\ FirstStep(o) = "turn" <=> o \in Changing \cup {"delete"}
    BY <2>1 DEF FirstStep, AllOperations, Changing
  <2> QED
    BY <2>1, <2>2, <2>3
<1>4. TypeOK'
  BY <1>1, <1>2, <1>3 DEF TypeOK, Places
<1>5. PlaceInv'
  BY <1>1, <1>2, <1>3 DEF PlaceInv, Making, Ending, TypeOK
<1>6. TurnInv'
  BY <1>1, <1>2, <1>3 DEF TurnInv, Changing, Ending, TypeOK
<1>7. JobInv'
  BY <1>1, <1>2, <1>3 DEF JobInv, LeaseIsJob, Working, Making, TypeOK
<1>8. Apart => CloseInv'
  BY <1>1, <1>2, <1>3 DEF CloseInv, JobHoldsRun, Making, Ending, TypeOK
<1>9. DriverInv'
  BY <1>1, <1>2 DEF DriverInv, OneTimeDriver, Working
<1> QED
  BY <1>4, <1>5, <1>6, <1>7, <1>8, <1>9 DEF Core

LEMMA TakeTurnKeeps ==
  ASSUME Core, NEW c \in Callers, TakeTurn(c)
  PROVE  Core'
<1>1. TypeOK /\ PlaceInv /\ TurnInv /\ JobInv /\ DriverInv /\ (Apart => CloseInv)
  BY DEF Core
<1>2. op[c] \in Changing \cup {"delete"} /\ executing \notin Callers
  BY <1>1, CallerAssumption DEF TakeTurn, PlaceInv
<1>3. TypeOK'
  BY <1>1, <1>2 DEF TakeTurn, Goes, run, kept, work, asked, TypeOK, Places, Changing
<1>4. PlaceInv'
  BY <1>1, <1>2 DEF TakeTurn, Goes, run, kept, work, asked, PlaceInv, Changing, Making, Ending,
     TypeOK
<1>5. TurnInv'
  BY <1>1, <1>2 DEF TakeTurn, Goes, run, kept, work, asked, TurnInv, PlaceInv, Changing, Making,
     Ending, TypeOK
<1>6. JobInv'
  BY <1>1, <1>2 DEF TakeTurn, Goes, run, kept, work, asked, JobInv, LeaseIsJob, Working,
     TurnInv, PlaceInv, Changing, Making, Ending, TypeOK
<1>7. Apart => CloseInv'
  BY <1>1, <1>2 DEF TakeTurn, Goes, run, kept, work, asked, CloseInv, JobHoldsRun, JobInv,
     LeaseIsJob, TurnInv, PlaceInv, Changing, Making, Ending, TypeOK
<1>8. DriverInv'
  BY <1>1, <1>2 DEF TakeTurn, Goes, run, kept, work, asked, DriverInv, OneTimeDriver, Working,
     JobInv, LeaseIsJob, TypeOK, Changing
<1> QED
  BY <1>3, <1>4, <1>5, <1>6, <1>7, <1>8 DEF Core

LEMMA ReturnKeeps ==
  ASSUME Core, NEW c \in Callers, Return(c)
  PROVE  Core'
<1>1. TypeOK /\ PlaceInv /\ TurnInv /\ JobInv /\ DriverInv /\ (Apart => CloseInv)
  BY DEF Core
<1>2. TypeOK'
  BY <1>1, FreshTypes DEF Return, Goes, run, kept, work, TypeOK, Places, Nothing, Keep,
     AllOperations
<1>3. PlaceInv'
  BY <1>1 DEF Return, Goes, run, kept, work, PlaceInv, Changing, Making, Ending, TypeOK,
     Nothing, Keep, AllOperations
<1>4. TurnInv'
  BY <1>1 DEF Return, Goes, run, kept, work, TurnInv, PlaceInv, Changing, Making, Ending,
     TypeOK, Nothing, Keep, AllOperations
<1>5. JobInv'
  BY <1>1 DEF Return, Goes, run, kept, work, JobInv, LeaseIsJob, Working, TurnInv, PlaceInv,
     Changing, Making, Ending, TypeOK, Nothing, Keep, AllOperations
<1>6. Apart => CloseInv'
  BY <1>1 DEF Return, Goes, run, kept, work, CloseInv, JobHoldsRun, JobInv, LeaseIsJob, TurnInv,
     PlaceInv, Changing, Making, Ending, TypeOK, Nothing, Keep, AllOperations
<1>7. DriverInv'
  BY <1>1 DEF Return, Goes, run, kept, work, DriverInv, OneTimeDriver, Working, JobInv,
     LeaseIsJob, TypeOK, Nothing, Keep, AllOperations
<1> QED
  BY <1>2, <1>3, <1>4, <1>5, <1>6, <1>7 DEF Core

-----------------------------------------------------------------------------
(* Loading, and reading the status. *)

LEMMA LoadFailsKeeps ==
  ASSUME Core, NEW c \in Callers, LoadFails(c)
  PROVE  Core'
<1>1. TypeOK /\ PlaceInv /\ TurnInv /\ JobInv /\ DriverInv /\ (Apart => CloseInv)
  BY DEF Core
<1>2. TypeOK'
  BY <1>1 DEF LoadFails, Goes, run, kept, work, turns, asked, TypeOK, Places, Asks
<1>3. PlaceInv'
  BY <1>1 DEF LoadFails, Goes, run, kept, work, turns, asked, PlaceInv, Changing, Making,
     Ending, TypeOK, Asks
<1>4. TurnInv'
  BY <1>1 DEF LoadFails, Goes, run, kept, work, turns, asked, TurnInv, PlaceInv, Changing,
     Making, Ending, TypeOK, Asks
<1>5. JobInv'
  BY <1>1 DEF LoadFails, Goes, run, kept, work, turns, asked, JobInv, LeaseIsJob, Working,
     TurnInv, PlaceInv, Changing, Making, Ending, TypeOK, Asks
<1>6. Apart => CloseInv'
  <2> SUFFICES ASSUME Apart
               PROVE  CloseInv'
    OBVIOUS
  <2>1. \A d \in Callers : pc[d] \notin Ending
    BY <1>1, CallerAssumption DEF LoadFails, TurnInv
  <2>2. /\ UNCHANGED <<op, job>> /\ pc' = [pc EXCEPT ![c] = "thrown"]
        /\ UNCHANGED runtime \/ (runtime = "absent" /\ runtime' = "live")
    BY DEF LoadFails, Goes, work, asked
  <2>3. \A d \in Callers : pc'[d] \notin Ending /\ (pc'[d] = pc[d] \/ pc'[d] = "thrown")
    BY <1>1, <2>1, <2>2 DEF TypeOK, Ending
  <2>4. JobHoldsRun'
    BY <1>1, <2>2 DEF CloseInv, JobHoldsRun
  <2>5. runtime' # "closing"
    BY <1>1, <2>1, <2>2 DEF CloseInv, Ending
  <2> QED
    BY <1>1, <2>2, <2>3, <2>4, <2>5 DEF CloseInv, Ending, Making
<1>7. DriverInv'
  BY <1>1 DEF LoadFails, Goes, run, kept, work, turns, asked, DriverInv, OneTimeDriver, Working,
     JobInv, LeaseIsJob, TypeOK, Asks
<1> QED
  BY <1>2, <1>3, <1>4, <1>5, <1>6, <1>7 DEF Core

LEMMA StatusKnownKeeps ==
  ASSUME Core, NEW c \in Callers, StatusKnown(c)
  PROVE  Core'
<1>1. TypeOK /\ PlaceInv /\ TurnInv /\ JobInv /\ DriverInv /\ (Apart => CloseInv)
  BY DEF Core
<1>2. /\ runtime' = (IF runtime = "absent" THEN "live" ELSE runtime)
      /\ runtime' \in {"live", "closing", "dead"} /\ failStopped' \in BOOLEAN
      /\ UNCHANGED <<clock, saved, deleted>>
      /\ \A d \in Callers : pc[d] \notin Ending
  BY <1>1, LoadEffect DEF StatusKnown
<1>3. entry' \in States /\ current' \in [Callers -> Reports]
  <2>1. Status(Remembered, clock.paused) \in Reports
    BY <1>1, RememberedType, StatusType, ClockType
  <2>2. current' \in [Callers -> Reports] /\ current'[c] \in Reports
    BY <1>1, <2>1 DEF StatusKnown, TypeOK
  <2> QED
    BY <2>2, KeptType DEF StatusKnown
<1>4. TypeOK'
  BY <1>1, <1>2, <1>3 DEF StatusKnown, Goes, work, turns, asked, Asks, TypeOK, Places
<1>5. PlaceInv'
  BY <1>1, <1>2, <1>3 DEF StatusKnown, Goes, work, turns, asked, Asks, PlaceInv, Changing,
     Making, Ending, TypeOK
<1>6. TurnInv'
  BY <1>1, <1>2, <1>3 DEF StatusKnown, Goes, work, turns, asked, Asks, TurnInv, PlaceInv,
     Changing, Making, Ending, TypeOK
<1>7. JobInv'
  BY <1>1, <1>2, <1>3 DEF StatusKnown, Goes, work, turns, asked, Asks, JobInv, LeaseIsJob,
     Working, TurnInv, PlaceInv, Changing, Making, Ending, TypeOK
<1>8. Apart => CloseInv'
  BY <1>1, <1>2, <1>3 DEF StatusKnown, Goes, work, turns, asked, Asks, CloseInv, JobHoldsRun,
     JobInv, LeaseIsJob, TurnInv, PlaceInv, Changing, Making, Ending, TypeOK
<1>9. DriverInv'
  BY <1>1, <1>2, <1>3 DEF StatusKnown, Goes, work, turns, asked, Asks, DriverInv, OneTimeDriver,
     Working, JobInv, LeaseIsJob, TypeOK
<1> QED
  BY <1>4, <1>5, <1>6, <1>7, <1>8, <1>9 DEF Core

LEMMA StatusReadsKeeps ==
  ASSUME Core, NEW c \in Callers, StatusReads(c)
  PROVE  Core'
<1>1. TypeOK /\ PlaceInv /\ TurnInv /\ JobInv /\ DriverInv /\ (Apart => CloseInv)
  BY DEF Core
<1>2. /\ runtime' = (IF runtime = "absent" THEN "live" ELSE runtime)
      /\ runtime' \in {"live", "closing", "dead"} /\ failStopped' \in BOOLEAN
      /\ UNCHANGED <<clock, saved, deleted>>
      /\ \A d \in Callers : pc[d] \notin Ending
  BY <1>1, LoadEffect DEF StatusReads
<1>3. entry' \in States \union {NoState} /\ current' \in [Callers -> Reports]
  <2>1. Status(NoState, clock.paused) \in Reports
    BY <1>1, StatusType, ClockType
  <2> QED
    BY <1>1, <2>1, RememberedType DEF StatusReads, TypeOK
<1>4. TypeOK'
  BY <1>1, <1>2, <1>3 DEF StatusReads, Goes, work, turns, asked, Asks, TypeOK, Places
<1>5. PlaceInv'
  BY <1>1, <1>2, <1>3 DEF StatusReads, Goes, work, turns, asked, Asks, PlaceInv, Changing,
     Making, Ending, TypeOK
<1>6. TurnInv'
  BY <1>1, <1>2, <1>3 DEF StatusReads, Goes, work, turns, asked, Asks, TurnInv, PlaceInv,
     Changing, Making, Ending, TypeOK
<1>7. JobInv'
  BY <1>1, <1>2, <1>3 DEF StatusReads, Goes, work, turns, asked, Asks, JobInv, LeaseIsJob,
     Working, TurnInv, PlaceInv, Changing, Making, Ending, TypeOK
<1>8. Apart => CloseInv'
  BY <1>1, <1>2, <1>3 DEF StatusReads, Goes, work, turns, asked, Asks, CloseInv, JobHoldsRun,
     JobInv, LeaseIsJob, TurnInv, PlaceInv, Changing, Making, Ending, TypeOK
<1>9. DriverInv'
  BY <1>1, <1>2, <1>3 DEF StatusReads, Goes, work, turns, asked, Asks, DriverInv, OneTimeDriver,
     Working, JobInv, LeaseIsJob, TypeOK
<1> QED
  BY <1>4, <1>5, <1>6, <1>7, <1>8, <1>9 DEF Core

LEMMA DiskReadKeeps ==
  ASSUME Core, NEW c \in Callers, DiskRead(c)
  PROVE  Core'
<1>1. TypeOK /\ PlaceInv /\ TurnInv /\ JobInv /\ DriverInv /\ (Apart => CloseInv)
  BY DEF Core
<1>2. current' \in [Callers -> Reports]
  <2>1. Restored(stored) \in States \union {NoState}
    BY <1>1, RestoredType DEF TypeOK
  <2>2. (current[c].playback = "paused") \in BOOLEAN
    OBVIOUS
  <2>3. Status(Restored(stored), current[c].playback = "paused") \in Reports
    BY <2>1, <2>2, StatusType
  <2> QED
    BY <1>1, <2>3 DEF DiskRead, TypeOK
<1>3. TypeOK'
  BY <1>1, <1>2 DEF DiskRead, Goes, run, kept, work, turns, asked, TypeOK, Places
<1>4. PlaceInv'
  BY <1>1, <1>2 DEF DiskRead, Goes, run, kept, work, turns, asked, PlaceInv, Changing, Making,
     Ending, TypeOK
<1>5. TurnInv'
  BY <1>1, <1>2 DEF DiskRead, Goes, run, kept, work, turns, asked, TurnInv, PlaceInv, Changing,
     Making, Ending, TypeOK
<1>6. JobInv'
  BY <1>1, <1>2 DEF DiskRead, Goes, run, kept, work, turns, asked, JobInv, LeaseIsJob, Working,
     TurnInv, PlaceInv, Changing, Making, Ending, TypeOK
<1>7. Apart => CloseInv'
  BY <1>1, <1>2 DEF DiskRead, Goes, run, kept, work, turns, asked, CloseInv, JobHoldsRun,
     JobInv, LeaseIsJob, TurnInv, PlaceInv, Changing, Making, Ending, TypeOK
<1>8. DriverInv'
  BY <1>1, <1>2 DEF DiskRead, Goes, run, kept, work, turns, asked, DriverInv, OneTimeDriver,
     Working, JobInv, LeaseIsJob, TypeOK
<1> QED
  BY <1>3, <1>4, <1>5, <1>6, <1>7, <1>8 DEF Core

LEMMA StatusRemembersKeeps ==
  ASSUME Core, NEW c \in Callers, StatusRemembers(c)
  PROVE  Core'
<1>1. TypeOK /\ PlaceInv /\ TurnInv /\ JobInv /\ DriverInv /\ (Apart => CloseInv)
  BY DEF Core
<1>2. entry' \in States
  BY <1>1, KeptType DEF StatusRemembers, TypeOK
<1>3. TypeOK'
  BY <1>1, <1>2 DEF StatusRemembers, Goes, run, work, turns, asked, TypeOK, Places
<1>4. PlaceInv'
  BY <1>1, <1>2 DEF StatusRemembers, Goes, run, work, turns, asked, PlaceInv, Changing, Making,
     Ending, TypeOK
<1>5. TurnInv'
  BY <1>1, <1>2 DEF StatusRemembers, Goes, run, work, turns, asked, TurnInv, PlaceInv, Changing,
     Making, Ending, TypeOK
<1>6. JobInv'
  BY <1>1, <1>2 DEF StatusRemembers, Goes, run, work, turns, asked, JobInv, LeaseIsJob, Working,
     TurnInv, PlaceInv, Changing, Making, Ending, TypeOK
<1>7. Apart => CloseInv'
  BY <1>1, <1>2 DEF StatusRemembers, Goes, run, work, turns, asked, CloseInv, JobHoldsRun,
     JobInv, LeaseIsJob, TurnInv, PlaceInv, Changing, Making, Ending, TypeOK
<1>8. DriverInv'
  BY <1>1, <1>2 DEF StatusRemembers, Goes, run, work, turns, asked, DriverInv, OneTimeDriver,
     Working, JobInv, LeaseIsJob, TypeOK
<1> QED
  BY <1>3, <1>4, <1>5, <1>6, <1>7, <1>8 DEF Core

LEMMA OverviewReadsKeeps ==
  ASSUME Core, NEW c \in Callers, OverviewReads(c)
  PROVE  Core'
<1>1. TypeOK /\ PlaceInv /\ TurnInv /\ JobInv /\ DriverInv /\ (Apart => CloseInv)
  BY DEF Core
<1>2. current' \in [Callers -> Reports]
  <2>1. Status(entry, clock.paused) \in Reports
    BY <1>1, StatusType, ClockType DEF TypeOK
  <2> QED
    BY <1>1, <2>1 DEF OverviewReads, TypeOK
<1>3. TypeOK'
  BY <1>1, <1>2 DEF OverviewReads, Goes, run, kept, work, turns, asked, TypeOK, Places
<1>4. PlaceInv'
  BY <1>1, <1>2 DEF OverviewReads, Goes, run, kept, work, turns, asked, PlaceInv, Changing,
     Making, Ending, TypeOK
<1>5. TurnInv'
  BY <1>1, <1>2 DEF OverviewReads, Goes, run, kept, work, turns, asked, TurnInv, PlaceInv,
     Changing, Making, Ending, TypeOK
<1>6. JobInv'
  BY <1>1, <1>2 DEF OverviewReads, Goes, run, kept, work, turns, asked, JobInv, LeaseIsJob,
     Working, TurnInv, PlaceInv, Changing, Making, Ending, TypeOK
<1>7. Apart => CloseInv'
  BY <1>1, <1>2 DEF OverviewReads, Goes, run, kept, work, turns, asked, CloseInv, JobHoldsRun,
     JobInv, LeaseIsJob, TurnInv, PlaceInv, Changing, Making, Ending, TypeOK
<1>8. DriverInv'
  BY <1>1, <1>2 DEF OverviewReads, Goes, run, kept, work, turns, asked, DriverInv,
     OneTimeDriver, Working, JobInv, LeaseIsJob, TypeOK
<1> QED
  BY <1>3, <1>4, <1>5, <1>6, <1>7, <1>8 DEF Core

-----------------------------------------------------------------------------
(* applyExecution. *)

LEMMA AskAgainKeeps ==
  ASSUME Core, NEW c \in Callers, AskAgain(c)
  PROVE  Core'
<1>1. TypeOK /\ PlaceInv /\ TurnInv /\ JobInv /\ DriverInv /\ (Apart => CloseInv)
  BY DEF Core
<1>2. TypeOK'
  BY <1>1 DEF AskAgain, Goes, run, kept, work, turns, asked, TypeOK, Places
<1>3. PlaceInv'
  BY <1>1 DEF AskAgain, Goes, run, kept, work, turns, asked, PlaceInv, Changing, Making, Ending,
     TypeOK
<1>4. TurnInv'
  BY <1>1 DEF AskAgain, Goes, run, kept, work, turns, asked, TurnInv, PlaceInv, Changing,
     Making, Ending, TypeOK
<1>5. JobInv'
  BY <1>1 DEF AskAgain, Goes, run, kept, work, turns, asked, JobInv, LeaseIsJob, Working,
     TurnInv, PlaceInv, Changing, Making, Ending, TypeOK
<1>6. Apart => CloseInv'
  BY <1>1 DEF AskAgain, Goes, run, kept, work, turns, asked, CloseInv, JobHoldsRun, JobInv,
     LeaseIsJob, TurnInv, PlaceInv, Changing, Making, Ending, TypeOK
<1>7. DriverInv'
  BY <1>1 DEF AskAgain, Goes, run, kept, work, turns, asked, DriverInv, OneTimeDriver, Working,
     JobInv, LeaseIsJob, TypeOK
<1> QED
  BY <1>2, <1>3, <1>4, <1>5, <1>6, <1>7 DEF Core

LEMMA UnchangedKeeps ==
  ASSUME Core, NEW c \in Callers, Unchanged(c)
  PROVE  Core'
<1>1. TypeOK /\ PlaceInv /\ TurnInv /\ JobInv /\ DriverInv /\ (Apart => CloseInv)
  BY DEF Core
<1>2. TypeOK'
  BY <1>1 DEF Unchanged, Goes, run, kept, work, turns, asked, TypeOK, Places
<1>3. PlaceInv'
  BY <1>1 DEF Unchanged, Goes, run, kept, work, turns, asked, PlaceInv, Changing, Making,
     Ending, TypeOK
<1>4. TurnInv'
  BY <1>1 DEF Unchanged, Goes, run, kept, work, turns, asked, TurnInv, PlaceInv, Changing,
     Making, Ending, TypeOK
<1>5. JobInv'
  BY <1>1 DEF Unchanged, Goes, run, kept, work, turns, asked, JobInv, LeaseIsJob, Working,
     TurnInv, PlaceInv, Changing, Making, Ending, TypeOK
<1>6. Apart => CloseInv'
  BY <1>1 DEF Unchanged, Goes, run, kept, work, turns, asked, CloseInv, JobHoldsRun, JobInv,
     LeaseIsJob, TurnInv, PlaceInv, Changing, Making, Ending, TypeOK
<1>7. DriverInv'
  BY <1>1 DEF Unchanged, Goes, run, kept, work, turns, asked, DriverInv, OneTimeDriver, Working,
     JobInv, LeaseIsJob, TypeOK
<1> QED
  BY <1>2, <1>3, <1>4, <1>5, <1>6, <1>7 DEF Core

LEMMA InterruptKeeps ==
  ASSUME Core, NEW c \in Callers, Interrupt(c)
  PROVE  Core'
<1>1. TypeOK /\ PlaceInv /\ TurnInv /\ JobInv /\ DriverInv /\ (Apart => CloseInv)
  BY DEF Core
<1>2. job \in Jobs /\ job # NoJob
  BY <1>1 DEF Interrupt, TypeOK
<1>3. Same(job, job') /\ job'.phase = job.phase
  <2>1. (Destination(c) = [playback |-> "paused", pace |-> "maximum"]) \in BOOLEAN
    OBVIOUS
  <2> QED
    BY <1>1, <1>2, <2>1, DestinationType, RedirectEffect DEF Interrupt
<1>4. TypeOK'
  BY <1>1, <1>2, <1>3, FreshTypes DEF Interrupt, Goes, run, kept, turns, asked, TypeOK, Places,
     Same
<1>5. PlaceInv'
  BY <1>1, <1>2, <1>3 DEF Interrupt, Goes, run, kept, turns, asked, PlaceInv, Changing, Making,
     Ending, TypeOK, Same
<1>6. TurnInv'
  BY <1>1, <1>2, <1>3 DEF Interrupt, Goes, run, kept, turns, asked, TurnInv, PlaceInv, Changing,
     Making, Ending, TypeOK, Same
<1>7. JobInv'
  BY <1>1, <1>2, <1>3 DEF Interrupt, Goes, run, kept, turns, asked, JobInv, LeaseIsJob, Working,
     TurnInv, PlaceInv, Changing, Making, Ending, TypeOK, Same
<1>8. Apart => CloseInv'
  BY <1>1, <1>2, <1>3 DEF Interrupt, Goes, run, kept, turns, asked, CloseInv, JobHoldsRun,
     JobInv, LeaseIsJob, TurnInv, PlaceInv, Changing, Making, Ending, TypeOK, Same
<1>9. DriverInv'
  BY <1>1, <1>2, <1>3 DEF Interrupt, Goes, run, kept, turns, asked, DriverInv, OneTimeDriver,
     Working, JobInv, LeaseIsJob, TypeOK, Same
<1> QED
  BY <1>4, <1>5, <1>6, <1>7, <1>8, <1>9 DEF Core

LEMMA ProceedKeeps ==
  ASSUME Core, NEW c \in Callers, Proceed(c)
  PROVE  Core'
<1>1. TypeOK /\ PlaceInv /\ TurnInv /\ JobInv /\ DriverInv /\ (Apart => CloseInv)
  BY DEF Core
<1>2. TypeOK'
  BY <1>1 DEF Proceed, Goes, run, kept, work, turns, asked, TypeOK, Places
<1>3. PlaceInv'
  BY <1>1 DEF Proceed, Goes, run, kept, work, turns, asked, PlaceInv, Changing, Making, Ending,
     TypeOK
<1>4. TurnInv'
  BY <1>1 DEF Proceed, Goes, run, kept, work, turns, asked, TurnInv, PlaceInv, Changing, Making,
     Ending, TypeOK
<1>5. JobInv'
  BY <1>1 DEF Proceed, Goes, run, kept, work, turns, asked, JobInv, LeaseIsJob, Working,
     TurnInv, PlaceInv, Changing, Making, Ending, TypeOK
<1>6. Apart => CloseInv'
  BY <1>1 DEF Proceed, Goes, run, kept, work, turns, asked, CloseInv, JobHoldsRun, JobInv,
     LeaseIsJob, TurnInv, PlaceInv, Changing, Making, Ending, TypeOK
<1>7. DriverInv'
  BY <1>1 DEF Proceed, Goes, run, kept, work, turns, asked, DriverInv, OneTimeDriver, Working,
     JobInv, LeaseIsJob, TypeOK
<1> QED
  BY <1>2, <1>3, <1>4, <1>5, <1>6, <1>7 DEF Core

LEMMA AdvanceKeeps ==
  ASSUME Core, NEW c \in Callers, Advance(c)
  PROVE  Core'
<1>1. TypeOK /\ PlaceInv /\ TurnInv /\ JobInv /\ DriverInv /\ (Apart => CloseInv)
  BY DEF Core
<1>2. \/ job = NoJob /\ UNCHANGED job /\ Goes(c, "load")
      \/ /\ job \in Jobs /\ job # NoJob /\ Same(job, job') /\ job'.phase = job.phase
         /\ Goes(c, "waitAdvance")
  <2>1. CASE job = NoJob
    BY <2>1 DEF Advance
  <2>2. CASE job # NoJob
    <3>1. job \in Jobs /\ Goes(c, "waitAdvance")
      BY <1>1, <2>2 DEF Advance, TypeOK
    <3>2. Redirect([playback |-> "paused", pace |-> "maximum"], FALSE)
      BY <2>2 DEF Advance
    <3>3. [playback |-> "paused", pace |-> "maximum"] \in [playback : Playbacks, pace : Paces]
      BY DEF Playbacks, Paces
    <3>4. Same(job, job') /\ job'.phase = job.phase
      BY <3>1, <3>2, <3>3, RedirectEffect
    <3> QED
      BY <2>2, <3>1, <3>4
  <2> QED
    BY <2>1, <2>2
<1>3. /\ pc[c] = "advance"
      /\ UNCHANGED <<runtime, clock, saved, failStopped, deleted, entry, stored, lease, executing,
                     lifecycle, op, want, current, awaiting, crashes>>
  BY DEF Advance, run, kept, turns, asked
<1>4. TypeOK'
  BY <1>1, <1>2 DEF Advance, Goes, run, kept, turns, asked, TypeOK, Places, Same
<1>5. PlaceInv'
  BY <1>1, <1>2 DEF Advance, Goes, run, kept, turns, asked, PlaceInv, Changing, Making, Ending,
     TypeOK, Same
<1>6. TurnInv'
  BY <1>1, <1>2 DEF Advance, Goes, run, kept, turns, asked, TurnInv, PlaceInv, Changing, Making,
     Ending, TypeOK, Same
<1>7. JobInv'
  BY <1>1, <1>2 DEF Advance, Goes, run, kept, turns, asked, JobInv, LeaseIsJob, Working,
     TurnInv, PlaceInv, Changing, Making, Ending, TypeOK, Same
<1>8. Apart => CloseInv'
  BY <1>1, <1>2 DEF Advance, Goes, run, kept, turns, asked, CloseInv, JobHoldsRun, JobInv,
     LeaseIsJob, TurnInv, PlaceInv, Changing, Making, Ending, TypeOK, Same
<1>9. DriverInv'
  BY <1>1, <1>2 DEF Advance, Goes, run, kept, turns, asked, DriverInv, OneTimeDriver, Working,
     JobInv, LeaseIsJob, TypeOK, Same
<1> QED
  BY <1>4, <1>5, <1>6, <1>7, <1>8, <1>9 DEF Core

-----------------------------------------------------------------------------
(* Making the change. *)

LEMMA PausingBeginsKeeps ==
  ASSUME Core, NEW c \in Callers, Operates(c, "pause", "pausing")
  PROVE  Core'
<1>1. TypeOK /\ PlaceInv /\ TurnInv /\ JobInv /\ DriverInv /\ (Apart => CloseInv)
  BY DEF Core
<1>2. TypeOK'
  BY <1>1 DEF Operates, Goes, run, kept, work, turns, asked, Accepting, TypeOK, Places
<1>3. PlaceInv'
  BY <1>1 DEF Operates, Goes, run, kept, work, turns, asked, Accepting, PlaceInv, Changing,
     Making, Ending, TypeOK
<1>4. TurnInv'
  BY <1>1 DEF Operates, Goes, run, kept, work, turns, asked, Accepting, TurnInv, PlaceInv,
     Changing, Making, Ending, TypeOK
<1>5. JobInv'
  BY <1>1 DEF Operates, Goes, run, kept, work, turns, asked, Accepting, JobInv, LeaseIsJob,
     Working, TurnInv, PlaceInv, Changing, Making, Ending, TypeOK
<1>6. Apart => CloseInv'
  BY <1>1 DEF Operates, Goes, run, kept, work, turns, asked, Accepting, CloseInv, JobHoldsRun,
     JobInv, LeaseIsJob, TurnInv, PlaceInv, Changing, Making, Ending, TypeOK
<1>7. DriverInv'
  BY <1>1 DEF Operates, Goes, run, kept, work, turns, asked, Accepting, DriverInv,
     OneTimeDriver, Working, JobInv, LeaseIsJob, TypeOK
<1> QED
  BY <1>2, <1>3, <1>4, <1>5, <1>6, <1>7 DEF Core

LEMMA ClockingBeginsKeeps ==
  ASSUME Core, NEW c \in Callers, Operates(c, "clock", "clocking")
  PROVE  Core'
<1>1. TypeOK /\ PlaceInv /\ TurnInv /\ JobInv /\ DriverInv /\ (Apart => CloseInv)
  BY DEF Core
<1>2. TypeOK'
  BY <1>1 DEF Operates, Goes, run, kept, work, turns, asked, Accepting, TypeOK, Places
<1>3. PlaceInv'
  BY <1>1 DEF Operates, Goes, run, kept, work, turns, asked, Accepting, PlaceInv, Changing,
     Making, Ending, TypeOK
<1>4. TurnInv'
  BY <1>1 DEF Operates, Goes, run, kept, work, turns, asked, Accepting, TurnInv, PlaceInv,
     Changing, Making, Ending, TypeOK
<1>5. JobInv'
  BY <1>1 DEF Operates, Goes, run, kept, work, turns, asked, Accepting, JobInv, LeaseIsJob,
     Working, TurnInv, PlaceInv, Changing, Making, Ending, TypeOK
<1>6. Apart => CloseInv'
  BY <1>1 DEF Operates, Goes, run, kept, work, turns, asked, Accepting, CloseInv, JobHoldsRun,
     JobInv, LeaseIsJob, TurnInv, PlaceInv, Changing, Making, Ending, TypeOK
<1>7. DriverInv'
  BY <1>1 DEF Operates, Goes, run, kept, work, turns, asked, Accepting, DriverInv,
     OneTimeDriver, Working, JobInv, LeaseIsJob, TypeOK
<1> QED
  BY <1>2, <1>3, <1>4, <1>5, <1>6, <1>7 DEF Core

LEMMA SetClockFailsKeeps ==
  ASSUME Core, NEW c \in Callers, SetClockFails(c)
  PROVE  Core'
<1>1. TypeOK /\ PlaceInv /\ TurnInv /\ JobInv /\ DriverInv /\ (Apart => CloseInv)
  BY DEF Core
<1>2. /\ job = NoJob /\ clock' \in [time : Nat, paused : BOOLEAN] /\ clock'.time = clock.time
      /\ saved' \in 0..clock'.time /\ pc[c] \in {"clocking", "pausing"}
  <2>1. pc[c] \in Making \ {"saveStart"}
    BY DEF SetClockFails, Making
  <2>2. job = NoJob
    BY <1>1, <2>1 DEF JobInv
  <2>3. PICK paused \in BOOLEAN : clock' = [clock EXCEPT !.paused = paused]
    BY <1>1, ClockType DEF SetClockFails
  <2>4. saved' \in {saved, clock.time}
    BY DEF SetClockFails
  <2>5. clock' = [time |-> clock.time, paused |-> paused]
    BY <1>1, <2>3, ClockType
  <2>6. pc[c] \in {"clocking", "pausing"}
    BY DEF SetClockFails
  <2> QED
    BY <1>1, <2>2, <2>4, <2>5, <2>6, ClockType
<1>3. TypeOK'
  BY <1>1, <1>2 DEF SetClockFails, Goes, kept, work, turns, asked, TypeOK, Places
<1>4. PlaceInv'
  BY <1>1, <1>2 DEF SetClockFails, Goes, kept, work, turns, asked, PlaceInv, Changing, Making,
     Ending, TypeOK
<1>5. TurnInv'
  BY <1>1, <1>2 DEF SetClockFails, Goes, kept, work, turns, asked, TurnInv, PlaceInv, Changing,
     Making, Ending, TypeOK
<1>6. JobInv'
  BY <1>1, <1>2 DEF SetClockFails, Goes, kept, work, turns, asked, JobInv, LeaseIsJob, Working,
     TurnInv, PlaceInv, Changing, Making, Ending, TypeOK
<1>7. Apart => CloseInv'
  BY <1>1, <1>2 DEF SetClockFails, Goes, kept, work, turns, asked, CloseInv, JobHoldsRun,
     JobInv, LeaseIsJob, TurnInv, PlaceInv, Changing, Making, Ending, TypeOK
<1>8. DriverInv'
  BY <1>1, <1>2 DEF SetClockFails, Goes, kept, work, turns, asked, DriverInv, OneTimeDriver,
     Working, JobInv, LeaseIsJob, TypeOK
<1> QED
  BY <1>3, <1>4, <1>5, <1>6, <1>7, <1>8 DEF Core

LEMMA StartKeeps ==
  ASSUME Core, NEW c \in Callers, Start(c)
  PROVE  Core'
<1>1. TypeOK /\ PlaceInv /\ TurnInv /\ JobInv /\ DriverInv /\ (Apart => CloseInv)
  BY DEF Core
<1>2. /\ runtime' = (IF runtime = "absent" THEN "live" ELSE runtime)
      /\ runtime' \in {"live", "closing", "dead"} /\ failStopped' \in BOOLEAN
      /\ UNCHANGED <<clock, saved, deleted>>
      /\ \A d \in Callers : pc[d] \notin Ending
  BY <1>1, LoadEffect DEF Start
<1>3. pc[c] = "load" /\ UNCHANGED <<stored, turns, asked, awaiting, crashes>>
  BY DEF Start
<1>4. job = NoJob /\ op[c] \in Changing /\ executing = c /\ (Apart => runtime # "closing")
  BY <1>1, <1>2, <1>3 DEF CloseInv, JobInv, PlaceInv, TurnInv, Ending, Changing
<1>5. PICK plan \in Plans(c) :
         IF clock.paused
         THEN Begins(c, plan)
         ELSE /\ current' = [current EXCEPT ![c].acc = plan]
              /\ Goes(c, "pause")
              /\ entry' = Remembered
              /\ UNCHANGED work
  BY DEF Start
<1>6. plan \in Accelerations
  BY <1>1, PlansType DEF PlaceInv
<1>7. CASE clock.paused
  <2>1. Begins(c, plan)
    BY <1>5, <1>7
  <2>2. /\ clock' \in [time : Nat, paused : BOOLEAN] /\ clock'.paused /\ saved' \in 0..clock'.time
        /\ UNCHANGED deleted
    BY <1>1, <1>2, <1>7 DEF TypeOK
  <2>3. \A d \in Callers : /\ ~(pc[d] \in Ending /\ op[d] = "close")
                           /\ pc[d] \notin {"closing", "remove", "create"}
    BY <1>2 DEF Ending
  <2> QED
    BY <1>2, <1>3, <1>4, <1>6, <2>1, <2>2, <2>3, BeginsStep
<1>8. CASE ~clock.paused
  <2>1. /\ current' = [current EXCEPT ![c].acc = plan] /\ pc' = [pc EXCEPT ![c] = "pause"]
        /\ entry' = Remembered
        /\ UNCHANGED <<job, lease, stored, executing, lifecycle, op, want, awaiting, crashes>>
    BY <1>3, <1>5, <1>8 DEF Goes, work, turns, asked
  <2>2. entry' \in States \union {NoState} /\ current' \in [Callers -> Reports]
    <3>1. current[c] \in Reports
      BY <1>1 DEF TypeOK
    <3>2. [current[c] EXCEPT !.acc = plan] \in Reports
      BY <1>6, <3>1 DEF Reports
    <3> QED
      BY <1>1, <2>1, <3>2, RememberedType DEF TypeOK
  <2>3. TypeOK'
    BY <1>1, <1>2, <2>1, <2>2 DEF TypeOK, Places
  <2>4. PlaceInv'
    BY <1>1, <1>3, <1>4, <2>1 DEF PlaceInv, Changing, Making, Ending, TypeOK
  <2>5. TurnInv'
    BY <1>1, <1>4, <2>1 DEF TurnInv, Ending, TypeOK
  <2>6. JobInv'
    BY <1>1, <1>4, <2>1 DEF JobInv, LeaseIsJob, Working, Making, TypeOK
  <2>7. Apart => CloseInv'
    BY <1>1, <1>2, <1>4, <2>1 DEF CloseInv, JobHoldsRun, Making, Ending, TypeOK
  <2>8. DriverInv'
    BY <1>4, <2>1 DEF DriverInv, OneTimeDriver, Working
  <2> QED
    BY <2>3, <2>4, <2>5, <2>6, <2>7, <2>8 DEF Core
<1> QED
  BY <1>7, <1>8

LEMMA PausedKeeps ==
  ASSUME Core, NEW c \in Callers, Paused(c)
  PROVE  Core'
<1>1. TypeOK /\ PlaceInv /\ TurnInv /\ JobInv /\ DriverInv /\ (Apart => CloseInv)
  BY DEF Core
<1>2. /\ pc[c] = "pausing" /\ saved' = clock.time /\ Begins(c, current[c].acc)
      /\ UNCHANGED <<runtime, failStopped, deleted, stored, turns, asked, awaiting, crashes>>
  BY DEF Paused
<1>3. current[c].acc \in Accelerations
  BY <1>1 DEF TypeOK, Reports
<1>4. clock' = [time |-> clock.time, paused |-> TRUE]
  BY <1>1, ClockType DEF Paused
<1>5. /\ runtime' = runtime /\ runtime \in {"absent", "live", "closing", "dead"}
      /\ Apart => /\ runtime = "live"
                  /\ \A d \in Callers : /\ ~(pc[d] \in Ending /\ op[d] = "close")
                                        /\ pc[d] \notin {"closing", "remove", "create"}
  BY <1>1, <1>2 DEF CloseInv, Making, TypeOK
<1>6. /\ clock' \in [time : Nat, paused : BOOLEAN] /\ clock'.paused /\ saved' \in 0..clock'.time
      /\ failStopped' \in BOOLEAN
  BY <1>1, <1>2, <1>4, ClockType DEF TypeOK
<1> QED
  BY <1>2, <1>3, <1>5, <1>6, BeginsStep

LEMMA StartSavedKeeps ==
  ASSUME Core, NEW c \in Callers, StartSaved(c)
  PROVE  Core'
<1>1. TypeOK /\ PlaceInv /\ TurnInv /\ JobInv /\ DriverInv /\ (Apart => CloseInv)
  BY DEF Core
<1>2. /\ pc[c] = "saveStart" /\ job \in Jobs /\ job # NoJob /\ job.phase = "starting"
      /\ job' = [job EXCEPT !.phase = "entering"] /\ pc' = [pc EXCEPT ![c] = "answer"]
      /\ stored' \in States
  BY <1>1, KeptType DEF StartSaved, JobInv, Working, TypeOK, Goes
<1>3. Same(job, job') /\ job'.phase = "entering"
  BY <1>2, PhaseEffect DEF Phases
<1>4. \A d \in Callers \ {c} : pc[d] # "saveStart"
  BY <1>1, <1>2 DEF TurnInv, PlaceInv, Making
<1>5. TypeOK'
  BY <1>1, <1>2, <1>3, <1>4 DEF StartSaved, Goes, run, turns, asked, TypeOK, Places, Same
<1>6. PlaceInv'
  BY <1>1, <1>2, <1>3, <1>4 DEF StartSaved, Goes, run, turns, asked, PlaceInv, Changing,
     Making, Ending, TypeOK, Same
<1>7. TurnInv'
  BY <1>1, <1>2, <1>3, <1>4 DEF StartSaved, Goes, run, turns, asked, TurnInv, PlaceInv,
     Changing, Making, Ending, TypeOK, Same
<1>8. JobInv'
  BY <1>1, <1>2, <1>3, <1>4 DEF StartSaved, Goes, run, turns, asked, JobInv, LeaseIsJob,
     Working, TurnInv, PlaceInv, Changing, Making, Ending, TypeOK, Same
<1>9. Apart => CloseInv'
  BY <1>1, <1>2, <1>3, <1>4 DEF StartSaved, Goes, run, turns, asked, CloseInv, JobHoldsRun,
     JobInv, LeaseIsJob, TurnInv, PlaceInv, Changing, Making, Ending, TypeOK, Same
<1>10. DriverInv'
  BY <1>1, <1>2, <1>3 DEF StartSaved, run, DriverInv, OneTimeDriver, Working
<1> QED
  BY <1>5, <1>6, <1>7, <1>8, <1>9, <1>10 DEF Core

LEMMA StartFailsKeeps ==
  ASSUME Core, NEW c \in Callers, StartFails(c)
  PROVE  Core'
<1>1. TypeOK /\ PlaceInv /\ TurnInv /\ JobInv /\ DriverInv /\ (Apart => CloseInv)
  BY DEF Core
<1>2. /\ pc[c] = "saveStart" /\ entry' = NoState /\ job' = NoJob /\ lease' = FALSE
      /\ pc' = [Released EXCEPT ![c] = "thrown"]
      /\ UNCHANGED <<runtime, clock, saved, failStopped, deleted, stored, executing, lifecycle,
                     op, want, current, awaiting, crashes>>
  BY DEF StartFails, run, turns, asked
<1>3. \A d \in Callers \ {c} : pc[d] # "saveStart" /\ pc[d] # "load" /\ pc[d] \notin Making
  BY <1>1, <1>2 DEF TurnInv, PlaceInv, JobInv, Working, Making
<1>4. /\ pc' \in [Callers -> Places] /\ pc'[c] = "thrown"
       /\ \A d \in Callers \ {c} : pc'[d] = Released[d]
  BY <1>1, <1>2, ReleasedEffect DEF Places
<1>5. TypeOK'
  BY <1>1, <1>2, <1>4 DEF TypeOK
<1>6. PlaceInv'
  BY <1>1, <1>2, <1>4, ReleasedEffect DEF PlaceInv, Changing, Making, Ending
<1>7. TurnInv'
  BY <1>1, <1>2, <1>4, ReleasedEffect DEF TurnInv, PlaceInv, Changing, Making, Ending
<1>8. JobInv'
  BY <1>1, <1>2, <1>3, <1>4, ReleasedEffect DEF JobInv, LeaseIsJob, Making
<1>9. Apart => CloseInv'
  BY <1>1, <1>2, <1>3, <1>4, ReleasedEffect DEF CloseInv, JobHoldsRun, Making, Ending
<1>10. DriverInv'
  BY <1>2 DEF DriverInv, OneTimeDriver, Working
<1> QED
  BY <1>5, <1>6, <1>7, <1>8, <1>9, <1>10 DEF Core

LEMMA LoadForClockKeeps ==
  ASSUME Core, NEW c \in Callers, LoadForClock(c)
  PROVE  Core'
<1>1. TypeOK /\ PlaceInv /\ TurnInv /\ JobInv /\ DriverInv /\ (Apart => CloseInv)
  BY DEF Core
<1>2. /\ runtime' = (IF runtime = "absent" THEN "live" ELSE runtime)
      /\ runtime' \in {"live", "closing", "dead"} /\ failStopped' \in BOOLEAN
      /\ UNCHANGED <<clock, saved, deleted>>
      /\ \A d \in Callers : pc[d] \notin Ending
  BY <1>1, LoadEffect DEF LoadForClock
<1>3. /\ entry' \in States \union {NoState} /\ op[c] \in {"set", "screen"} /\ pc[c] = "load"
      /\ Apart => runtime # "closing"
  BY <1>1, <1>2, RememberedType
     DEF LoadForClock, PlaceInv, StartsMaximum, Changing, CloseInv, Ending
<1>4. TypeOK'
  BY <1>1, <1>2, <1>3 DEF LoadForClock, Goes, work, turns, asked, TypeOK, Places
<1>5. PlaceInv'
  BY <1>1, <1>2, <1>3 DEF LoadForClock, Goes, work, turns, asked, PlaceInv, Changing, Making,
     Ending, TypeOK
<1>6. TurnInv'
  BY <1>1, <1>2, <1>3 DEF LoadForClock, Goes, work, turns, asked, TurnInv, PlaceInv, Changing,
     Making, Ending, TypeOK
<1>7. JobInv'
  BY <1>1, <1>2, <1>3 DEF LoadForClock, Goes, work, turns, asked, JobInv, LeaseIsJob, Working,
     TurnInv, PlaceInv, Changing, Making, Ending, TypeOK
<1>8. Apart => CloseInv'
  BY <1>1, <1>2, <1>3 DEF LoadForClock, Goes, work, turns, asked, CloseInv, JobHoldsRun, JobInv,
     LeaseIsJob, TurnInv, PlaceInv, Changing, Making, Ending, TypeOK
<1>9. DriverInv'
  BY <1>1, <1>2, <1>3 DEF LoadForClock, Goes, work, turns, asked, DriverInv, OneTimeDriver,
     Working, JobInv, LeaseIsJob, TypeOK
<1> QED
  BY <1>4, <1>5, <1>6, <1>7, <1>8, <1>9 DEF Core

LEMMA ClockSetKeeps ==
  ASSUME Core, NEW c \in Callers, ClockSet(c)
  PROVE  Core'
<1>1. TypeOK /\ PlaceInv /\ TurnInv /\ JobInv /\ DriverInv /\ (Apart => CloseInv)
  BY DEF Core
<1>2. Destination(c) \in [playback : Playbacks, pace : Paces]
  BY <1>1, DestinationType
<1>3. /\ pc[c] = "clocking" /\ job = NoJob
      /\ clock' \in [time : Nat, paused : BOOLEAN] /\ clock'.time = clock.time
      /\ saved' \in 0..clock'.time
      /\ current' \in [Callers -> Reports] /\ entry' \in States
  <2>1. pc[c] = "clocking" /\ job = NoJob
    BY <1>1 DEF ClockSet, JobInv, Making
  <2>2. (Destination(c).playback = "paused") \in BOOLEAN
    OBVIOUS
  <2>3. clock' = [time |-> clock.time, paused |-> Destination(c).playback = "paused"]
    BY <1>1, <2>2, ClockType DEF ClockSet
  <2>4. saved' = clock.time /\ clock.time \in Nat
    BY <1>1, ClockType DEF ClockSet
  <2> DEFINE acc == current[c].acc
             left == acc.status # "none" /\ current[c].pace = "maximum" /\ Destination(c).pace = "realtime"
             reached == IF left THEN [acc EXCEPT !.status = "stopped"] ELSE acc
             report == [playback |-> Destination(c).playback, pace |-> Destination(c).pace, acc |-> reached]
  <2>5. current' = [current EXCEPT ![c] = report] /\ entry' = Kept(current'[c])
    BY DEF ClockSet
  <2>6. acc \in Accelerations
    BY <1>1 DEF TypeOK, Reports
  <2>7. reached \in Accelerations
    BY <2>6 DEF Accelerations, Statuses
  <2> HIDE DEF reached
  <2>8. report \in Reports
    BY <1>2, <2>7 DEF Reports
  <2> HIDE DEF report
  <2>9. current' \in [Callers -> Reports] /\ current'[c] \in Reports
    BY <1>1, <2>5, <2>8 DEF TypeOK
  <2>10. entry' \in States
    BY <2>5, <2>9, KeptType
  <2> QED
    BY <2>1, <2>2, <2>3, <2>4, <2>9, <2>10
<1>4. TypeOK'
  BY <1>1, <1>2, <1>3 DEF ClockSet, Goes, work, turns, asked, TypeOK, Places
<1>5. PlaceInv'
  BY <1>1, <1>2, <1>3 DEF ClockSet, Goes, work, turns, asked, PlaceInv, Changing, Making,
     Ending, TypeOK
<1>6. TurnInv'
  BY <1>1, <1>2, <1>3 DEF ClockSet, Goes, work, turns, asked, TurnInv, PlaceInv, Changing,
     Making, Ending, TypeOK
<1>7. JobInv'
  BY <1>1, <1>2, <1>3 DEF ClockSet, Goes, work, turns, asked, JobInv, LeaseIsJob, Working,
     TurnInv, PlaceInv, Changing, Making, Ending, TypeOK
<1>8. Apart => CloseInv'
  BY <1>1, <1>2, <1>3 DEF ClockSet, Goes, work, turns, asked, CloseInv, JobHoldsRun, JobInv,
     LeaseIsJob, TurnInv, PlaceInv, Changing, Making, Ending, TypeOK
<1>9. DriverInv'
  BY <1>1, <1>2, <1>3 DEF ClockSet, Goes, work, turns, asked, DriverInv, OneTimeDriver, Working,
     JobInv, LeaseIsJob, TypeOK
<1> QED
  BY <1>4, <1>5, <1>6, <1>7, <1>8, <1>9 DEF Core

LEMMA SavedKeeps ==
  ASSUME Core, NEW c \in Callers, Saved(c)
  PROVE  Core'
<1>1. TypeOK /\ PlaceInv /\ TurnInv /\ JobInv /\ DriverInv /\ (Apart => CloseInv)
  BY DEF Core
<1>2. stored' \in States \union {NoState}
  BY <1>1, KeptType DEF Saved, TypeOK
<1>3. TypeOK'
  <2>1. pc' \in [Callers -> Places]
    BY <1>1 DEF Saved, Goes, TypeOK, Places
  <2> QED
    BY <1>1, <1>2, <2>1 DEF Saved, run, work, turns, asked, TypeOK
<1>4. PlaceInv'
  BY <1>1, <1>2 DEF Saved, Goes, run, work, turns, asked, PlaceInv, Changing, Making, Ending,
     TypeOK
<1>5. TurnInv'
  BY <1>1, <1>2 DEF Saved, Goes, run, work, turns, asked, TurnInv, PlaceInv, Changing, Making,
     Ending, TypeOK
<1>6. JobInv'
  BY <1>1, <1>2 DEF Saved, Goes, run, work, turns, asked, JobInv, LeaseIsJob, Working, TurnInv,
     PlaceInv, Changing, Making, Ending, TypeOK
<1>7. Apart => CloseInv'
  BY <1>1, <1>2 DEF Saved, Goes, run, work, turns, asked, CloseInv, JobHoldsRun, JobInv,
     LeaseIsJob, TurnInv, PlaceInv, Changing, Making, Ending, TypeOK
<1>8. DriverInv'
  BY <1>1, <1>2 DEF Saved, Goes, run, work, turns, asked, DriverInv, OneTimeDriver, Working,
     JobInv, LeaseIsJob, TypeOK
<1> QED
  BY <1>3, <1>4, <1>5, <1>6, <1>7, <1>8 DEF Core

-----------------------------------------------------------------------------
(* The job. *)

LEMMA EnterKeeps ==
  ASSUME Core, Enter
  PROVE  Core'
<1>1. TypeOK /\ PlaceInv /\ TurnInv /\ JobInv /\ DriverInv /\ (Apart => CloseInv)
  BY DEF Core
<1>2. /\ job \in Jobs /\ job # NoJob /\ job.phase = "entering"
      /\ UNCHANGED <<runtime, failStopped, deleted, lease, executing, lifecycle, op, pc, want,
                     current, awaiting, crashes, clock, saved, entry, stored>>
  BY <1>1 DEF Enter, Working, TypeOK, run, kept, calls, turns
<1>3. Same(job, job') /\ job'.phase = "running" /\ job' \in Jobs /\ job' # NoJob /\ job'.live = job.live
  <2>1. job' = [job EXCEPT !.phase = "running"] /\ "running" \in Phases
    BY DEF Enter, Phases
  <2> QED
    BY <1>2, <2>1, PhaseEffect DEF Same
<1>4. TypeOK'
  BY <1>1, <1>2, <1>3 DEF TypeOK
<1>5. PlaceInv' /\ TurnInv' /\ JobInv' /\ (Apart => CloseInv')
  BY <1>2, <1>3, JobStep DEF turns, calls
<1>6. DriverInv'
  BY <1>1, <1>2, <1>3 DEF Enter, Enterable, Same, DriverInv, OneTimeDriver, Working
<1> QED
  BY <1>4, <1>5, <1>6 DEF Core

LEMMA SliceKeeps ==
  ASSUME Core, Slice
  PROVE  Core'
<1>1. TypeOK /\ PlaceInv /\ TurnInv /\ JobInv /\ DriverInv /\ (Apart => CloseInv)
  BY DEF Core
<1>2. /\ job \in Jobs /\ job # NoJob /\ job.phase = "running"
      /\ UNCHANGED <<runtime, saved, failStopped, deleted, job, lease, executing, lifecycle, op,
                     pc, want, current, awaiting, crashes>>
  BY <1>1 DEF Slice, Working, TypeOK, work, calls, turns
<1>3. PICK t \in Nat : /\ clock' = [time |-> t, paused |-> TRUE] /\ clock.time <= t
                       /\ job.acc.target # NoTarget => t <= job.acc.target
  <2>1. clock.time \in Nat /\ clock.time + Step \in Nat /\ clock.time <= clock.time + Step
    BY <1>1, ClockType, MinutesAssumption
  <2>2. CASE job.acc.target = NoTarget
    <3>1. clock' = [time |-> clock.time + Step, paused |-> TRUE]
      BY <2>2 DEF Slice
    <3> QED
      BY <2>1, <2>2, <3>1
  <2>3. CASE job.acc.target # NoTarget
    <3>1. job.acc.target \in Nat
      BY <1>2, <2>3 DEF Jobs, Accelerations
    <3>2. clock' = [time |-> Least(clock.time + Step, job.acc.target), paused |-> TRUE]
      BY <2>3 DEF Slice
    <3>3. clock.time <= job.acc.target
      BY <1>1, <1>2, <2>3 DEF DriverInv, Working
    <3>4. Least(clock.time + Step, job.acc.target) \in Nat
          /\ clock.time <= Least(clock.time + Step, job.acc.target)
          /\ Least(clock.time + Step, job.acc.target) <= job.acc.target
      BY <2>1, <3>1, <3>3 DEF Least
    <3> QED
      BY <3>2, <3>4
  <2> QED
    BY <2>2, <2>3
<1>4. entry' \in States /\ stored' \in States \union {NoState}
  <2>1. [pace |-> "maximum", acc |-> job.acc] \in States
    BY <1>2 DEF Jobs, States, Paces
  <2> QED
    BY <1>1, <2>1 DEF Slice, TypeOK
<1>5. TypeOK'
  BY <1>1, <1>2, <1>3, <1>4, ClockType DEF TypeOK
<1>6. PlaceInv'
  BY <1>1, <1>2, <1>3 DEF Slice, work, turns, calls, PlaceInv, Changing, Making, Ending, TypeOK
<1>7. TurnInv'
  BY <1>1, <1>2, <1>3 DEF Slice, work, turns, calls, TurnInv, PlaceInv, Changing, Making,
     Ending, TypeOK
<1>8. JobInv'
  BY <1>1, <1>2, <1>3 DEF Slice, work, turns, calls, JobInv, LeaseIsJob, Working, TurnInv,
     PlaceInv, Changing, Making, Ending, TypeOK
<1>9. Apart => CloseInv'
  BY <1>1, <1>2, <1>3 DEF Slice, work, turns, calls, CloseInv, JobHoldsRun, JobInv, LeaseIsJob,
     TurnInv, PlaceInv, Changing, Making, Ending, TypeOK
<1>10. DriverInv'
  BY <1>1, <1>2, <1>3 DEF DriverInv, OneTimeDriver, Working
<1> QED
  BY <1>5, <1>6, <1>7, <1>8, <1>9, <1>10 DEF Core

LEMMA LeaveKeeps ==
  ASSUME Core, Leave
  PROVE  Core'
<1>1. TypeOK /\ PlaceInv /\ TurnInv /\ JobInv /\ DriverInv /\ (Apart => CloseInv)
  BY DEF Core
<1>2. /\ job \in Jobs /\ job # NoJob /\ job.phase = "running"
      /\ UNCHANGED <<runtime, failStopped, deleted, lease, executing, lifecycle, op, pc, want,
                     current, awaiting, crashes, clock, saved, entry, stored>>
  BY <1>1 DEF Leave, Working, TypeOK, run, kept, calls, turns
<1>3. Same(job, job') /\ job'.phase = "final" /\ job' \in Jobs /\ job' # NoJob /\ job'.live = job.live
  <2>1. job' = [job EXCEPT !.phase = "final"] /\ "final" \in Phases
    BY DEF Leave, Phases
  <2> QED
    BY <1>2, <2>1, PhaseEffect DEF Same
<1>4. TypeOK'
  BY <1>1, <1>2, <1>3 DEF TypeOK
<1>5. PlaceInv' /\ TurnInv' /\ JobInv' /\ (Apart => CloseInv')
  BY <1>2, <1>3, JobStep DEF turns, calls
<1>6. DriverInv'
  BY <1>1, <1>2, <1>3 DEF Same, DriverInv, OneTimeDriver, Working
<1> QED
  BY <1>4, <1>5, <1>6 DEF Core

LEMMA FinishKeeps ==
  ASSUME Core, Finish
  PROVE  Core'
<1>1. TypeOK /\ PlaceInv /\ TurnInv /\ JobInv /\ DriverInv /\ (Apart => CloseInv)
  BY DEF Core
<1>2. /\ job \in Jobs /\ job # NoJob /\ job.phase = "final"
      /\ UNCHANGED <<runtime, clock, failStopped, deleted, stored, lease, executing, lifecycle,
                     op, pc, want, current, awaiting, crashes>>
  BY <1>1 DEF Finish, Working, TypeOK, run, kept, calls, turns
<1>3. /\ job' \in Jobs /\ job' # NoJob /\ job'.live = job.live /\ job'.acc = job.acc
      /\ job'.phase \in {"clock", "terminal"}
      /\ entry' \in States \union {NoState}
  <2>1. CASE Ended = [playback |-> "playing", pace |-> "realtime"]
    <3>1. job' = [job EXCEPT !.phase = "clock"] /\ entry' = entry
      BY <2>1 DEF Finish
    <3> QED
      BY <1>1, <1>2, <3>1, PhaseEffect DEF Phases, Same, TypeOK
  <2>2. CASE Ended # [playback |-> "playing", pace |-> "realtime"]
    <3>1. Terminates(Ended)
      BY <2>2 DEF Finish
    <3> QED
      BY <1>2, <3>1, EndedType, TerminatesEffect
  <2> QED
    BY <2>1, <2>2
<1>4. saved' = clock.time
  BY DEF Finish
<1>5. TypeOK'
  BY <1>1, <1>2, <1>3, <1>4, ClockType DEF TypeOK
<1>6. PlaceInv' /\ TurnInv' /\ JobInv' /\ (Apart => CloseInv')
  BY <1>2, <1>3, JobStep DEF turns, calls
<1>7. DriverInv'
  BY <1>1, <1>2, <1>3 DEF DriverInv, OneTimeDriver, Working
<1> QED
  BY <1>5, <1>6, <1>7 DEF Core

LEMMA PlayKeeps ==
  ASSUME Core, Play
  PROVE  Core'
<1>1. TypeOK /\ PlaceInv /\ TurnInv /\ JobInv /\ DriverInv /\ (Apart => CloseInv)
  BY DEF Core
<1>2. /\ job \in Jobs /\ job # NoJob /\ job.phase = "clock"
      /\ UNCHANGED <<runtime, failStopped, deleted, stored, lease, executing, lifecycle, op, pc,
                     want, current, awaiting, crashes>>
  BY <1>1 DEF Play, Working, TypeOK, run, kept, calls, turns
<1>3. /\ job' \in Jobs /\ job' # NoJob /\ job'.live = job.live
      /\ job'.phase = "terminal" /\ entry' \in States
  <2>1. [playback |-> "playing", pace |-> "realtime"] \in [playback : Playbacks, pace : Paces]
    BY DEF Playbacks, Paces
  <2>2. Terminates([playback |-> "playing", pace |-> "realtime"])
    BY DEF Play
  <2> QED
    BY <1>2, <2>1, <2>2, TerminatesEffect
<1>4. clock' = [time |-> clock.time, paused |-> FALSE] /\ saved' = clock.time
  BY <1>1, ClockType DEF Play
<1>5. TypeOK'
  BY <1>1, <1>2, <1>3, <1>4, ClockType DEF TypeOK
<1>6. PlaceInv' /\ TurnInv' /\ JobInv' /\ (Apart => CloseInv')
  BY <1>2, <1>3, JobStep DEF turns, calls
<1>7. DriverInv'
  BY <1>3 DEF DriverInv, OneTimeDriver, Working
<1> QED
  BY <1>5, <1>6, <1>7 DEF Core

LEMMA FailKeeps ==
  ASSUME Core, Fail
  PROVE  Core'
<1>1. TypeOK /\ PlaceInv /\ TurnInv /\ JobInv /\ DriverInv /\ (Apart => CloseInv)
  BY DEF Core
<1>2. /\ job \in Jobs /\ job # NoJob /\ job.phase # "starting"
      /\ UNCHANGED <<runtime, saved, deleted, stored, lease, executing, lifecycle, op, pc, want,
                     current, awaiting, crashes>>
  BY <1>1 DEF Fail, Working, TypeOK, calls, turns
<1>3. /\ job' \in Jobs /\ job' # NoJob /\ job'.live = job.live
      /\ job'.phase = "failing" /\ entry' \in States
  <2>1. PICK end : /\ end = [job.result EXCEPT !.acc.status = "failed"]
                   /\ entry' = end /\ job' = [job EXCEPT !.phase = "failing", !.result = end]
    BY DEF Fail
  <2> QED
    BY <1>2, <2>1, FailsEffect
<1>4. /\ clock' \in [time : Nat, paused : BOOLEAN] /\ clock'.time = clock.time
       /\ failStopped' \in BOOLEAN
  <2>1. clock' = clock \/ clock' = [clock EXCEPT !.paused = FALSE]
    BY DEF Fail
  <2>2. failStopped' = (failStopped \/ (job.live /\ runtime # "absent"))
    BY DEF Fail
  <2> QED
    BY <1>1, <2>1, <2>2, ClockType DEF TypeOK
<1>5. TypeOK'
  BY <1>1, <1>2, <1>3, <1>4, ClockType DEF TypeOK
<1>6. PlaceInv' /\ TurnInv' /\ JobInv' /\ (Apart => CloseInv')
  BY <1>2, <1>3, JobStep DEF turns, calls
<1>7. DriverInv'
  BY <1>3 DEF DriverInv, OneTimeDriver, Working
<1> QED
  BY <1>5, <1>6, <1>7 DEF Core

LEMMA GoneKeeps ==
  ASSUME Core, Gone
  PROVE  Core'
<1>1. TypeOK /\ PlaceInv /\ TurnInv /\ JobInv /\ DriverInv /\ (Apart => CloseInv)
  BY DEF Core
<1>2. /\ pc' = Released /\ job' = NoJob /\ lease' = FALSE /\ stored' \in States \union {NoState}
      /\ UNCHANGED <<runtime, clock, saved, failStopped, deleted, entry, executing, lifecycle, op,
                     want, current, awaiting, crashes>>
  BY <1>1 DEF Gone, Working, TypeOK, Jobs, run, turns, asked
<1>3. \A c \in Callers : pc[c] # "saveStart" /\ pc[c] # "load" /\ pc[c] \notin Making
  BY <1>1 DEF Gone, JobInv, Working, Making
<1>4. TypeOK'
  BY <1>1, <1>2, ReleasedEffect DEF TypeOK
<1>5. PlaceInv'
  BY <1>1, <1>2, ReleasedEffect DEF PlaceInv, Changing, Making, Ending
<1>6. TurnInv'
  BY <1>1, <1>2, ReleasedEffect DEF TurnInv, Changing, Ending
<1>7. JobInv'
  BY <1>1, <1>2, <1>3, ReleasedEffect DEF JobInv, LeaseIsJob, Making
<1>8. Apart => CloseInv'
  BY <1>1, <1>2, <1>3, ReleasedEffect DEF CloseInv, JobHoldsRun, Making, Ending
<1>9. DriverInv'
  BY <1>2 DEF DriverInv, OneTimeDriver, Working
<1> QED
  BY <1>4, <1>5, <1>6, <1>7, <1>8, <1>9 DEF Core

LEMMA TickKeeps ==
  ASSUME Core, Tick
  PROVE  Core'
<1>1. TypeOK /\ PlaceInv /\ TurnInv /\ JobInv /\ DriverInv /\ (Apart => CloseInv)
  BY DEF Core
<1>2. TypeOK'
  BY <1>1 DEF Tick, kept, work, turns, calls, TypeOK, Places
<1>3. PlaceInv'
  BY <1>1 DEF Tick, kept, work, turns, calls, PlaceInv, Changing, Making, Ending, TypeOK
<1>4. TurnInv'
  BY <1>1 DEF Tick, kept, work, turns, calls, TurnInv, PlaceInv, Changing, Making, Ending,
     TypeOK
<1>5. JobInv'
  BY <1>1 DEF Tick, kept, work, turns, calls, JobInv, LeaseIsJob, Working, TurnInv, PlaceInv,
     Changing, Making, Ending, TypeOK
<1>6. Apart => CloseInv'
  BY <1>1 DEF Tick, kept, work, turns, calls, CloseInv, JobHoldsRun, JobInv, LeaseIsJob,
     TurnInv, PlaceInv, Changing, Making, Ending, TypeOK
<1>7. DriverInv'
  BY <1>1 DEF Tick, kept, work, turns, calls, DriverInv, OneTimeDriver, Working, JobInv,
     LeaseIsJob, TypeOK
<1> QED
  BY <1>2, <1>3, <1>4, <1>5, <1>6, <1>7 DEF Core

-----------------------------------------------------------------------------
(* Closing, resetting and deleting the Run; the crash. *)

LEMMA ClaimCloseKeeps ==
  ASSUME Core, NEW c \in Callers, ClaimClose(c)
  PROVE  Core'
<1>1. TypeOK /\ PlaceInv /\ TurnInv /\ JobInv /\ DriverInv /\ (Apart => CloseInv)
  BY DEF Core
<1>2. lifecycle \notin Callers
  BY <1>1, CallerAssumption DEF ClaimClose
<1>3. pc'[c] = "settle" => \A d \in Callers : pc[d] \notin Making
  <2> SUFFICES ASSUME pc'[c] = "settle", NEW d \in Callers, pc[d] \in Making
               PROVE  FALSE
    OBVIOUS
  <2>1. d \in ApiLeases \/ d \in ScreenLeases
    BY <1>1 DEF PlaceInv, Changing, Making, ApiLeases, ScreenLeases
  <2> QED
    BY <1>1, <2>1 DEF ClaimClose, Goes, TypeOK
<1>4. TypeOK'
  BY <1>1, <1>2, <1>3 DEF ClaimClose, Goes, run, kept, work, asked, TypeOK, Places
<1>5. PlaceInv'
  BY <1>1, <1>2, <1>3 DEF ClaimClose, Goes, run, kept, work, asked, PlaceInv, Changing, Making,
     Ending, TypeOK
<1>6. TurnInv'
  BY <1>1, <1>2, <1>3 DEF ClaimClose, Goes, run, kept, work, asked, TurnInv, PlaceInv, Changing,
     Making, Ending, TypeOK
<1>7. JobInv'
  BY <1>1, <1>2, <1>3 DEF ClaimClose, Goes, run, kept, work, asked, JobInv, LeaseIsJob, Working,
     TurnInv, PlaceInv, Changing, Making, Ending, TypeOK
<1>8. Apart => CloseInv'
  BY <1>1, <1>2, <1>3 DEF ClaimClose, Goes, run, kept, work, asked, CloseInv, JobHoldsRun,
     JobInv, LeaseIsJob, TurnInv, PlaceInv, Changing, Making, Ending, TypeOK
<1>9. DriverInv'
  BY <1>1, <1>2, <1>3 DEF ClaimClose, Goes, run, kept, work, asked, DriverInv, OneTimeDriver,
     Working, JobInv, LeaseIsJob, TypeOK
<1> QED
  BY <1>4, <1>5, <1>6, <1>7, <1>8, <1>9 DEF Core

LEMMA ClaimResetKeeps ==
  ASSUME Core, NEW c \in Callers, ClaimReset(c)
  PROVE  Core'
<1>1. TypeOK /\ PlaceInv /\ TurnInv /\ JobInv /\ DriverInv /\ (Apart => CloseInv)
  BY DEF Core
<1>2. lifecycle \notin Callers
  BY <1>1, CallerAssumption DEF ClaimReset
<1>3. TypeOK'
  BY <1>1, <1>2 DEF ClaimReset, Goes, run, kept, work, asked, TypeOK, Places
<1>4. PlaceInv'
  BY <1>1, <1>2 DEF ClaimReset, Goes, run, kept, work, asked, PlaceInv, Changing, Making,
     Ending, TypeOK
<1>5. TurnInv'
  BY <1>1, <1>2 DEF ClaimReset, Goes, run, kept, work, asked, TurnInv, PlaceInv, Changing,
     Making, Ending, TypeOK
<1>6. JobInv'
  BY <1>1, <1>2 DEF ClaimReset, Goes, run, kept, work, asked, JobInv, LeaseIsJob, Working,
     TurnInv, PlaceInv, Changing, Making, Ending, TypeOK
<1>7. Apart => CloseInv'
  BY <1>1, <1>2 DEF ClaimReset, Goes, run, kept, work, asked, CloseInv, JobHoldsRun, JobInv,
     LeaseIsJob, TurnInv, PlaceInv, Changing, Making, Ending, TypeOK
<1>8. DriverInv'
  BY <1>1, <1>2 DEF ClaimReset, Goes, run, kept, work, asked, DriverInv, OneTimeDriver, Working,
     JobInv, LeaseIsJob, TypeOK
<1> QED
  BY <1>3, <1>4, <1>5, <1>6, <1>7, <1>8 DEF Core

LEMMA ClaimDeleteKeeps ==
  ASSUME Core, NEW c \in Callers, ClaimDelete(c)
  PROVE  Core'
<1>1. TypeOK /\ PlaceInv /\ TurnInv /\ JobInv /\ DriverInv /\ (Apart => CloseInv)
  BY DEF Core
<1>2. lifecycle \notin Callers
  BY <1>1, CallerAssumption DEF ClaimDelete
<1>3. \/ job = NoJob /\ UNCHANGED job /\ pc' = [pc EXCEPT ![c] = "settle"]
      \/ /\ job \in Jobs /\ job # NoJob /\ Same(job, job') /\ job'.phase = job.phase
         /\ pc' = [pc EXCEPT ![c] = "waitDelete"]
  <2>1. CASE job = NoJob
    BY <2>1 DEF ClaimDelete, Goes
  <2>2. CASE job # NoJob
    <3>1. job \in Jobs /\ Goes(c, "waitDelete")
      BY <1>1, <2>2 DEF ClaimDelete, TypeOK
    <3>2. Redirect([playback |-> "paused", pace |-> "realtime"], FALSE)
      BY <2>2 DEF ClaimDelete
    <3>3. [playback |-> "paused", pace |-> "realtime"] \in [playback : Playbacks, pace : Paces]
      BY DEF Playbacks, Paces
    <3>4. Same(job, job') /\ job'.phase = job.phase
      BY <3>1, <3>2, <3>3, RedirectEffect
    <3> QED
      BY <2>2, <3>1, <3>4 DEF Goes
  <2> QED
    BY <2>1, <2>2
<1>4. /\ pc[c] = "claim" /\ op[c] = "delete" /\ lifecycle' = c /\ awaiting' = FALSE
       /\ UNCHANGED <<runtime, clock, saved, failStopped, deleted, entry, stored, lease,
                      executing, op, want, current, crashes>>
  BY DEF ClaimDelete, run, kept, asked
<1>5. /\ job' \in Jobs \union {NoJob} /\ (job' = NoJob <=> job = NoJob)
       /\ pc' \in [Callers -> Places] /\ pc'[c] \in {"settle", "waitDelete"}
       /\ \A d \in Callers \ {c} : pc'[d] = pc[d]
       /\ Working("starting")' = Working("starting")
  BY <1>1, <1>3 DEF TypeOK, Places, Same, Working
<1>6. TypeOK'
  BY <1>1, <1>4, <1>5 DEF TypeOK
<1>7. PlaceInv'
  BY <1>1, <1>3, <1>4 DEF PlaceInv, Making, Ending, TypeOK
<1>8. TurnInv'
  BY <1>1, <1>2, <1>3, <1>4 DEF TurnInv, Changing, Ending, TypeOK
<1>9. JobInv'
  BY <1>1, <1>4, <1>5 DEF JobInv, LeaseIsJob, Making
<1>10. Apart => CloseInv'
  BY <1>1, <1>3, <1>4 DEF CloseInv, JobHoldsRun, Making, Ending, Same, TypeOK
<1>11. DriverInv'
  BY <1>1, <1>3, <1>4 DEF DriverInv, OneTimeDriver, Working, Same
<1> QED
  BY <1>6, <1>7, <1>8, <1>9, <1>10, <1>11 DEF Core

LEMMA CheckResetKeeps ==
  ASSUME Core, NEW c \in Callers, CheckReset(c)
  PROVE  Core'
<1>1. TypeOK /\ PlaceInv /\ TurnInv /\ JobInv /\ DriverInv /\ (Apart => CloseInv)
  BY DEF Core
<1>2. TypeOK'
  BY <1>1 DEF CheckReset, Goes, run, kept, work, turns, asked, TypeOK, Places
<1>3. PlaceInv'
  BY <1>1 DEF CheckReset, Goes, run, kept, work, turns, asked, PlaceInv, Changing, Making,
     Ending, TypeOK
<1>4. TurnInv'
  BY <1>1 DEF CheckReset, Goes, run, kept, work, turns, asked, TurnInv, PlaceInv, Changing,
     Making, Ending, TypeOK
<1>5. JobInv'
  BY <1>1 DEF CheckReset, Goes, run, kept, work, turns, asked, JobInv, LeaseIsJob, Working,
     TurnInv, PlaceInv, Changing, Making, Ending, TypeOK
<1>6. Apart => CloseInv'
  BY <1>1 DEF CheckReset, Goes, run, kept, work, turns, asked, CloseInv, JobHoldsRun, JobInv,
     LeaseIsJob, TurnInv, PlaceInv, Changing, Making, Ending, TypeOK
<1>7. DriverInv'
  BY <1>1 DEF CheckReset, Goes, run, kept, work, turns, asked, DriverInv, OneTimeDriver,
     Working, JobInv, LeaseIsJob, TypeOK
<1> QED
  BY <1>2, <1>3, <1>4, <1>5, <1>6, <1>7 DEF Core

LEMMA PublishKeeps ==
  ASSUME Core, NEW c \in Callers, Publish(c)
  PROVE  Core'
<1>1. TypeOK /\ PlaceInv /\ TurnInv /\ JobInv /\ DriverInv /\ (Apart => CloseInv)
  BY DEF Core
<1>2. TypeOK'
  BY <1>1 DEF Publish, Goes, run, kept, work, turns, asked, TypeOK, Places
<1>3. PlaceInv'
  BY <1>1 DEF Publish, Goes, run, kept, work, turns, asked, PlaceInv, Changing, Making, Ending,
     TypeOK
<1>4. TurnInv'
  BY <1>1 DEF Publish, Goes, run, kept, work, turns, asked, TurnInv, PlaceInv, Changing, Making,
     Ending, TypeOK
<1>5. JobInv'
  BY <1>1 DEF Publish, Goes, run, kept, work, turns, asked, JobInv, LeaseIsJob, Working,
     TurnInv, PlaceInv, Changing, Making, Ending, TypeOK
<1>6. Apart => CloseInv'
  BY <1>1 DEF Publish, Goes, run, kept, work, turns, asked, CloseInv, JobHoldsRun, JobInv,
     LeaseIsJob, TurnInv, PlaceInv, Changing, Making, Ending, TypeOK
<1>7. DriverInv'
  BY <1>1 DEF Publish, Goes, run, kept, work, turns, asked, DriverInv, OneTimeDriver, Working,
     JobInv, LeaseIsJob, TypeOK
<1> QED
  BY <1>2, <1>3, <1>4, <1>5, <1>6, <1>7 DEF Core

LEMMA SettleKeeps ==
  ASSUME Core, NEW c \in Callers, Settle(c)
  PROVE  Core'
<1>1. TypeOK /\ PlaceInv /\ TurnInv /\ JobInv /\ DriverInv /\ (Apart => CloseInv)
  BY DEF Core
<1>2. TypeOK'
  BY <1>1 DEF Settle, Goes, run, kept, work, turns, asked, TypeOK, Places
<1>3. PlaceInv'
  BY <1>1 DEF Settle, Goes, run, kept, work, turns, asked, PlaceInv, Changing, Making, Ending,
     TypeOK
<1>4. TurnInv'
  BY <1>1 DEF Settle, Goes, run, kept, work, turns, asked, TurnInv, PlaceInv, Changing, Making,
     Ending, TypeOK
<1>5. JobInv'
  BY <1>1 DEF Settle, Goes, run, kept, work, turns, asked, JobInv, LeaseIsJob, Working, TurnInv,
     PlaceInv, Changing, Making, Ending, TypeOK
<1>6. Apart => CloseInv'
  BY <1>1 DEF Settle, Goes, run, kept, work, turns, asked, CloseInv, JobHoldsRun, JobInv,
     LeaseIsJob, TurnInv, PlaceInv, Changing, Making, Ending, TypeOK
<1>7. DriverInv'
  BY <1>1 DEF Settle, Goes, run, kept, work, turns, asked, DriverInv, OneTimeDriver, Working,
     JobInv, LeaseIsJob, TypeOK
<1> QED
  BY <1>2, <1>3, <1>4, <1>5, <1>6, <1>7 DEF Core

LEMMA RecheckKeeps ==
  ASSUME Core, NEW c \in Callers, Recheck(c)
  PROVE  Core'
<1>1. TypeOK /\ PlaceInv /\ TurnInv /\ JobInv /\ DriverInv /\ (Apart => CloseInv)
  BY DEF Core
<1>2. Apart /\ ~InUse(c) => job = NoJob /\ \A d \in Callers : pc[d] \notin Making
  <2> SUFFICES ASSUME Apart, ~InUse(c)
               PROVE  job = NoJob /\ \A d \in Callers : pc[d] \notin Making
    OBVIOUS
  <2>1. job = NoJob
    BY <1>1 DEF InUse, JobInv, LeaseIsJob
  <2>2. pc[c] = "recheck" /\ op[c] \in {"close", "reset", "delete"}
    BY <1>1 DEF Recheck, PlaceInv, Ending
  <2>3. ASSUME NEW d \in Callers, pc[d] \in Making
        PROVE  FALSE
    <3>1. op[d] \in Changing /\ pc[d] # "idle" /\ pc[d] # "turn" /\ executing = d
      BY <1>1, <2>3 DEF PlaceInv, TurnInv, Making
    <3>2. CASE op[c] = "close"
      BY <1>1, <2>2, <2>3, <3>2 DEF CloseInv, Ending
    <3>3. CASE op[c] = "reset"
      <4>1. /\ "reset" \in Operations[c] /\ op[d] \in Operations[d]
            /\ op[d] = "screen" => Roles
        BY <1>1, <2>2, <3>1, <3>3 DEF PlaceInv
      <4>2. op[d] \in {"set", "advance"}
        BY <3>1, <4>1 DEF Apart, Changing
      <4> QED
        BY <3>1, <3>3, <4>2 DEF InUse, ApiLeases
    <3>4. CASE op[c] = "delete"
      BY <1>1, <2>2, <3>1, <3>4 DEF TurnInv, Changing
    <3> QED
      BY <2>2, <3>2, <3>3, <3>4
  <2> QED
    BY <2>1, <2>3
<1>3. TypeOK'
  BY <1>1, <1>2 DEF Recheck, Goes, kept, work, turns, asked, TypeOK, Places
<1>4. PlaceInv'
  BY <1>1, <1>2 DEF Recheck, Goes, kept, work, turns, asked, PlaceInv, Changing, Making, Ending,
     TypeOK
<1>5. TurnInv'
  BY <1>1, <1>2 DEF Recheck, Goes, kept, work, turns, asked, TurnInv, PlaceInv, Changing,
     Making, Ending, TypeOK
<1>6. JobInv'
  BY <1>1, <1>2 DEF Recheck, Goes, kept, work, turns, asked, JobInv, LeaseIsJob, Working,
     TurnInv, PlaceInv, Changing, Making, Ending, TypeOK
<1>7. Apart => CloseInv'
  BY <1>1, <1>2 DEF Recheck, Goes, kept, work, turns, asked, CloseInv, JobHoldsRun, JobInv,
     LeaseIsJob, TurnInv, PlaceInv, Changing, Making, Ending, TypeOK
<1>8. DriverInv'
  BY <1>1, <1>2 DEF Recheck, Goes, kept, work, turns, asked, DriverInv, OneTimeDriver, Working,
     JobInv, LeaseIsJob, TypeOK
<1> QED
  BY <1>3, <1>4, <1>5, <1>6, <1>7, <1>8 DEF Core

LEMMA ClosesKeeps ==
  ASSUME Core, NEW c \in Callers, Closes(c)
  PROVE  Core'
<1>1. TypeOK /\ PlaceInv /\ TurnInv /\ JobInv /\ DriverInv /\ (Apart => CloseInv)
  BY DEF Core
<1>2. /\ pc[c] = "closing" /\ (Apart => job = NoJob) /\ runtime' = "absent" /\ failStopped' = FALSE
      /\ UNCHANGED <<deleted, kept, work, turns, asked, current, awaiting, crashes>>
  BY <1>1 DEF Closes, CloseInv
<1>3. PICK t \in 0..clock.time : clock' = [time |-> t, paused |-> clock.paused] /\ saved' = t
  <2>1. saved' \in 0..clock.time
    BY <1>1, ClockType DEF Closes
  <2>2. clock' = [clock EXCEPT !.time = saved']
    BY DEF Closes
  <2> QED
    BY <1>1, <2>1, <2>2, ClockType
<1>4. TypeOK'
  <2>1. clock' \in [time : Nat, paused : BOOLEAN] /\ saved' \in 0..clock'.time
    BY <1>1, <1>3, ClockType
  <2>2. pc' \in [Callers -> Places]
    BY <1>1 DEF Closes, Goes, TypeOK, Places
  <2> QED
    BY <1>1, <1>2, <2>1, <2>2 DEF TypeOK, kept, work, turns, asked
<1>5. PlaceInv'
  BY <1>1, <1>2, <1>3 DEF Closes, Goes, kept, work, turns, asked, PlaceInv, Changing, Making,
     Ending, TypeOK
<1>6. TurnInv'
  BY <1>1, <1>2, <1>3 DEF Closes, Goes, kept, work, turns, asked, TurnInv, PlaceInv, Changing,
     Making, Ending, TypeOK
<1>7. JobInv'
  BY <1>1, <1>2, <1>3 DEF Closes, Goes, kept, work, turns, asked, JobInv, LeaseIsJob, Working,
     TurnInv, PlaceInv, Changing, Making, Ending, TypeOK
<1>8. Apart => CloseInv'
  BY <1>1, <1>2, <1>3 DEF Closes, Goes, kept, work, turns, asked, CloseInv, JobHoldsRun, JobInv,
     LeaseIsJob, TurnInv, PlaceInv, Changing, Making, Ending, TypeOK
<1>9. DriverInv'
  <2>1. \A target \in Nat : clock.time <= target => clock'.time <= target
    BY <1>1, <1>3, ClockType
  <2>2. job' = job /\ clock'.paused = clock.paused
    BY <1>2, <1>3 DEF work
  <2>3. job # NoJob => job.acc.target \in Nat \union {NoTarget}
    BY <1>1 DEF TypeOK, Jobs, Accelerations
  <2> QED
    BY <1>1, <2>1, <2>2, <2>3 DEF DriverInv, OneTimeDriver, Working
<1> QED
  BY <1>4, <1>5, <1>6, <1>7, <1>8, <1>9 DEF Core

LEMMA CloseFailsKeeps ==
  ASSUME Core, NEW c \in Callers, CloseFails(c)
  PROVE  Core'
<1>1. TypeOK /\ PlaceInv /\ TurnInv /\ JobInv /\ DriverInv /\ (Apart => CloseInv)
  BY DEF Core
<1>2. TypeOK'
  BY <1>1 DEF CloseFails, Goes, kept, work, turns, asked, TypeOK, Places
<1>3. PlaceInv'
  BY <1>1 DEF CloseFails, Goes, kept, work, turns, asked, PlaceInv, Changing, Making, Ending,
     TypeOK
<1>4. TurnInv'
  BY <1>1 DEF CloseFails, Goes, kept, work, turns, asked, TurnInv, PlaceInv, Changing, Making,
     Ending, TypeOK
<1>5. JobInv'
  BY <1>1 DEF CloseFails, Goes, kept, work, turns, asked, JobInv, LeaseIsJob, Working, TurnInv,
     PlaceInv, Changing, Making, Ending, TypeOK
<1>6. Apart => CloseInv'
  BY <1>1 DEF CloseFails, Goes, kept, work, turns, asked, CloseInv, JobHoldsRun, JobInv,
     LeaseIsJob, TurnInv, PlaceInv, Changing, Making, Ending, TypeOK
<1>7. DriverInv'
  BY <1>1 DEF CloseFails, Goes, kept, work, turns, asked, DriverInv, OneTimeDriver, Working,
     JobInv, LeaseIsJob, TypeOK
<1> QED
  BY <1>2, <1>3, <1>4, <1>5, <1>6, <1>7 DEF Core

LEMMA RemoveForResetKeeps ==
  ASSUME Core, NEW c \in Callers, RemoveForReset(c)
  PROVE  Core'
<1>1. TypeOK /\ PlaceInv /\ TurnInv /\ JobInv /\ DriverInv /\ (Apart => CloseInv)
  BY DEF Core
<1>2. /\ pc[c] = "remove" /\ (Apart => job = NoJob) /\ (Apart \/ FreshClock.paused) /\ stored' \in States \union {NoState}
      /\ clock' \in [time : Nat, paused : BOOLEAN] /\ saved' \in 0..clock'.time
  <2>1. pc[c] = "remove" /\ (Apart => job = NoJob) /\ (Apart \/ FreshClock.paused)
    BY <1>1 DEF RemoveForReset, CloseInv, Apart, FreshClock
  <2>2. stored' \in States \union {NoState}
    BY <1>1 DEF RemoveForReset, TypeOK
  <2>3. (clock' = FreshClock /\ saved' = 0) \/ UNCHANGED <<clock, saved>>
    BY DEF RemoveForReset
  <2> QED
    BY <1>1, <2>1, <2>2, <2>3, FreshTypes DEF TypeOK
<1>3. TypeOK'
  BY <1>1, <1>2 DEF RemoveForReset, Goes, work, turns, asked, TypeOK, Places
<1>4. PlaceInv'
  BY <1>1, <1>2 DEF RemoveForReset, Goes, work, turns, asked, PlaceInv, Changing, Making,
     Ending, TypeOK
<1>5. TurnInv'
  BY <1>1, <1>2 DEF RemoveForReset, Goes, work, turns, asked, TurnInv, PlaceInv, Changing,
     Making, Ending, TypeOK
<1>6. JobInv'
  BY <1>1, <1>2 DEF RemoveForReset, Goes, work, turns, asked, JobInv, LeaseIsJob, Working,
     TurnInv, PlaceInv, Changing, Making, Ending, TypeOK
<1>7. Apart => CloseInv'
  BY <1>1, <1>2 DEF RemoveForReset, Goes, work, turns, asked, CloseInv, JobHoldsRun, JobInv,
     LeaseIsJob, TurnInv, PlaceInv, Changing, Making, Ending, TypeOK
<1>8. DriverInv'
  <2>1. job' = job /\ (UNCHANGED clock \/ clock' = FreshClock)
    BY DEF RemoveForReset, work
  <2>2. CASE job = NoJob \/ UNCHANGED clock
    BY <1>1, <2>1, <2>2 DEF DriverInv, OneTimeDriver, Working
  <2>3. CASE job # NoJob /\ clock' = FreshClock
    <3>1. clock'.paused /\ clock'.time = 0
      BY <1>2, <2>3 DEF FreshClock
    <3>2. job.acc.target \in Nat \union {NoTarget}
      BY <1>1, <2>3 DEF TypeOK, Jobs, Accelerations
    <3> QED
      BY <2>1, <3>1, <3>2 DEF DriverInv, OneTimeDriver, Working
  <2> QED
    BY <2>1, <2>2, <2>3
<1> QED
  BY <1>3, <1>4, <1>5, <1>6, <1>7, <1>8 DEF Core

LEMMA CreateKeeps ==
  ASSUME Core, NEW c \in Callers, Create(c)
  PROVE  Core'
<1>1. TypeOK /\ PlaceInv /\ TurnInv /\ JobInv /\ DriverInv /\ (Apart => CloseInv)
  BY DEF Core
<1>2. TypeOK'
  <2>1. pc' \in [Callers -> Places]
    BY <1>1 DEF Create, Goes, TypeOK, Places
  <2>2. awaiting' \in BOOLEAN /\ runtime' \in {"absent", "live", "closing", "dead"}
    BY <1>1, BoundAssumption DEF Create, TypeOK
  <2>3. entry' \in States \union {NoState} /\ failStopped' \in BOOLEAN
    BY <1>1, RestoredType DEF Create, TypeOK
  <2> QED
    BY <1>1, <2>1, <2>2, <2>3 DEF Create, kept, work, turns, asked, TypeOK
<1>3. PlaceInv'
  BY <1>1 DEF Create, Goes, kept, work, turns, asked, PlaceInv, Changing, Making, Ending, TypeOK
<1>4. TurnInv'
  BY <1>1 DEF Create, Goes, kept, work, turns, asked, TurnInv, PlaceInv, Changing, Making,
     Ending, TypeOK
<1>5. JobInv'
  BY <1>1 DEF Create, Goes, kept, work, turns, asked, JobInv, LeaseIsJob, Working, TurnInv,
     PlaceInv, Changing, Making, Ending, TypeOK
<1>6. Apart => CloseInv'
  BY <1>1 DEF Create, Goes, kept, work, turns, asked, CloseInv, JobHoldsRun, JobInv, LeaseIsJob,
     TurnInv, PlaceInv, Changing, Making, Ending, TypeOK
<1>7. DriverInv'
  BY <1>1 DEF Create, Goes, kept, work, turns, asked, DriverInv, OneTimeDriver, Working, JobInv,
     LeaseIsJob, TypeOK
<1> QED
  BY <1>2, <1>3, <1>4, <1>5, <1>6, <1>7 DEF Core

LEMMA RemoveForDeleteKeeps ==
  ASSUME Core, NEW c \in Callers, RemoveForDelete(c)
  PROVE  Core'
<1>1. TypeOK /\ PlaceInv /\ TurnInv /\ JobInv /\ DriverInv /\ (Apart => CloseInv)
  BY DEF Core
<1>2. /\ entry' = NoState /\ stored' \in States \union {NoState} /\ deleted' \in BOOLEAN
      /\ pc' \in [Callers -> Places]
  BY <1>1 DEF RemoveForDelete, Goes, TypeOK, Places
<1>3. TypeOK'
  BY <1>1, <1>2 DEF RemoveForDelete, work, turns, asked, TypeOK
<1>4. PlaceInv'
  BY <1>1, <1>2 DEF RemoveForDelete, Goes, work, turns, asked, PlaceInv, Changing, Making,
     Ending, TypeOK
<1>5. TurnInv'
  BY <1>1, <1>2 DEF RemoveForDelete, Goes, work, turns, asked, TurnInv, PlaceInv, Changing,
     Making, Ending, TypeOK
<1>6. JobInv'
  BY <1>1, <1>2 DEF RemoveForDelete, Goes, work, turns, asked, JobInv, LeaseIsJob, Working,
     TurnInv, PlaceInv, Changing, Making, Ending, TypeOK
<1>7. Apart => CloseInv'
  BY <1>1, <1>2 DEF RemoveForDelete, Goes, work, turns, asked, CloseInv, JobHoldsRun, JobInv,
     LeaseIsJob, TurnInv, PlaceInv, Changing, Making, Ending, TypeOK
<1>8. DriverInv'
  BY <1>1, <1>2 DEF RemoveForDelete, Goes, work, turns, asked, DriverInv, OneTimeDriver,
     Working, JobInv, LeaseIsJob, TypeOK
<1> QED
  BY <1>3, <1>4, <1>5, <1>6, <1>7, <1>8 DEF Core

LEMMA CrashKeeps ==
  ASSUME Core, Crash
  PROVE  Core'
<1>1. TypeOK /\ PlaceInv /\ TurnInv /\ JobInv /\ DriverInv /\ (Apart => CloseInv)
  BY DEF Core
<1>2. PICK t \in Nat : clock' = [time |-> t, paused |-> clock.paused] /\ saved' = t
  <2>1. PICK t \in saved..clock.time : clock' = [clock EXCEPT !.time = t] /\ saved' = t
    BY DEF Crash
  <2>2. t \in Nat
    BY <1>1, ClockType
  <2> QED
    BY <1>1, <2>1, <2>2, ClockType
<1>3. crashes' \in 0..MaxCrashes
  BY <1>1, BoundAssumption DEF Crash, TypeOK
<1>4. /\ runtime' = "absent" /\ failStopped' = FALSE /\ entry' = NoState /\ job' = NoJob /\ lease' = FALSE
       /\ awaiting' = FALSE /\ executing' = NoOne /\ lifecycle' = NoOne
       /\ op' = [c \in Callers |-> "status"] /\ pc' = [c \in Callers |-> "idle"]
       /\ want' = [c \in Callers |-> Nothing] /\ current' = [c \in Callers |-> Fresh]
       /\ UNCHANGED <<deleted, stored>>
  BY DEF Crash
<1>5. TypeOK'
  <2>1. clock' \in [time : Nat, paused : BOOLEAN] /\ saved' \in 0..clock'.time
    BY <1>1, <1>2, ClockType
  <2>2. /\ op' \in [Callers -> AllOperations] /\ pc' \in [Callers -> Places]
        /\ want' \in [Callers -> [playback : Playbacks \union {Keep}, pace : Paces \union {Keep}]]
        /\ current' \in [Callers -> Reports]
    BY <1>4, FreshTypes DEF AllOperations, Places, Nothing
  <2> QED
    BY <1>1, <1>3, <1>4, <2>1, <2>2 DEF TypeOK
<1>6. PlaceInv'
  BY <1>4 DEF PlaceInv, Making, Ending
<1>7. TurnInv'
  BY <1>4 DEF TurnInv, Ending
<1>8. JobInv'
  BY <1>4 DEF JobInv, LeaseIsJob, Making
<1>9. Apart => CloseInv'
  BY <1>4 DEF CloseInv, JobHoldsRun, Making, Ending
<1>10. DriverInv'
  BY <1>4 DEF DriverInv, OneTimeDriver, Working
<1> QED
  BY <1>5, <1>6, <1>7, <1>8, <1>9, <1>10 DEF Core

-----------------------------------------------------------------------------
(* The theorems. *)

LEMMA InitCore == Init => Core
<1> SUFFICES ASSUME Init
             PROVE  Core
  OBVIOUS
<1>1. /\ runtime = "live" /\ clock = FreshClock /\ saved = 0 /\ failStopped = FALSE /\ deleted = FALSE
      /\ entry = NoState /\ stored = NoState /\ job = NoJob /\ lease = FALSE /\ awaiting = Roles
      /\ executing = NoOne /\ lifecycle = NoOne
      /\ op = [c \in Callers |-> "status"] /\ pc = [c \in Callers |-> "idle"]
      /\ want = [c \in Callers |-> Nothing] /\ current = [c \in Callers |-> Fresh] /\ crashes = 0
  BY DEF Init
<1>2. TypeOK
  <2>1. /\ op \in [Callers -> AllOperations] /\ pc \in [Callers -> Places]
        /\ want \in [Callers -> [playback : Playbacks \union {Keep}, pace : Paces \union {Keep}]]
        /\ current \in [Callers -> Reports]
    BY <1>1, FreshTypes DEF AllOperations, Places, Nothing
  <2>2. awaiting \in BOOLEAN /\ crashes \in 0..MaxCrashes
    BY <1>1, BoundAssumption
  <2>3. clock \in [time : Nat, paused : BOOLEAN] /\ saved \in 0..clock.time
    BY <1>1, FreshTypes
  <2> QED
    BY <1>1, <2>1, <2>2, <2>3 DEF TypeOK
<1>3. PlaceInv /\ TurnInv
  BY <1>1 DEF PlaceInv, TurnInv, Making, Ending
<1>4. JobInv /\ CloseInv /\ DriverInv
  BY <1>1 DEF JobInv, LeaseIsJob, CloseInv, JobHoldsRun, Making, Ending, DriverInv, OneTimeDriver, Working
<1> QED
  BY <1>2, <1>3, <1>4 DEF Core

(* A step keeps the core of the invariant. *)
LEMMA NextCore ==
  ASSUME Core, [Next]_vars
  PROVE  Core'
<1>1. CASE \E c \in Callers : Calls(c)
  BY <1>1, CallKeeps DEF Calls
<1>2. CASE \E c \in Callers : TakeTurn(c)
  BY <1>2, TakeTurnKeeps
<1>3. CASE \E c \in Callers : Return(c)
  BY <1>3, ReturnKeeps
<1>4. CASE \E c \in Callers : LoadFails(c)
  BY <1>4, LoadFailsKeeps
<1>5. CASE \E c \in Callers : StatusKnown(c)
  BY <1>5, StatusKnownKeeps
<1>6. CASE \E c \in Callers : StatusReads(c)
  BY <1>6, StatusReadsKeeps
<1>7. CASE \E c \in Callers : DiskRead(c)
  BY <1>7, DiskReadKeeps
<1>8. CASE \E c \in Callers : StatusRemembers(c)
  BY <1>8, StatusRemembersKeeps
<1>9. CASE \E c \in Callers : OverviewReads(c)
  BY <1>9, OverviewReadsKeeps
<1>10. CASE \E c \in Callers : AskAgain(c)
  BY <1>10, AskAgainKeeps
<1>11. CASE \E c \in Callers : Unchanged(c)
  BY <1>11, UnchangedKeeps
<1>12. CASE \E c \in Callers : Interrupt(c)
  BY <1>12, InterruptKeeps
<1>13. CASE \E c \in Callers : Proceed(c)
  BY <1>13, ProceedKeeps
<1>14. CASE \E c \in Callers : Advance(c)
  BY <1>14, AdvanceKeeps
<1>15. CASE \E c \in Callers : Operates(c, "pause", "pausing")
  BY <1>15, PausingBeginsKeeps
<1>16. CASE \E c \in Callers : Operates(c, "clock", "clocking")
  BY <1>16, ClockingBeginsKeeps
<1>17. CASE \E c \in Callers : SetClockFails(c)
  BY <1>17, SetClockFailsKeeps
<1>18. CASE \E c \in Callers : Start(c)
  BY <1>18, StartKeeps
<1>19. CASE \E c \in Callers : Paused(c)
  BY <1>19, PausedKeeps
<1>20. CASE \E c \in Callers : StartSaved(c)
  BY <1>20, StartSavedKeeps
<1>21. CASE \E c \in Callers : StartFails(c)
  BY <1>21, StartFailsKeeps
<1>22. CASE \E c \in Callers : LoadForClock(c)
  BY <1>22, LoadForClockKeeps
<1>23. CASE \E c \in Callers : ClockSet(c)
  BY <1>23, ClockSetKeeps
<1>24. CASE \E c \in Callers : Saved(c)
  BY <1>24, SavedKeeps
<1>25. CASE Enter
  BY <1>25, EnterKeeps
<1>26. CASE Slice
  BY <1>26, SliceKeeps
<1>27. CASE Leave
  BY <1>27, LeaveKeeps
<1>28. CASE Finish
  BY <1>28, FinishKeeps
<1>29. CASE Play
  BY <1>29, PlayKeeps
<1>30. CASE Fail
  BY <1>30, FailKeeps
<1>31. CASE Gone
  BY <1>31, GoneKeeps
<1>32. CASE Tick
  BY <1>32, TickKeeps
<1>33. CASE \E c \in Callers : ClaimClose(c)
  BY <1>33, ClaimCloseKeeps
<1>34. CASE \E c \in Callers : ClaimReset(c)
  BY <1>34, ClaimResetKeeps
<1>35. CASE \E c \in Callers : ClaimDelete(c)
  BY <1>35, ClaimDeleteKeeps
<1>36. CASE \E c \in Callers : CheckReset(c)
  BY <1>36, CheckResetKeeps
<1>37. CASE \E c \in Callers : Publish(c)
  BY <1>37, PublishKeeps
<1>38. CASE \E c \in Callers : Settle(c)
  BY <1>38, SettleKeeps
<1>39. CASE \E c \in Callers : Recheck(c)
  BY <1>39, RecheckKeeps
<1>40. CASE \E c \in Callers : Closes(c)
  BY <1>40, ClosesKeeps
<1>41. CASE \E c \in Callers : CloseFails(c)
  BY <1>41, CloseFailsKeeps
<1>42. CASE \E c \in Callers : RemoveForReset(c)
  BY <1>42, RemoveForResetKeeps
<1>43. CASE \E c \in Callers : Create(c)
  BY <1>43, CreateKeeps
<1>44. CASE \E c \in Callers : RemoveForDelete(c)
  BY <1>44, RemoveForDeleteKeeps
<1>45. CASE Crash
  BY <1>45, CrashKeeps
<1>46. CASE UNCHANGED vars
  BY <1>46 DEF vars, run, kept, work, turns, calls, Core, TypeOK, PlaceInv, TurnInv, JobInv,
     LeaseIsJob, CloseInv, JobHoldsRun, DriverInv, OneTimeDriver, Working
<1> QED
  BY <1>1, <1>2, <1>3, <1>4, <1>5, <1>6, <1>7, <1>8, <1>9, <1>10, <1>11, <1>12, <1>13, <1>14,
     <1>15, <1>16, <1>17, <1>18, <1>19, <1>20, <1>21, <1>22, <1>23, <1>24, <1>25, <1>26, <1>27,
     <1>28, <1>29, <1>30, <1>31, <1>32, <1>33, <1>34, <1>35, <1>36, <1>37, <1>38, <1>39, <1>40,
     <1>41, <1>42, <1>43, <1>44, <1>45, <1>46 DEF Next, Loads, Claims, Steps, Works

(* The core of the invariant holds in every reachable state, for any callers, wishes and
   bounds. *)
THEOREM Invariance == Spec => []Core
<1>1. Init => Core
  BY InitCore
<1>2. Core /\ [Next]_vars => Core'
  BY NextCore
<1> QED
  BY <1>1, <1>2, PTL DEF Spec

(* The variables keep their types (registry.ts and runtime.ts as modelled). *)
THEOREM TypesHold == Spec => []TypeOK
<1>1. Core => TypeOK
  BY DEF Core
<1> QED
  BY <1>1, Invariance, PTL

(* Simulation time has one driver: while a fast-forward is registered and not at its end
   the realtime clock stands still (startMaximumPace, setClock, runMaximumPace). *)
THEOREM TimeHasOneDriver == Spec => []OneTimeDriver
<1>1. Core => OneTimeDriver
  BY DEF Core, DriverInv
<1> QED
  BY <1>1, Invariance, PTL

(* A fast-forward never outlives the runtime it drives, whether a close, a delete or a
   reset takes the runtime away (closeLoaded, settleCompletingMaximumPace, remove).  Where
   joins and resets meet, one that a join starts may. *)
THEOREM JobKeepsItsRun ==
  ASSUME Apart
  PROVE  Spec => []JobHoldsRun
<1>1. Core => JobHoldsRun
  BY DEF Core, CloseInv
<1> QED
  BY <1>1, Invariance, PTL

(* A change finds no fast-forward at work but its own, on every Run and with every reset
   and status read: the turn in executionOperations is held from the moment the job is
   looked for to the end of the save, and only the holder of the turn registers a job. *)
THEOREM ChangesAreAlone == Spec => []ChangesAlone
<1>1. Core => ChangesAlone
  BY DEF Core, JobInv, ChangesAlone, Making
<1> QED
  BY <1>1, Invariance, PTL

(* The lease of a fast-forward is held exactly while it is registered (startMaximumPace and
   the end of its job). *)
THEOREM LeaseGoesWithJob == Spec => []LeaseIsJob
<1>1. Core => LeaseIsJob
  BY DEF Core, JobInv
<1> QED
  BY <1>1, Invariance, PTL

(* A fast-forward that is at its end has not gone beyond its target (runMaximumPace). *)
THEOREM StopsAtTarget == Spec => []CompletedAtTarget
<1>1. Core => CompletedAtTarget
  BY DEF Core, DriverInv, CompletedAtTarget
<1> QED
  BY <1>1, Invariance, PTL
=============================================================================
