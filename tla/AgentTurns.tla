----------------------------- MODULE AgentTurns -----------------------------
(* The turns of one AI Agent: concurrency.ts with the turns of ai-agent.ts.

   Messages that ask for an answer (questions) arrive from several Rooms.  The Agent
   takes one turn at a time; a Room that asks meanwhile is pending, and a turn that
   answered is followed by the next one only after a cooldown.  A requested turn (a
   procedure, a proposal) waits until the questions of its Room are answered.  A
   trigger runs a prompt of its own and holds the questions aside meanwhile.
   Cancelling starts a new epoch: the runs of the old one unwind later, and may do
   no more than that.  A closed Agent starts no turn.

   A run goes through "preparing", when it waits for what its context needs, and
   "evaluating", when the model works on the questions it has read.  What a model
   says is left open; so is whether a script directs a Room. *)
EXTENDS Naturals, Sequences, FiniteSets, SequencesExt

CONSTANTS
  Rooms,
  Questions,
  RoomOf,      \* the Room of a question
  NoRoom,
  MaxEpoch,    \* bound: cancelGeneration
  MaxNudges,   \* bound: triggers fired and evaluations forced
  MaxRequests, \* bound: requested turns that were accepted
  MaxThrows,   \* bound: runs that throw
  MaxTimers    \* bound: cooldown timers of one Room

ASSUME RoomsAssumption == NoRoom \notin Rooms /\ RoomOf \in [Questions -> Rooms]
ASSUME BoundsAssumption == /\ MaxEpoch \in Nat /\ MaxNudges \in Nat
                           /\ MaxRequests \in Nat /\ MaxThrows \in Nat /\ MaxTimers \in Nat

VARIABLES
  active,    \* activeRoom
  pending,   \* pendingRooms, in the order they were added
  scheduled, \* the cooldown timers of a Room
  epoch,     \* generationEpoch
  closed,
  incoming,  \* agentHistory.incoming
  requested, \* requestedTurns
  runs,      \* the runs in flight, those of old epochs included
  waiting,   \* somebody waits in whenIdle
  status,    \* history: what became of a question
  used       \* how often each bounded thing has happened

vars == <<active, pending, scheduled, epoch, closed, incoming, requested, runs, waiting, status, used>>

\* kind: an ordinary turn, one that answers a request, a trigger.
\* read: the questions it is there for, first those it finds, then those in its context;
\* held: those it set aside.
Run == [kind: {"turn", "request", "trigger"}, room: Rooms, epoch: 0 .. MaxEpoch,
        phase: {"preparing", "evaluating"}, read: SUBSET Questions, held: Seq(Questions)]

Used == [nudges: 0 .. MaxNudges, requests: 0 .. MaxRequests, throws: 0 .. MaxThrows]

TypeOK ==
  /\ active \in Rooms \cup {NoRoom}
  /\ pending \in Seq(Rooms)
  /\ scheduled \in [Rooms -> 0 .. MaxTimers]
  /\ epoch \in 0 .. MaxEpoch
  /\ closed \in BOOLEAN
  /\ incoming \in Seq(Questions)
  /\ requested \subseteq Rooms
  /\ \A run \in runs : run \in Run
  /\ waiting \in BOOLEAN
  /\ status \in [Questions -> {"unasked", "open", "answered", "failed", "cancelled", "repeated"}]
  /\ used \in Used

Init ==
  /\ active = NoRoom
  /\ pending = <<>>
  /\ scheduled = [r \in Rooms |-> 0]
  /\ epoch = 0
  /\ closed = FALSE
  /\ incoming = <<>>
  /\ requested = {}
  /\ runs = {}
  /\ waiting = FALSE
  /\ status = [q \in Questions |-> "unasked"]
  /\ used = [nudges |-> 0, requests |-> 0, throws |-> 0]

-----------------------------------------------------------------------------
\* What is left of s, in the order it had.
Without(s, gone) ==
  LET left == {i \in DOMAIN s : s[i] \notin gone}
      Place(n) == CHOOSE i \in left : Cardinality({j \in left : j <= i}) = n
  IN [n \in 1 .. Cardinality(left) |-> s[Place(n)]]
\* Set.add: a Room that is pending keeps its place.
AddPending(p, r) == IF r \in ToSet(p) THEN p ELSE Append(p, r)

IsCurrent(run) == run.epoch = epoch
NoTimers == [r \in Rooms |-> 0]
\* runningRequests: it outlives the epoch, until the run has unwound.
RunningRequests == {run.room : run \in {x \in runs : x.kind = "request"}}

\* takeRequestedTurn: the room's own questions come first.
MayTake(r, asked, req) == r \in req /\ \A i \in DOMAIN asked : RoomOf[asked[i]] # r

\* The questions of r among those incoming.
AskedIn(r, asked) == {q \in ToSet(asked) : RoomOf[q] = r}

\* isQuiet of what a step leaves behind decides whether whenIdle resolves.
CheckIdle(quiet) == waiting' = (waiting /\ ~quiet)

\* A turn in r starts over what the step has left pending, incoming, requested and
\* running.  The request it takes is dropped when a script directs the Room by now.
Starts(r, asked, req, live) ==
  /\ active' = r
  /\ requested' = IF MayTake(r, asked, req) THEN req \ {r} ELSE req
  /\ \E kind \in IF MayTake(r, asked, req) THEN {"request", "turn"} ELSE {"turn"} :
       runs' = live \cup {[kind |-> kind, room |-> r, epoch |-> epoch, phase |-> "preparing",
                           read |-> AskedIn(r, asked), held |-> <<>>]}

\* tryEvaluate from outside a run: dropped, queued or started.
TryEvaluate(r, asked, req) ==
  \/ closed /\ requested' = req /\ UNCHANGED <<active, pending, runs>>
  \/ /\ ~closed /\ active # NoRoom
     /\ pending' = AddPending(pending, r)
     /\ requested' = req
     /\ UNCHANGED <<active, runs>>
  \/ ~closed /\ active = NoRoom /\ Starts(r, asked, req, runs) /\ UNCHANGED pending

-----------------------------------------------------------------------------
\* What asks for a turn

\* receive: a question.
Receive(q) ==
  /\ status[q] = "unasked"
  /\ status' = [status EXCEPT ![q] = "open"]
  /\ incoming' = Append(incoming, q)
  /\ TryEvaluate(RoomOf[q], incoming', requested)
  /\ UNCHANGED <<scheduled, epoch, closed, waiting, used>>

\* requestTurn: refused on a closed Agent and while a request of the Room waits or runs.
RequestTurn(r) ==
  /\ used.requests < MaxRequests
  /\ ~closed /\ r \notin requested /\ r \notin RunningRequests
  /\ used' = [used EXCEPT !.requests = @ + 1]
  /\ TryEvaluate(r, incoming, requested \cup {r})
  /\ UNCHANGED <<scheduled, epoch, closed, incoming, waiting, status>>

\* forceEvaluate: a Room in manual mode.
ForceEvaluate(r) ==
  /\ used.nudges < MaxNudges
  /\ used' = [used EXCEPT !.nudges = @ + 1]
  /\ TryEvaluate(r, incoming, requested)
  /\ UNCHANGED <<scheduled, epoch, closed, incoming, waiting, status>>

\* Mutant: the cooldown of a busy Agent ends for nothing.
TimerFiresIfFree(r) ==
  /\ scheduled[r] > 0
  /\ scheduled' = [scheduled EXCEPT ![r] = @ - 1]
  /\ IF active = NoRoom THEN TryEvaluate(r, incoming, requested)
     ELSE UNCHANGED <<active, pending, requested, runs>>
  /\ UNCHANGED <<epoch, closed, incoming, waiting, status, used>>

\* scheduleNext: the cooldown is over.
TimerFires(r) ==
  /\ scheduled[r] > 0
  /\ scheduled' = [scheduled EXCEPT ![r] = @ - 1]
  /\ TryEvaluate(r, incoming, requested)
  /\ CheckIdle(active' = NoRoom /\ pending' = <<>> /\ scheduled' = NoTimers)
  /\ UNCHANGED <<epoch, closed, incoming, status, used>>

\* fireTriggerExecute: all that is incoming is held aside.  On a closed Agent the start
\* throws, after that.
FireTrigger(r) ==
  /\ used.nudges < MaxNudges /\ active = NoRoom
  /\ used' = [used EXCEPT !.nudges = @ + 1]
  /\ incoming' = <<>>
  /\ IF closed THEN UNCHANGED <<active, runs>>
     ELSE /\ active' = r
          /\ runs' = runs \cup {[kind |-> "trigger", room |-> r, epoch |-> epoch,
                                 phase |-> "preparing", read |-> {}, held |-> incoming]}
  /\ UNCHANGED <<pending, scheduled, epoch, closed, requested, waiting, status>>

\* whenIdle, of an Agent that is not quiet.
WhenIdle ==
  /\ ~waiting
  /\ active # NoRoom \/ pending # <<>> \/ scheduled # NoTimers
  /\ waiting' = TRUE
  /\ UNCHANGED <<active, pending, scheduled, epoch, closed, incoming, requested, runs, status, used>>

-----------------------------------------------------------------------------
\* Runs

\* prepareTurnContext: the context is read after its awaits; a trigger's has no questions.
Prepared(run) ==
  /\ run \in runs /\ IsCurrent(run) /\ run.phase = "preparing"
  /\ runs' = (runs \ {run}) \cup
       {[run EXCEPT !.phase = "evaluating",
                    !.read = IF run.kind = "trigger" THEN {} ELSE AskedIn(run.room, incoming)]}
  /\ UNCHANGED <<active, pending, scheduled, epoch, closed, incoming, requested, waiting, status, used>>

\* What follows a turn in r that has left asked incoming: the same Room first, then the
\* one that waits longest; after a reply when the cooldown is over, else at once.
Follow(r, replied, asked, live, queue) ==
  LET next == IF r \in ToSet(queue) THEN r ELSE Head(queue) IN
  /\ CheckIdle(queue = <<>> /\ scheduled = NoTimers)
  /\ \/ /\ queue = <<>>
        /\ active' = NoRoom
        /\ runs' = live
        /\ UNCHANGED <<pending, scheduled, requested>>
     \/ /\ queue # <<>> /\ replied
        /\ active' = NoRoom
        /\ runs' = live
        /\ pending' = Without(queue, {next})
        /\ scheduled' = [scheduled EXCEPT ![next] = @ + 1]
        /\ UNCHANGED requested
     \/ /\ queue # <<>> /\ ~replied
        /\ pending' = Without(queue, {next})
        /\ Starts(next, asked, requested, live)
        /\ UNCHANGED scheduled

\* Mutant: a request that waited is not put in line.
FollowedByPending(run, replied, asked) == Follow(run.room, replied, asked, runs \ {run}, pending)

\* The turn's finally: a request that waited behind the Room's questions is next.
Followed(run, replied, asked) ==
  Follow(run.room, replied, asked, runs \ {run},
        IF run.room \in requested THEN AddPending(pending, run.room) ELSE pending)

\* A question that is answered again shows.
Answered(read) == [q \in Questions |->
  IF q \notin read THEN status[q]
  ELSE IF status[q] \in {"answered", "repeated"} THEN "repeated" ELSE "answered"]

\* Mutant: a run of an old epoch posts what it found.
StaleTurnEnds(run, replied) ==
  /\ run \in runs /\ run.kind # "trigger" /\ run.phase = "evaluating"
  /\ scheduled[run.room] < MaxTimers
  /\ incoming' = Without(incoming, run.read)
  /\ status' = Answered(run.read)
  /\ Followed(run, replied, incoming')
  /\ UNCHANGED <<epoch, closed, used>>

\* The model has decided: what the turn has read is flushed, the decision is posted.
TurnEnds(run, replied) ==
  /\ run \in runs /\ IsCurrent(run) /\ run.kind # "trigger" /\ run.phase = "evaluating"
  /\ \A r \in Rooms : scheduled[r] < MaxTimers
  /\ incoming' = Without(incoming, run.read)
  /\ status' = Answered(run.read)
  /\ Followed(run, replied, incoming')
  /\ UNCHANGED <<epoch, closed, used>>

\* What was asked and is not answered is reported as failed.
Reported(read) == [q \in Questions |->
  IF q \in read /\ status[q] = "open" THEN "failed" ELSE status[q]]

\* A turn throws: that is posted, but what it has read is not flushed.
TurnThrows(run) ==
  /\ run \in runs /\ IsCurrent(run) /\ run.kind # "trigger" /\ used.throws < MaxThrows
  /\ used' = [used EXCEPT !.throws = @ + 1]
  /\ status' = Reported(run.read)
  /\ Followed(run, FALSE, incoming)
  /\ UNCHANGED <<epoch, closed, incoming>>

\* The post of the decision throws: what the turn has read is flushed by then, and a
\* reply has its cooldown.
DecisionThrows(run, replied) ==
  /\ run \in runs /\ IsCurrent(run) /\ run.kind # "trigger" /\ run.phase = "evaluating"
  /\ used.throws < MaxThrows /\ \A r \in Rooms : scheduled[r] < MaxTimers
  /\ used' = [used EXCEPT !.throws = @ + 1]
  /\ incoming' = Without(incoming, run.read)
  /\ status' = Reported(run.read)
  /\ Followed(run, replied, incoming')
  /\ UNCHANGED <<epoch, closed>>

\* Mutant: the trigger's finally starts a turn though no Room is next.
TriggerEndsAnyway(run) ==
  /\ run \in runs /\ IsCurrent(run) /\ run.kind = "trigger" /\ ~closed
  /\ incoming' = run.held \o incoming
  /\ LET next == IF pending # <<>> THEN Head(pending) ELSE NoRoom IN
     /\ pending' = Without(pending, {next})
     /\ Starts(next, incoming', requested, runs \ {run})
  /\ CheckIdle(FALSE)
  /\ UNCHANGED <<scheduled, epoch, closed, status, used>>

\* The trigger's finally, whatever it decided: the held questions go in front, and the
\* Room that waits longest or that of the first question has its turn.
TriggerEnds(run) ==
  /\ run \in runs /\ IsCurrent(run) /\ run.kind = "trigger"
  /\ incoming' = run.held \o incoming
  /\ LET asked == run.held \o incoming
         next == IF pending # <<>> THEN Head(pending)
                 ELSE IF asked # <<>> THEN RoomOf[asked[1]] ELSE NoRoom IN
     IF next = NoRoom \/ closed
       THEN /\ active' = NoRoom
            /\ runs' = runs \ {run}
            /\ UNCHANGED <<pending, requested>>
       ELSE /\ pending' = Without(pending, {next})
            /\ Starts(next, asked, requested, runs \ {run})
  /\ CheckIdle(pending = <<>> /\ scheduled = NoTimers)
  /\ UNCHANGED <<scheduled, epoch, closed, status, used>>

\* Mutant: a run of an old epoch ends the turn that is running by then.
UnwindsAndEnds(run) ==
  /\ run \in runs /\ ~IsCurrent(run)
  /\ runs' = runs \ {run}
  /\ incoming' = run.held \o incoming
  /\ active' = NoRoom
  /\ UNCHANGED <<pending, scheduled, epoch, closed, requested, waiting, status, used>>

\* A run of an old epoch unwinds: a trigger restores what it held, nothing else happens.
Unwinds(run) ==
  /\ run \in runs /\ ~IsCurrent(run)
  /\ runs' = runs \ {run}
  /\ incoming' = run.held \o incoming
  /\ UNCHANGED <<active, pending, scheduled, epoch, closed, requested, waiting, status, used>>

-----------------------------------------------------------------------------
\* cancelGeneration: the questions nobody has answered are left as they are.
Cancel ==
  /\ epoch < MaxEpoch
  /\ epoch' = epoch + 1
  /\ active' = NoRoom
  /\ pending' = <<>>
  /\ scheduled' = NoTimers
  /\ requested' = {}
  /\ waiting' = FALSE
  /\ status' = [q \in Questions |-> IF status[q] = "open" THEN "cancelled" ELSE status[q]]
  /\ UNCHANGED <<closed, incoming, runs, used>>

\* close: what is queued is dropped, a running turn ends on its own.
Close ==
  /\ ~closed
  /\ closed' = TRUE
  /\ pending' = <<>>
  /\ scheduled' = NoTimers
  /\ requested' = {}
  /\ CheckIdle(active = NoRoom)
  /\ UNCHANGED <<active, epoch, incoming, runs, status, used>>

RunSteps(run) == \/ Prepared(run) \/ TurnThrows(run) \/ TriggerEnds(run)
                 \/ \E replied \in BOOLEAN : TurnEnds(run, replied) \/ DecisionThrows(run, replied)

Next ==
  \/ \E q \in Questions : Receive(q)
  \/ \E r \in Rooms : RequestTurn(r) \/ ForceEvaluate(r) \/ TimerFires(r) \/ FireTrigger(r)
  \/ \E run \in runs : RunSteps(run) \/ Unwinds(run)
  \/ WhenIdle \/ Cancel \/ Close

Spec == Init /\ [][Next]_vars

\* Preparing and evaluating end, timers fire.  Nobody has to ask, cancel or close.
FairSpec ==
  /\ Spec
  /\ WF_vars(\E run \in runs : RunSteps(run))
  /\ \A r \in Rooms : WF_vars(TimerFires(r))

-----------------------------------------------------------------------------
\* Properties

\* One turn at a time: exactly the room the state shows has a run of this epoch, whatever
\* runs of old epochs are still unwinding (startGeneration, endGeneration, cancelAll).
OneTurn ==
  LET current == {run \in runs : IsCurrent(run)} IN
  IF active = NoRoom THEN current = {}
  ELSE Cardinality(current) = 1 /\ \A run \in current : run.room = active

\* A turn is coming: r is pending or in its cooldown.
TurnComing(r) == r \in ToSet(pending) \/ scheduled[r] > 0

\* While the Agent is open, each question that was neither answered nor reported as failed
\* nor cancelled has a turn that reads it or will, and so has each requested turn: nothing
\* is forgotten when turns, cooldowns and triggers follow each other (run, tryEvaluate,
\* takeRequestedTurn, fireTriggerExecute).
NothingForgotten ==
  ~closed =>
    /\ \A q \in Questions : status[q] = "open" =>
         \/ TurnComing(RoomOf[q])
         \/ \E run \in runs : IsCurrent(run) /\ run.kind # "trigger" /\ q \in run.read
    /\ \A r \in requested :
         \/ TurnComing(r)
         \/ \E run \in runs : IsCurrent(run) /\ run.kind # "trigger" /\ run.room = r

\* No question is answered twice: what a cancelled turn read and a later one answers is
\* answered by that one alone (run, flushIncoming).
AnsweredOnce == \A q \in Questions : status[q] # "repeated"

\* Once nobody asks any more, nothing stays behind: every question is answered, reported as
\* failed, cancelled or left to a closed Agent, every requested turn is taken or dropped,
\* and whoever waits for the Agent to be idle has been told (run, scheduleNext, checkIdle).
EverythingSettles ==
  <>[] /\ closed \/ \A q \in Questions : status[q] # "open"
       /\ requested = {}
       /\ ~waiting
=============================================================================
