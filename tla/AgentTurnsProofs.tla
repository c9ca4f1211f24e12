--------------------------- MODULE AgentTurnsProofs ---------------------------
(* Theorems about AgentTurns, for any Rooms, questions and bounds: the inductive
   invariant, that every step keeps it, and what follows from it. *)
EXTENDS AgentTurns, FiniteSetTheorems, TLAPS

(* Of a finite set of places, each number up to its size is the rank of one of them. *)
LEMMA RankOnto ==
  ASSUME NEW S \in SUBSET Nat, IsFiniteSet(S)
  PROVE  /\ Cardinality(S) \in Nat
         /\ \A i \in S : Cardinality({j \in S : j <= i}) \in 1 .. Cardinality(S)
         /\ \A i, k \in S : Cardinality({j \in S : j <= i}) = Cardinality({j \in S : j <= k}) => i = k
         /\ \A n \in 1 .. Cardinality(S) : \E i \in S : Cardinality({j \in S : j <= i}) = n
<1> DEFINE Below(i) == {j \in S : j <= i}
           rank == [i \in S |-> Cardinality(Below(i))]
<1>1. Cardinality(S) \in Nat
  BY FS_CardinalityType
<1>2. \A i \in S : Below(i) \in SUBSET S /\ i \in Below(i)
  OBVIOUS
<1>3. \A i \in S : /\ IsFiniteSet(Below(i)) /\ Cardinality(Below(i)) <= Cardinality(S)
                   /\ Cardinality(Below(i)) \in Nat
  BY <1>2, FS_Subset, FS_CardinalityType
<1>4. \A i \in S : Cardinality(Below(i)) # 0
  BY <1>2, <1>3, FS_EmptySet
<1>5. \A i \in S : Cardinality(Below(i)) \in 1 .. Cardinality(S)
  BY <1>1, <1>3, <1>4
<1>6. ASSUME NEW i \in S, NEW k \in S, i < k, Cardinality(Below(i)) = Cardinality(Below(k))
      PROVE  FALSE
  <2>1. \A j \in S : j <= i => j <= k
    BY <1>6
  <2>2. ~(k <= i)
    BY <1>6
  <2>3. Below(i) \subseteq Below(k) /\ k \in Below(k) /\ k \notin Below(i)
    BY <1>2, <2>1, <2>2
  <2>4. Below(k) = Below(i)
    BY <2>3, <1>3, <1>6, FS_Subset, Zenon
  <2> QED
    BY <2>3, <2>4
<1>7. \A i, k \in S : Cardinality(Below(i)) = Cardinality(Below(k)) => i = k
  <2> SUFFICES ASSUME NEW i \in S, NEW k \in S, Cardinality(Below(i)) = Cardinality(Below(k)), i # k
               PROVE  FALSE
    OBVIOUS
  <2>1. i < k \/ k < i
    OBVIOUS
  <2> QED
    BY <1>6, <2>1
<1>8. rank \in Injection(S, 1 .. Cardinality(S))
  <2>1. rank \in [S -> 1 .. Cardinality(S)]
    BY <1>5
  <2>2. \A i, k \in S : rank[i] = rank[k] => i = k
    BY <1>7
  <2> QED
    BY <2>1, <2>2, Zenon DEF Injection, IsInjective
<1>9. IsFiniteSet(1 .. Cardinality(S)) /\ Cardinality(1 .. Cardinality(S)) = Cardinality(S)
  BY <1>1, FS_Interval
<1>10. rank \in Surjection(S, 1 .. Cardinality(S))
  BY <1>8, <1>9, FS_Injection
<1>11. \A n \in 1 .. Cardinality(S) : \E i \in S : rank[i] = n
  BY <1>10 DEF Surjection
<1> HIDE DEF Below
<1>12. \A n \in 1 .. Cardinality(S) : \E i \in S : Cardinality(Below(i)) = n
  BY <1>11
<1> QED
  BY <1>1, <1>5, <1>7, <1>12 DEF Below

(* Without leaves a sequence of the elements that are not gone, and of no others. *)
LEMMA WithoutElements ==
  ASSUME NEW S, NEW s \in Seq(S), NEW gone
  PROVE  /\ Without(s, gone) \in Seq(S)
         /\ ToSet(Without(s, gone)) = ToSet(s) \ gone
<1> DEFINE left == {i \in DOMAIN s : s[i] \notin gone}
           Rank(i) == Cardinality({j \in left : j <= i})
           Place(n) == CHOOSE i \in left : Rank(i) = n
           t == Without(s, gone)
<1>1. Len(s) \in Nat /\ DOMAIN s = 1 .. Len(s)
  OBVIOUS
<1>2. left \in SUBSET Nat /\ IsFiniteSet(left)
  <2>1. IsFiniteSet(1 .. Len(s))
    BY <1>1, FS_Interval
  <2>2. left \in SUBSET (1 .. Len(s))
    BY <1>1
  <2> QED
    BY <1>1, <2>1, <2>2, FS_Subset
<1> HIDE DEF left
<1>3. /\ Cardinality(left) \in Nat
      /\ \A i \in left : Rank(i) \in 1 .. Cardinality(left)
      /\ \A i, k \in left : Rank(i) = Rank(k) => i = k
      /\ \A n \in 1 .. Cardinality(left) : \E i \in left : Rank(i) = n
  BY <1>2, RankOnto
<1> HIDE DEF Rank
<1>4. \A n \in 1 .. Cardinality(left) : Place(n) \in left
  BY <1>3
<1>5. \A i \in left : Place(Rank(i)) = i
  BY <1>3
<1>6. t = [n \in 1 .. Cardinality(left) |-> s[Place(n)]]
  BY DEF Without, left, Rank
<1>7. \A i \in left : s[i] \in S /\ s[i] \notin gone /\ i \in DOMAIN s
  BY DEF left
<1>8. \A i \in DOMAIN s : s[i] \notin gone => i \in left
  BY DEF left
<1> HIDE DEF Place, t
<1>9. t \in Seq(S)
  BY <1>3, <1>4, <1>6, <1>7
<1>10. \A n \in DOMAIN t : t[n] \in ToSet(s) \ gone
  BY <1>4, <1>6, <1>7 DEF ToSet
<1>11. \A i \in left : Rank(i) \in DOMAIN t /\ t[Rank(i)] = s[i]
  BY <1>3, <1>5, <1>6
<1>12. ToSet(t) = ToSet(s) \ gone
  BY <1>8, <1>10, <1>11 DEF ToSet
<1> QED
  BY <1>9, <1>12 DEF t

(* No run is of an epoch to come; a Room is active exactly when there is a run of this
   epoch, the only one, and that is in this Room. *)
CurrentInv ==
  /\ \A run \in runs : run.epoch <= epoch
  /\ active = NoRoom => \A run \in runs : ~IsCurrent(run)
  /\ active # NoRoom => \E run \in runs : /\ IsCurrent(run) /\ run.room = active
                                         /\ \A other \in runs : IsCurrent(other) => other = run

(* A question lies in one place: among the incoming ones or with one trigger. *)
PlaceInv ==
  /\ \A run \in runs : /\ run.kind # "trigger" => run.held = <<>>
                       /\ ToSet(run.held) \cap ToSet(incoming) = {}
  /\ \A x, y \in runs : x # y => ToSet(x.held) \cap ToSet(y.held) = {}

(* What the run of this epoch is there for was asked in its Room and is still incoming. *)
ReadInv == \A run \in runs : IsCurrent(run) => run.read \subseteq AskedIn(run.room, incoming)

Held(q) == \E run \in runs : q \in ToSet(run.held)

(* What lies there was asked, and nobody has answered it. *)
StatusInv ==
  /\ AnsweredOnce
  /\ \A q \in Questions : q \in ToSet(incoming) \/ Held(q) => status[q] \notin {"unasked", "answered"}

(* An open question of an open Agent lies there, and no old trigger holds it. *)
OpenInv ==
  ~closed => \A q \in Questions : status[q] = "open" =>
    q \in ToSet(incoming) \/ \E run \in runs : IsCurrent(run) /\ run.kind = "trigger" /\ q \in ToSet(run.held)

IInv == TypeOK /\ CurrentInv /\ PlaceInv /\ ReadInv /\ StatusInv /\ OpenInv /\ NothingForgotten

-----------------------------------------------------------------------------
(* What the operators of the model do to the state. *)

(* The elements of the empty sequence, of one that is longer by one, of two in a row. *)
LEMMA Elements ==
  /\ ToSet(<<>>) = {}
  /\ \A S : \A s \in Seq(S) : \A x \in S : ToSet(Append(s, x)) = ToSet(s) \cup {x}
  /\ \A S : \A s, t \in Seq(S) : ToSet(s \o t) = ToSet(s) \cup ToSet(t)
  /\ \A S : \A s \in Seq(S) : ToSet(s) \subseteq S /\ (s # <<>> => Head(s) \in ToSet(s) /\ s[1] \in ToSet(s))
<1>1. ToSet(<<>>) = {}
  BY DEF ToSet
<1>2. ASSUME NEW S, NEW s \in Seq(S), NEW x \in S
      PROVE  ToSet(Append(s, x)) = ToSet(s) \cup {x}
  <2>1. DOMAIN Append(s, x) = DOMAIN s \cup {Len(s) + 1} /\ Append(s, x)[Len(s) + 1] = x
    OBVIOUS
  <2>2. \A i \in DOMAIN s : Append(s, x)[i] = s[i]
    OBVIOUS
  <2> QED
    BY <2>1, <2>2 DEF ToSet
<1>3. ASSUME NEW S, NEW s \in Seq(S), NEW t \in Seq(S)
      PROVE  ToSet(s \o t) = ToSet(s) \cup ToSet(t)
  <2>1. \A i \in DOMAIN s : i \in DOMAIN (s \o t) /\ (s \o t)[i] = s[i]
    OBVIOUS
  <2>2. \A i \in DOMAIN t : Len(s) + i \in DOMAIN (s \o t) /\ (s \o t)[Len(s) + i] = t[i]
    OBVIOUS
  <2>3. \A i \in DOMAIN (s \o t) : i \in DOMAIN s \/ (i - Len(s) \in DOMAIN t /\ i = Len(s) + (i - Len(s)))
    OBVIOUS
  <2>4. \A i \in DOMAIN (s \o t) : (s \o t)[i] \in ToSet(s) \cup ToSet(t)
    BY <2>1, <2>2, <2>3 DEF ToSet
  <2>5. ToSet(s \o t) \subseteq ToSet(s) \cup ToSet(t)
    BY <2>4, Zenon DEF ToSet
  <2>6. ToSet(s) \subseteq ToSet(s \o t)
    BY <2>1, Zenon DEF ToSet
  <2>7. ToSet(t) \subseteq ToSet(s \o t)
    BY <2>2, Zenon DEF ToSet
  <2> QED
    BY <2>5, <2>6, <2>7
<1>4. ASSUME NEW S, NEW s \in Seq(S)
      PROVE  ToSet(s) \subseteq S /\ (s # <<>> => Head(s) \in ToSet(s) /\ s[1] \in ToSet(s))
  <2>1. s # <<>> => 1 \in DOMAIN s /\ Head(s) = s[1]
    OBVIOUS
  <2> QED
    BY <2>1 DEF ToSet
<1> QED
  BY <1>1, <1>2, <1>3, <1>4

(* A Room that is put in line joins those in line. *)
LEMMA AddPendingElements ==
  ASSUME NEW p \in Seq(Rooms), NEW r \in Rooms
  PROVE  AddPending(p, r) \in Seq(Rooms) /\ ToSet(AddPending(p, r)) = ToSet(p) \cup {r}
BY Elements DEF AddPending

(* A turn that has just begun in r, for the questions it finds there. *)
NewTurn(new, r) ==
  /\ new \in Run /\ new.room = r /\ new.epoch = epoch /\ new.kind # "trigger"
  /\ new.read = AskedIn(r, incoming') /\ new.held = <<>>

(* Starts begins one turn, and may take a request. *)
LEMMA StartsEffect ==
  ASSUME TypeOK, NEW r \in Rooms, NEW req \in SUBSET Rooms, NEW live,
         incoming' \in Seq(Questions), Starts(r, incoming', req, live)
  PROVE  /\ active' = r
         /\ requested' \in SUBSET req
         /\ \E new : NewTurn(new, r) /\ runs' = live \cup {new}
<1> DEFINE turn(kind) == [kind |-> kind, room |-> r, epoch |-> epoch,
                          phase |-> "preparing", read |-> AskedIn(r, incoming'), held |-> <<>>]
<1>0. AskedIn(r, incoming') \in SUBSET Questions /\ <<>> \in Seq(Questions)
  BY Elements DEF AskedIn
<1>1. \A kind \in {"request", "turn"} : NewTurn(turn(kind), r)
  BY <1>0 DEF NewTurn, Run, TypeOK
<1>2. \E kind \in {"request", "turn"} : runs' = live \cup {turn(kind)}
  <2>1. (IF MayTake(r, incoming', req) THEN {"request", "turn"} ELSE {"turn"}) \subseteq {"request", "turn"}
    OBVIOUS
  <2>2. \E kind \in IF MayTake(r, incoming', req) THEN {"request", "turn"} ELSE {"turn"} :
          runs' = live \cup {turn(kind)}
    BY DEF Starts
  <2> QED
    BY <2>1, <2>2
<1> QED
  BY <1>1, <1>2 DEF Starts

(* TryEvaluate begins a turn in r or, on an Agent that is open, puts r in line. *)
LEMMA TryEffect ==
  ASSUME TypeOK, NEW r \in Rooms, NEW req \in SUBSET Rooms, incoming' \in Seq(Questions),
         TryEvaluate(r, incoming', req)
  PROVE  /\ pending' \in Seq(Rooms) /\ ToSet(pending) \subseteq ToSet(pending')
         /\ requested' \in SUBSET req
         /\ \/ active' = active /\ runs' = runs /\ (closed \/ r \in ToSet(pending'))
            \/ /\ active = NoRoom /\ active' = r
               /\ \E new : NewTurn(new, r) /\ runs' = runs \cup {new}
<1>1. pending \in Seq(Rooms)
  BY DEF TypeOK
<1>2. CASE closed /\ requested' = req /\ UNCHANGED <<active, pending, runs>>
  BY <1>1, <1>2
<1>3. CASE /\ pending' = AddPending(pending, r) /\ requested' = req
           /\ UNCHANGED <<active, runs>>
  BY <1>1, <1>3, AddPendingElements
<1>4. CASE active = NoRoom /\ Starts(r, incoming', req, runs) /\ UNCHANGED pending
  BY <1>1, <1>4, StartsEffect
<1> QED
  BY <1>2, <1>3, <1>4 DEF TryEvaluate

(* The run of this epoch is gone and live remains; the Rooms in queue stay in line, wait
   for a timer, or have the next turn. *)
Hands(live, queue) ==
  /\ \A x \in Rooms : scheduled[x] > 0 => scheduled'[x] > 0
  /\ \/ /\ active' = NoRoom /\ runs' = live
        /\ \A x \in ToSet(queue) : x \in ToSet(pending') \/ scheduled'[x] > 0
     \/ \E next \in Rooms : \E new :
          /\ active' = next /\ NewTurn(new, next) /\ runs' = live \cup {new}
          /\ \A x \in ToSet(queue) : x \in ToSet(pending') \/ x = next

(* Follow hands over to the Rooms in line. *)
LEMMA FollowEffect ==
  ASSUME TypeOK, NEW r, NEW replied \in BOOLEAN, NEW live, NEW queue \in Seq(Rooms),
         replied => \A x \in Rooms : scheduled[x] < MaxTimers,
         incoming' \in Seq(Questions), Follow(r, replied, incoming', live, queue)
  PROVE  /\ pending' \in Seq(Rooms) /\ scheduled' \in [Rooms -> 0 .. MaxTimers]
         /\ waiting' \in BOOLEAN /\ requested' \in SUBSET requested
         /\ Hands(live, queue)
<1> DEFINE next == IF r \in ToSet(queue) THEN r ELSE Head(queue)
<1>1. /\ pending \in Seq(Rooms) /\ scheduled \in [Rooms -> 0 .. MaxTimers] /\ MaxTimers \in Nat
      /\ waiting \in BOOLEAN /\ requested \in SUBSET Rooms
  BY BoundsAssumption DEF TypeOK
<1>2. waiting' \in BOOLEAN
  BY <1>1 DEF Follow, CheckIdle
<1>3. queue # <<>> => next \in Rooms /\ next \in ToSet(queue)
  BY Elements
<1>4. CASE queue = <<>> /\ active' = NoRoom /\ runs' = live /\ UNCHANGED <<pending, scheduled, requested>>
  BY <1>1, <1>2, <1>4, Elements DEF Hands
<1> HIDE DEF next
<1>5. CASE /\ queue # <<>> /\ replied
           /\ active' = NoRoom /\ runs' = live
           /\ pending' = Without(queue, {next})
           /\ scheduled' = [scheduled EXCEPT ![next] = @ + 1]
           /\ UNCHANGED requested
  <2>1. pending' \in Seq(Rooms) /\ ToSet(pending') = ToSet(queue) \ {next}
    BY <1>5, WithoutElements
  <2>2. scheduled[next] \in 0 .. MaxTimers /\ scheduled[next] < MaxTimers
    BY <1>1, <1>3, <1>5
  <2>3. scheduled[next] + 1 \in 0 .. MaxTimers /\ scheduled[next] + 1 > 0
    BY <1>1, <2>2
  <2>4. scheduled' \in [Rooms -> 0 .. MaxTimers] /\ scheduled'[next] > 0
    BY <1>1, <1>3, <1>5, <2>3
  <2>5. \A x \in Rooms : x # next => scheduled'[x] = scheduled[x]
    BY <1>1, <1>5
  <2> QED
    BY <1>1, <1>2, <1>5, <2>1, <2>4, <2>5 DEF Hands
<1>6. CASE /\ queue # <<>>
           /\ pending' = Without(queue, {next})
           /\ Starts(next, incoming', requested, live)
           /\ UNCHANGED scheduled
  <2>1. pending' \in Seq(Rooms) /\ ToSet(pending') = ToSet(queue) \ {next}
    BY <1>6, WithoutElements
  <2>2. /\ active' = next
        /\ requested' \in SUBSET requested
        /\ \E new : NewTurn(new, next) /\ runs' = live \cup {new}
    BY <1>1, <1>3, <1>6, StartsEffect
  <2>3. \A x \in ToSet(queue) : x \in ToSet(pending') \/ x = next
    BY <2>1
  <2> QED
    BY <1>1, <1>2, <1>3, <1>6, <2>1, <2>2, <2>3 DEF Hands
<1> QED
  BY <1>4, <1>5, <1>6 DEF Follow, next

(* A turn in r is in line, in its cooldown, or is there for every question of r. *)
Coming(r) ==
  \/ TurnComing(r)
  \/ \E run \in runs : /\ IsCurrent(run) /\ run.kind # "trigger" /\ run.room = r
                       /\ run.read = AskedIn(r, incoming)

(* The runs that remain and perhaps a new one: when none of the former is of this epoch,
   the latter is the only one. *)
LEMMA CurrentStep ==
  ASSUME TypeOK, CurrentInv, NEW live \in SUBSET runs, \A run \in live : ~IsCurrent(run),
         UNCHANGED epoch,
         \/ active' = NoRoom /\ runs' = live
         \/ \E next \in Rooms : \E new : /\ active' = next /\ new.room = next /\ new.epoch = epoch
                                     /\ runs' = live \cup {new}
  PROVE  CurrentInv'
<1>1. CASE active' = NoRoom /\ runs' = live
  BY <1>1 DEF CurrentInv, IsCurrent
<1>2. ASSUME NEW next \in Rooms, NEW new, active' = next, new.room = next, new.epoch = epoch,
             runs' = live \cup {new}
      PROVE  CurrentInv'
  <2>1. active' # NoRoom
    BY <1>2, RoomsAssumption
  <2>2. \A run \in runs' : run.epoch <= epoch'
    BY <1>2 DEF CurrentInv, TypeOK
  <2>3. \A run \in runs' : IsCurrent(run)' => run = new
    BY <1>2 DEF IsCurrent
  <2>4. new \in runs' /\ IsCurrent(new)' /\ new.room = active'
    BY <1>2 DEF IsCurrent
  <2> QED
    BY <2>1, <2>2, <2>3, <2>4 DEF CurrentInv
<1> QED
  BY <1>1, <1>2

(* Where the new run holds nothing, and nothing is incoming that was not or that a run
   now gone did not hold, every question still lies in one place. *)
LEMMA PlaceStep ==
  ASSUME PlaceInv, NEW live, live \subseteq runs, NEW more, NEW fresh,
         runs' = live \cup more,
         \A run \in more : run.held = <<>>,
         \A run \in live : ToSet(run.held) \cap fresh = {},
         ToSet(incoming') \subseteq ToSet(incoming) \cup fresh
  PROVE  PlaceInv'
<1>1. ToSet(<<>>) = {}
  BY Elements
<1>2. \A run \in more : ToSet(run.held) = {}
  BY <1>1
<1>3. \A run \in runs' : /\ run.kind # "trigger" => run.held = <<>>
                         /\ ToSet(run.held) \cap ToSet(incoming') = {}
  BY <1>2 DEF PlaceInv
<1>4. \A x, y \in runs' : x # y => ToSet(x.held) \cap ToSet(y.held) = {}
  BY <1>2 DEF PlaceInv
<1> QED
  BY <1>3, <1>4 DEF PlaceInv

-----------------------------------------------------------------------------
(* What asks for a turn in r: the new questions N become incoming and open, TryEvaluate
   does the rest, and of the timers only that of r may have gone. *)
LEMMA AskStep ==
  ASSUME IInv, NEW r \in Rooms, NEW N \in SUBSET Questions,
         \A q \in N : status[q] = "unasked" /\ RoomOf[q] = r,
         ToSet(incoming') = ToSet(incoming) \cup N,
         \A q \in Questions : status'[q] = IF q \in N THEN "open" ELSE status[q],
         incoming' \in Seq(Questions),
         NEW req, requested \subseteq req, req \subseteq requested \cup {r},
         TryEvaluate(r, incoming', req),
         \A x \in Rooms : x # r => scheduled'[x] = scheduled[x],
         UNCHANGED <<epoch, closed>>
  PROVE  CurrentInv' /\ PlaceInv' /\ ReadInv' /\ StatusInv' /\ OpenInv' /\ NothingForgotten'
<1> USE DEF IInv
<1>1. /\ pending' \in Seq(Rooms) /\ ToSet(pending) \subseteq ToSet(pending')
      /\ requested' \in SUBSET req
      /\ \/ active' = active /\ runs' = runs /\ (closed \/ r \in ToSet(pending'))
         \/ /\ active = NoRoom /\ active' = r
            /\ \E new : NewTurn(new, r) /\ runs' = runs \cup {new}
  <2>1. req \in SUBSET Rooms
    BY DEF TypeOK
  <2> QED
    BY <2>1, TryEffect
<1>2. \E more : /\ runs' = runs \cup more
                /\ \A run \in more : NewTurn(run, r)
                /\ \/ more = {} /\ active' = active /\ (closed \/ r \in ToSet(pending'))
                   \/ /\ active = NoRoom /\ active' = r
                      /\ \E new : more = {new}
  <2>1. CASE active' = active /\ runs' = runs /\ (closed \/ r \in ToSet(pending'))
    <3> WITNESS {}
    <3> QED
      BY <2>1
  <2>2. ASSUME active = NoRoom, active' = r, NEW new, NewTurn(new, r), runs' = runs \cup {new}
        PROVE  \E more : /\ runs' = runs \cup more
                         /\ \A run \in more : NewTurn(run, r)
                         /\ \/ more = {} /\ active' = active /\ (closed \/ r \in ToSet(pending'))
                            \/ /\ active = NoRoom /\ active' = r
                               /\ \E other : more = {other}
    <3> WITNESS {new}
    <3> QED
      BY <2>2
  <2> QED
    BY <1>1, <2>1, <2>2
<1>3. PICK more : /\ runs' = runs \cup more
                  /\ \A run \in more : NewTurn(run, r)
                  /\ \/ more = {} /\ active' = active /\ (closed \/ r \in ToSet(pending'))
                     \/ /\ active = NoRoom /\ active' = r
                        /\ \E new : more = {new}
  BY <1>2
<1>4. \A run : IsCurrent(run)' <=> IsCurrent(run)
  BY DEF IsCurrent
<1>5. \A run \in more : /\ run.room = r /\ run.epoch = epoch /\ run.kind # "trigger"
                        /\ run.read = AskedIn(r, incoming') /\ run.held = <<>>
                        /\ ToSet(run.held) = {} /\ IsCurrent(run)
  BY <1>3, Elements DEF NewTurn, IsCurrent
<1>6. CurrentInv'
  <2>1. CASE more = {} /\ active' = active
    BY <1>3, <1>4, <2>1 DEF CurrentInv
  <2>2. CASE active = NoRoom /\ active' = r /\ \E new : more = {new}
    <3>1. \A run \in runs : ~IsCurrent(run)
      BY <2>2 DEF CurrentInv
    <3>2. PICK new : more = {new}
      BY <2>2
    <3>3. new.room = r /\ new.epoch = epoch /\ runs' = runs \cup {new}
      BY <1>3, <1>5, <3>2
    <3> QED
      BY <2>2, <3>1, <3>3, CurrentStep
  <2> QED
    BY <1>3, <2>1, <2>2
<1>7. \A run \in runs : ToSet(run.held) \cap N = {}
  BY DEF StatusInv, Held
<1>8. PlaceInv'
  <2>1. \A run \in runs' : run \in runs \/ (run.held = <<>> /\ ToSet(run.held) = {})
    BY <1>3, <1>5
  <2>2. \A run \in runs' : /\ run.kind # "trigger" => run.held = <<>>
                           /\ ToSet(run.held) \cap ToSet(incoming') = {}
    BY <1>7, <2>1 DEF PlaceInv
  <2>3. \A x, y \in runs' : x # y => ToSet(x.held) \cap ToSet(y.held) = {}
    BY <2>1 DEF PlaceInv
  <2> QED
    BY <2>2, <2>3 DEF PlaceInv
<1>9. ReadInv'
  BY <1>3, <1>4, <1>5 DEF ReadInv, AskedIn
<1>10. StatusInv'
  <2>1. AnsweredOnce'
    BY DEF StatusInv, AnsweredOnce
  <2>2. ASSUME NEW q \in Questions, q \in ToSet(incoming') \/ Held(q)'
        PROVE  status'[q] \notin {"unasked", "answered"}
    <3>1. q \in N \/ q \in ToSet(incoming) \/ Held(q)
      BY <1>3, <1>5, <2>2 DEF Held
    <3> QED
      BY <3>1 DEF StatusInv
  <2> QED
    BY <2>1, <2>2 DEF StatusInv
<1>11. OpenInv'
  <2> SUFFICES ASSUME ~closed, NEW q \in Questions, status'[q] = "open"
               PROVE  q \in ToSet(incoming') \/ \E run \in runs' : IsCurrent(run)' /\ run.kind = "trigger" /\ q \in ToSet(run.held)
    BY DEF OpenInv
  <2>1. q \in N \/ status[q] = "open"
    OBVIOUS
  <2> QED
    BY <1>3, <1>4, <2>1 DEF OpenInv
<1>12. ASSUME ~closed PROVE Coming(r)'
  BY <1>3, <1>4, <1>5, <1>12 DEF Coming, TurnComing
<1>13. ASSUME NEW x \in Rooms, ~closed, TurnComing(x) PROVE Coming(x)'
  <2>1. CASE x = r
    BY <1>12, <1>13, <2>1
  <2>2. CASE x # r
    BY <1>1, <1>13, <2>2 DEF Coming, TurnComing
  <2> QED
    BY <2>1, <2>2
<1>14. NothingForgotten'
  <2> SUFFICES ASSUME ~closed
               PROVE  NothingForgotten'
    BY DEF NothingForgotten
  <2>1. ASSUME NEW q \in Questions, status'[q] = "open"
        PROVE  \/ TurnComing(RoomOf[q])'
               \/ \E run \in runs' : IsCurrent(run)' /\ run.kind # "trigger" /\ q \in run.read
    <3>1. RoomOf[q] \in Rooms
      BY RoomsAssumption
    <3>2. CASE Coming(RoomOf[q])'
      <4>1. CASE TurnComing(RoomOf[q])'
        BY <4>1
      <4>2. CASE \E run \in runs' : /\ IsCurrent(run)' /\ run.kind # "trigger"
                                    /\ run.read = AskedIn(RoomOf[q], incoming')
        <5>1. q \in ToSet(incoming')
          BY <1>6, <1>11, <2>1, <4>2 DEF OpenInv, CurrentInv
        <5> QED
          BY <4>2, <5>1 DEF AskedIn
      <4> QED
        BY <3>2, <4>1, <4>2 DEF Coming
    <3>3. CASE q \in N
      BY <1>12, <3>2, <3>3
    <3>4. CASE status[q] = "open"
      <4>1. CASE TurnComing(RoomOf[q])
        BY <1>13, <3>1, <3>2, <4>1
      <4>2. CASE \E run \in runs : IsCurrent(run) /\ run.kind # "trigger" /\ q \in run.read
        BY <1>3, <1>4, <4>2
      <4> QED
        BY <3>4, <4>1, <4>2 DEF NothingForgotten
    <3> QED
      BY <2>1, <3>3, <3>4
  <2>2. ASSUME NEW x \in requested'
        PROVE  \/ TurnComing(x)'
               \/ \E run \in runs' : IsCurrent(run)' /\ run.kind # "trigger" /\ run.room = x
    <3>1. x = r \/ x \in requested
      BY <1>1
    <3>2. x \in Rooms
      BY <3>1 DEF TypeOK
    <3>3. CASE Coming(x)'
      BY <3>3 DEF Coming
    <3>4. CASE x \in requested
      <4>1. CASE TurnComing(x)
        BY <1>13, <3>2, <3>3, <4>1
      <4>2. CASE \E run \in runs : IsCurrent(run) /\ run.kind # "trigger" /\ run.room = x
        BY <1>3, <1>4, <4>2
      <4> QED
        BY <3>4, <4>1, <4>2 DEF NothingForgotten
    <3> QED
      BY <1>12, <3>1, <3>3, <3>4
  <2> QED
    BY <2>1, <2>2 DEF NothingForgotten
<1> QED
  BY <1>6, <1>8, <1>9, <1>10, <1>11, <1>14

(* A run that is not of this epoch, or the only one that is. *)
LEMMA OnlyCurrent ==
  ASSUME CurrentInv, NEW run \in runs, IsCurrent(run)
  PROVE  active = run.room /\ \A other \in runs \ {run} : ~IsCurrent(other)
BY DEF CurrentInv

(* The run of this epoch ends; its questions are answered, reported as failed, or given back. *)
LEMMA EndStep ==
  ASSUME IInv, NEW run \in runs, IsCurrent(run), NEW queue, Hands(runs \ {run}, queue),
         ToSet(pending) \subseteq ToSet(queue),
         requested' \in SUBSET requested,
         run.kind # "trigger" /\ run.room \in requested => run.room \in ToSet(queue),
         incoming' \in Seq(Questions),
         ToSet(incoming') \subseteq ToSet(incoming) \cup ToSet(run.held),
         \A q \in Questions : status'[q] # "repeated",
         \A q \in ToSet(incoming') \cup UNION {ToSet(other.held) : other \in runs \ {run}} :
            status'[q] \in {status[q], "failed"},
         \A q \in Questions : status'[q] = "open" =>
            /\ status[q] = "open"
            /\ q \in ToSet(incoming) \/ (run.kind = "trigger" /\ q \in ToSet(run.held)) => q \in ToSet(incoming')
            /\ \/ TurnComing(RoomOf[q])
               \/ run.kind = "trigger"
               \/ closed,
         UNCHANGED <<epoch, closed>>
  PROVE  CurrentInv' /\ PlaceInv' /\ ReadInv' /\ StatusInv' /\ OpenInv' /\ NothingForgotten'
<1> USE DEF IInv
<1> DEFINE live == runs \ {run}
<1>1. \A other \in live : ~IsCurrent(other)
  BY OnlyCurrent
<1>2. \A x : IsCurrent(x)' <=> IsCurrent(x)
  BY DEF IsCurrent
<1>0. \E more : /\ runs' = live \cup more
                  /\ \A new \in more : /\ IsCurrent(new) /\ new.kind # "trigger"
                                       /\ new.read = AskedIn(new.room, incoming')
                                       /\ new.held = <<>> /\ ToSet(new.held) = {}
  <2>1. ASSUME runs' = live
        PROVE  /\ runs' = live \cup {}
               /\ \A new \in {} : /\ IsCurrent(new) /\ new.kind # "trigger"
                                  /\ new.read = AskedIn(new.room, incoming')
                                  /\ new.held = <<>> /\ ToSet(new.held) = {}
    BY <2>1
  <2>2. ASSUME NEW next \in Rooms, NEW new, NewTurn(new, next), runs' = live \cup {new}
        PROVE  \E more : /\ runs' = live \cup more
                         /\ \A x \in more : /\ IsCurrent(x) /\ x.kind # "trigger"
                                            /\ x.read = AskedIn(x.room, incoming')
                                            /\ x.held = <<>> /\ ToSet(x.held) = {}
    <3> WITNESS {new}
    <3> QED
      BY <2>2, Elements DEF NewTurn, IsCurrent
  <2> QED
    BY <2>1, <2>2 DEF Hands
<1>3. PICK more : /\ runs' = live \cup more
                  /\ \A new \in more : /\ IsCurrent(new) /\ new.kind # "trigger"
                                       /\ new.read = AskedIn(new.room, incoming')
                                       /\ new.held = <<>> /\ ToSet(new.held) = {}
  BY <1>0
<1>4. CurrentInv'
  <2>1. live \in SUBSET runs
    OBVIOUS
  <2>2. \/ active' = NoRoom /\ runs' = live
        \/ \E next \in Rooms : \E new : /\ active' = next /\ new.room = next /\ new.epoch = epoch
                                    /\ runs' = live \cup {new}
    BY DEF Hands, NewTurn
  <2> QED
    BY <1>1, <2>1, <2>2, CurrentStep
<1>5. PlaceInv'
  <2>1. live \subseteq runs /\ \A new \in more : new.held = <<>>
    BY <1>3
  <2>2. \A other \in live : ToSet(other.held) \cap ToSet(run.held) = {}
    BY DEF PlaceInv
  <2> QED
    BY <1>3, <2>1, <2>2, PlaceStep
<1>6. ReadInv'
  BY <1>1, <1>2, <1>3 DEF ReadInv
<1>7. StatusInv'
  <2>1. AnsweredOnce'
    BY DEF AnsweredOnce
  <2>2. ASSUME NEW q \in Questions, q \in ToSet(incoming') \/ Held(q)'
        PROVE  status'[q] \notin {"unasked", "answered"}
    <3>1. q \in ToSet(incoming') \/ \E other \in live : q \in ToSet(other.held)
      BY <1>3, <2>2 DEF Held
    <3>2. q \in ToSet(incoming) \/ Held(q)
      BY <3>1 DEF Held
    <3>3. status'[q] \in {status[q], "failed"}
      BY <3>1
    <3> QED
      BY <3>2, <3>3 DEF StatusInv
  <2> QED
    BY <2>1, <2>2 DEF StatusInv
<1>8. OpenInv'
  <2> SUFFICES ASSUME ~closed, NEW q \in Questions, status'[q] = "open"
               PROVE  q \in ToSet(incoming')
    BY DEF OpenInv
  <2>1. q \in ToSet(incoming) \/ \E x \in runs : IsCurrent(x) /\ x.kind = "trigger" /\ q \in ToSet(x.held)
    BY DEF OpenInv
  <2> QED
    BY <1>1, <2>1
<1>9. ASSUME NEW x \in Rooms, x \in ToSet(queue) \/ TurnComing(x) PROVE Coming(x)'
  <2>1. x \in ToSet(queue) \/ scheduled'[x] > 0
    BY <1>9 DEF TurnComing, Hands
  <2>2. CASE scheduled'[x] > 0
    BY <2>2 DEF Coming, TurnComing
  <2>3. CASE x \in ToSet(queue)
    <3>1. CASE x \in ToSet(pending') \/ scheduled'[x] > 0
      BY <3>1 DEF Coming, TurnComing
    <3>2. ASSUME NEW new, NewTurn(new, x), runs' = live \cup {new}
          PROVE  Coming(x)'
      BY <1>2, <3>2 DEF Coming, NewTurn, IsCurrent
    <3> QED
      BY <2>3, <3>1, <3>2 DEF Hands
  <2> QED
    BY <2>1, <2>2, <2>3
<1>10. NothingForgotten'
  <2> SUFFICES ASSUME ~closed
               PROVE  NothingForgotten'
    BY DEF NothingForgotten
  <2>1. ASSUME NEW q \in Questions, status'[q] = "open"
        PROVE  Coming(RoomOf[q])'
    <3>1. TurnComing(RoomOf[q])
      <4>1. CASE run.kind = "trigger"
        BY <1>1, <2>1, <4>1 DEF NothingForgotten
      <4>2. CASE run.kind # "trigger"
        BY <2>1, <4>2
      <4> QED
        BY <4>1, <4>2
    <3>2. RoomOf[q] \in Rooms
      BY RoomsAssumption
    <3> QED
      BY <1>9, <3>1, <3>2
  <2>2. ASSUME NEW x \in requested'
        PROVE  Coming(x)'
    <3>1. x \in requested /\ x \in Rooms
      BY DEF TypeOK
    <3>2. TurnComing(x) \/ (run.kind # "trigger" /\ run.room = x)
      BY <1>1, <3>1 DEF NothingForgotten
    <3> QED
      BY <1>9, <3>1, <3>2
  <2>3. ASSUME NEW q \in Questions, status'[q] = "open"
        PROVE  \/ TurnComing(RoomOf[q])'
               \/ \E x \in runs' : IsCurrent(x)' /\ x.kind # "trigger" /\ q \in x.read
    <3>1. CASE TurnComing(RoomOf[q])'
      BY <3>1
    <3>2. CASE \E x \in runs' : /\ IsCurrent(x)' /\ x.kind # "trigger"
                                /\ x.read = AskedIn(RoomOf[q], incoming')
      <4>1. q \in ToSet(incoming')
        BY <1>4, <1>8, <2>3, <3>2 DEF OpenInv, CurrentInv
      <4> QED
        BY <3>2, <4>1 DEF AskedIn
    <3> QED
      BY <2>1, <2>3, <3>1, <3>2 DEF Coming
  <2> QED
    BY <2>2, <2>3 DEF NothingForgotten, Coming
<1> QED
  BY <1>4, <1>5, <1>6, <1>7, <1>8, <1>10

Rest == CurrentInv /\ PlaceInv /\ ReadInv /\ StatusInv /\ OpenInv /\ NothingForgotten

(* The types that a request for a turn keeps. *)
LEMMA AskTypes ==
  ASSUME TypeOK, NEW r \in Rooms, NEW req \in SUBSET Rooms, incoming' \in Seq(Questions),
         TryEvaluate(r, incoming', req)
  PROVE  /\ active' \in Rooms \cup {NoRoom} /\ pending' \in Seq(Rooms)
         /\ requested' \subseteq Rooms /\ \A run \in runs' : run \in Run
<1>1. /\ pending' \in Seq(Rooms) /\ requested' \in SUBSET req
      /\ \/ active' = active /\ runs' = runs
         \/ active' = r /\ \E new : NewTurn(new, r) /\ runs' = runs \cup {new}
  BY TryEffect
<1> QED
  BY <1>1 DEF TypeOK, NewTurn

LEMMA ReceiveKeeps ==
  ASSUME IInv, NEW q \in Questions, Receive(q)
  PROVE  IInv'
<1> USE DEF Receive
<1>1. RoomOf[q] \in Rooms /\ TypeOK
  BY RoomsAssumption DEF IInv
<1>2. incoming' \in Seq(Questions) /\ ToSet(incoming') = ToSet(incoming) \cup {q}
  BY <1>1, Elements DEF TypeOK
<1>3. \A p \in Questions : status'[p] = IF p \in {q} THEN "open" ELSE status[p]
  BY <1>1 DEF TypeOK
<1>4. TypeOK'
  <2>1. requested \in SUBSET Rooms
    BY <1>1 DEF TypeOK
  <2>2. /\ active' \in Rooms \cup {NoRoom} /\ pending' \in Seq(Rooms)
        /\ requested' \subseteq Rooms /\ \A run \in runs' : run \in Run
    BY <1>1, <1>2, <2>1, AskTypes
  <2> QED
    BY <1>1, <1>2, <2>2 DEF TypeOK
<1>5. Rest'
  <2>1. /\ {q} \in SUBSET Questions
        /\ \A p \in {q} : status[p] = "unasked" /\ RoomOf[p] = RoomOf[q]
        /\ ToSet(incoming') = ToSet(incoming) \cup {q} /\ incoming' \in Seq(Questions)
        /\ TryEvaluate(RoomOf[q], incoming', requested)
        /\ UNCHANGED <<epoch, closed>>
        /\ \A x \in Rooms : x # RoomOf[q] => scheduled'[x] = scheduled[x]
        /\ requested \subseteq requested /\ requested \subseteq requested \cup {RoomOf[q]}
    BY <1>2
  <2> QED
    BY <1>1, <1>3, <2>1, AskStep DEF Rest
<1> QED
  BY <1>4, <1>5 DEF IInv, Rest

(* The requests for a turn without a question. *)
LEMMA NudgeStep ==
  ASSUME IInv, NEW r \in Rooms, NEW req, requested \subseteq req, req \subseteq requested \cup {r},
         TryEvaluate(r, incoming, req),
         \A x \in Rooms : x # r => scheduled'[x] = scheduled[x],
         UNCHANGED <<epoch, closed, incoming, status>>
  PROVE  Rest'
<1>1. /\ {} \in SUBSET Questions
      /\ \A q \in {} : status[q] = "unasked" /\ RoomOf[q] = r
      /\ ToSet(incoming') = ToSet(incoming) \cup {}
      /\ \A q \in Questions : status'[q] = IF q \in {} THEN "open" ELSE status[q]
      /\ TryEvaluate(r, incoming', req) /\ incoming' \in Seq(Questions)
  BY DEF IInv, TypeOK
<1> QED
  BY <1>1, AskStep DEF Rest

(* What has happened less often than it may can happen once more. *)
LEMMA Counted ==
  ASSUME used \in Used
  PROVE  /\ used.nudges < MaxNudges => [used EXCEPT !.nudges = @ + 1] \in Used
         /\ used.requests < MaxRequests => [used EXCEPT !.requests = @ + 1] \in Used
         /\ used.throws < MaxThrows => [used EXCEPT !.throws = @ + 1] \in Used
<1>1. \A bound \in Nat : \A n \in 0 .. bound : n < bound => n + 1 \in 0 .. bound
  OBVIOUS
<1>2. used.nudges < MaxNudges => used.nudges + 1 \in 0 .. MaxNudges
  BY <1>1, BoundsAssumption DEF Used
<1>3. used.requests < MaxRequests => used.requests + 1 \in 0 .. MaxRequests
  BY <1>1, BoundsAssumption DEF Used
<1>4. used.throws < MaxThrows => used.throws + 1 \in 0 .. MaxThrows
  BY <1>1, BoundsAssumption DEF Used
<1> QED
  BY <1>2, <1>3, <1>4 DEF Used

LEMMA RequestTurnKeeps ==
  ASSUME IInv, NEW r \in Rooms, RequestTurn(r)
  PROVE  IInv'
<1> USE DEF RequestTurn
<1>1. TypeOK
  BY DEF IInv
<1>2. requested \cup {r} \in SUBSET Rooms
  BY <1>1 DEF TypeOK
<1>3. used' \in Used
  BY <1>1, Counted DEF TypeOK
<1>4. TypeOK'
  BY <1>1, <1>2, <1>3, AskTypes DEF TypeOK
<1>5. Rest'
  <2>1. requested \subseteq requested \cup {r} /\ requested \cup {r} \subseteq requested \cup {r}
    OBVIOUS
  <2>2. /\ TryEvaluate(r, incoming, requested \cup {r})
        /\ UNCHANGED <<epoch, closed, incoming, status, scheduled>>
    OBVIOUS
  <2> QED
    BY <2>1, <2>2, NudgeStep
<1> QED
  BY <1>4, <1>5 DEF IInv, Rest

LEMMA ForceEvaluateKeeps ==
  ASSUME IInv, NEW r \in Rooms, ForceEvaluate(r)
  PROVE  IInv'
<1> USE DEF ForceEvaluate
<1>1. TypeOK
  BY DEF IInv
<1>2. requested \in SUBSET Rooms
  BY <1>1 DEF TypeOK
<1>3. used' \in Used
  BY <1>1, Counted DEF TypeOK
<1>4. TypeOK'
  BY <1>1, <1>2, <1>3, AskTypes DEF TypeOK
<1>5. Rest'
  <2>1. requested \subseteq requested /\ requested \subseteq requested \cup {r}
    OBVIOUS
  <2>2. /\ TryEvaluate(r, incoming, requested)
        /\ UNCHANGED <<epoch, closed, incoming, status, scheduled>>
    OBVIOUS
  <2> QED
    BY <2>1, <2>2, NudgeStep
<1> QED
  BY <1>4, <1>5 DEF IInv, Rest

LEMMA TimerFiresKeeps ==
  ASSUME IInv, NEW r \in Rooms, TimerFires(r)
  PROVE  IInv'
<1> USE DEF TimerFires
<1>1. TypeOK
  BY DEF IInv
<1>2. requested \in SUBSET Rooms
  BY <1>1 DEF TypeOK
<1>3. /\ scheduled' \in [Rooms -> 0 .. MaxTimers]
      /\ \A x \in Rooms : x # r => scheduled'[x] = scheduled[x]
  BY <1>1, BoundsAssumption DEF TypeOK
<1>4. waiting' \in BOOLEAN
  BY <1>1 DEF TypeOK, CheckIdle
<1>5. TypeOK'
  BY <1>1, <1>2, <1>3, <1>4, AskTypes DEF TypeOK
<1>6. Rest'
  <2>1. requested \subseteq requested /\ requested \subseteq requested \cup {r}
    OBVIOUS
  <2>2. /\ TryEvaluate(r, incoming, requested)
        /\ UNCHANGED <<epoch, closed, incoming, status>>
    OBVIOUS
  <2> QED
    BY <1>3, <2>1, <2>2, NudgeStep
<1> QED
  BY <1>5, <1>6 DEF IInv, Rest

-----------------------------------------------------------------------------
(* The queue of a turn that ends. *)
LEMMA QueueElements ==
  ASSUME TypeOK, NEW run \in runs
  PROVE  LET queue == IF run.room \in requested THEN AddPending(pending, run.room) ELSE pending
         IN  /\ queue \in Seq(Rooms) /\ ToSet(pending) \subseteq ToSet(queue)
             /\ run.room \in requested => run.room \in ToSet(queue)
<1>1. pending \in Seq(Rooms) /\ run.room \in Rooms
  BY DEF TypeOK, Run
<1> QED
  BY <1>1, AddPendingElements

(* What the end of a turn keeps of the types, and to whom it hands over. *)
LEMMA FollowedStep ==
  ASSUME TypeOK, NEW run \in runs, NEW replied \in BOOLEAN,
         replied => \A x \in Rooms : scheduled[x] < MaxTimers,
         incoming' \in Seq(Questions), Followed(run, replied, incoming')
  PROVE  /\ pending' \in Seq(Rooms) /\ scheduled' \in [Rooms -> 0 .. MaxTimers]
         /\ waiting' \in BOOLEAN /\ requested' \in SUBSET requested
         /\ active' \in Rooms \cup {NoRoom} /\ \A x \in runs' : x \in Run
         /\ \E queue : /\ Hands(runs \ {run}, queue) /\ ToSet(pending) \subseteq ToSet(queue)
                       /\ run.room \in requested => run.room \in ToSet(queue)
<1> DEFINE queue == IF run.room \in requested THEN AddPending(pending, run.room) ELSE pending
<1>1. /\ queue \in Seq(Rooms) /\ ToSet(pending) \subseteq ToSet(queue)
      /\ run.room \in requested => run.room \in ToSet(queue)
  BY QueueElements
<1>2. Follow(run.room, replied, incoming', runs \ {run}, queue)
  BY DEF Followed
<1> HIDE DEF queue
<1>3. /\ pending' \in Seq(Rooms) /\ scheduled' \in [Rooms -> 0 .. MaxTimers]
      /\ waiting' \in BOOLEAN /\ requested' \in SUBSET requested
      /\ Hands(runs \ {run}, queue)
  BY <1>1, <1>2, FollowEffect
<1>4. active' \in Rooms \cup {NoRoom} /\ \A x \in runs' : x \in Run
  BY <1>3 DEF TypeOK, NewTurn, Hands
<1> QED
  BY <1>1, <1>3, <1>4

(* A turn ends, having answered what it was there for, or reported it as failed. *)
LEMMA TurnOver ==
  ASSUME IInv, NEW run \in runs, IsCurrent(run), run.kind # "trigger", NEW replied \in BOOLEAN,
         replied => \A x \in Rooms : scheduled[x] < MaxTimers,
         incoming' \in Seq(Questions), Followed(run, replied, incoming'),
         ToSet(incoming) \ run.read \subseteq ToSet(incoming'),
         ToSet(incoming') \subseteq ToSet(incoming),
         status' \in [Questions -> {"unasked", "open", "answered", "failed", "cancelled", "repeated"}],
         \A q \in Questions : q \notin run.read => status'[q] = status[q],
         \A q \in run.read : /\ status'[q] \notin {"open", "repeated"}
                             /\ q \in ToSet(incoming') => status'[q] \in {status[q], "failed"},
         used' \in Used, UNCHANGED <<epoch, closed>>
  PROVE  IInv'
<1>1. TypeOK /\ run \in Run
  BY DEF IInv, TypeOK
<1>2. /\ pending' \in Seq(Rooms) /\ scheduled' \in [Rooms -> 0 .. MaxTimers]
      /\ waiting' \in BOOLEAN /\ requested' \in SUBSET requested
      /\ active' \in Rooms \cup {NoRoom} /\ \A x \in runs' : x \in Run
      /\ \E queue : /\ Hands(runs \ {run}, queue) /\ ToSet(pending) \subseteq ToSet(queue)
                    /\ run.room \in requested => run.room \in ToSet(queue)
  BY <1>1, FollowedStep
<1>3. run.read \subseteq ToSet(incoming) /\ run.read \subseteq Questions
  BY <1>1 DEF IInv, ReadInv, AskedIn, Run
<1>4. TypeOK'
  BY <1>1, <1>2 DEF TypeOK
<1> DEFINE kept(q) == q \notin run.read /\ status'[q] = status[q]
           told(q) == /\ q \in run.read /\ status'[q] \notin {"open", "repeated"}
                      /\ q \in ToSet(incoming') => status'[q] \in {status[q], "failed"}
<1>5. ASSUME NEW q \in Questions PROVE kept(q) \/ told(q)
  <2>1. CASE q \in run.read
    <3>1. status'[q] \notin {"open", "repeated"}
      BY <2>1
    <3>2. q \in ToSet(incoming') => status'[q] \in {status[q], "failed"}
      BY <2>1
    <3> QED
      BY <2>1, <3>1, <3>2
  <2>2. CASE q \notin run.read
    BY <2>2
  <2> QED
    BY <2>1, <2>2
<1> HIDE DEF kept, told
<1>6. Rest'
  <2>1. PICK queue : /\ Hands(runs \ {run}, queue) /\ ToSet(pending) \subseteq ToSet(queue)
                     /\ run.room \in requested => run.room \in ToSet(queue)
    BY <1>2
  <2>2. \A q \in Questions : status'[q] # "repeated"
    BY <1>5 DEF kept, told, IInv, StatusInv, AnsweredOnce
  <2>3. \A q \in ToSet(incoming') \cup UNION {ToSet(other.held) : other \in runs \ {run}} :
           status'[q] \in {status[q], "failed"}
    <3>1. ASSUME NEW q \in ToSet(incoming')
          PROVE  status'[q] \in {status[q], "failed"}
      <4>1. q \in Questions
        BY Elements
      <4> QED
        BY <1>5, <4>1 DEF kept, told
    <3>2. ASSUME NEW other \in runs, NEW q \in ToSet(other.held)
          PROVE  status'[q] \in {status[q], "failed"}
      <4>1. q \in Questions
        BY <1>1, Elements DEF TypeOK, Run
      <4>2. q \notin run.read
        BY <1>3 DEF IInv, PlaceInv
      <4> QED
        BY <1>5, <4>1, <4>2 DEF kept, told
    <3> QED
      BY <3>1, <3>2
  <2>4. ASSUME NEW q \in Questions, status'[q] = "open"
        PROVE  /\ status[q] = "open"
               /\ q \in ToSet(incoming) \/ (run.kind = "trigger" /\ q \in ToSet(run.held)) => q \in ToSet(incoming')
               /\ TurnComing(RoomOf[q]) \/ run.kind = "trigger" \/ closed
    <3>1. q \notin run.read /\ status[q] = "open"
      BY <1>5, <2>4 DEF kept, told
    <3>2. \A other \in runs \ {run} : ~IsCurrent(other)
      BY OnlyCurrent DEF IInv
    <3>3. TurnComing(RoomOf[q]) \/ closed
      BY <3>1, <3>2 DEF IInv, NothingForgotten
    <3> QED
      BY <3>1, <3>3
  <2>5. ToSet(incoming') \subseteq ToSet(incoming) \cup ToSet(run.held)
    OBVIOUS
  <2> QED
    BY <1>2, <2>1, <2>2, <2>3, <2>4, <2>5, EndStep DEF Rest
<1> QED
  BY <1>4, <1>6 DEF IInv, Rest

(* What a turn has read lies among the incoming questions, unanswered; flushed, it is gone. *)
LEMMA FlushEffect ==
  ASSUME IInv, NEW run \in runs, IsCurrent(run)
  PROVE  /\ Without(incoming, run.read) \in Seq(Questions)
         /\ ToSet(Without(incoming, run.read)) = ToSet(incoming) \ run.read
         /\ run.read \subseteq Questions
         /\ \A q \in run.read : status[q] \notin {"answered", "repeated"}
<1>1. incoming \in Seq(Questions) /\ run \in Run
  BY DEF IInv, TypeOK
<1>2. run.read \subseteq ToSet(incoming) /\ run.read \subseteq Questions
  BY <1>1 DEF IInv, ReadInv, AskedIn, Run
<1>3. \A q \in run.read : status[q] \notin {"answered", "repeated"}
  BY <1>2 DEF IInv, StatusInv, AnsweredOnce
<1> QED
  BY <1>1, <1>2, <1>3, WithoutElements

(* A question that is reported as failed was open. *)
LEMMA ReportedEffect ==
  ASSUME IInv, NEW run \in runs, IsCurrent(run), status' = Reported(run.read)
  PROVE  /\ status' \in [Questions -> {"unasked", "open", "answered", "failed", "cancelled", "repeated"}]
         /\ \A q \in Questions : q \notin run.read => status'[q] = status[q]
         /\ \A q \in run.read : /\ status'[q] \notin {"open", "repeated"}
                                /\ status'[q] \in {status[q], "failed"}
<1>1. TypeOK /\ run.read \subseteq Questions /\ \A q \in run.read : status[q] \notin {"answered", "repeated"}
  BY FlushEffect DEF IInv
<1> QED
  BY <1>1 DEF Reported, TypeOK

LEMMA TurnEndsKeeps ==
  ASSUME IInv, NEW run \in runs, NEW replied \in BOOLEAN, TurnEnds(run, replied)
  PROVE  IInv'
<1> USE DEF TurnEnds
<1>1. TypeOK
  BY DEF IInv
<1>2. /\ incoming' \in Seq(Questions) /\ ToSet(incoming') = ToSet(incoming) \ run.read
      /\ run.read \subseteq Questions
      /\ \A q \in run.read : status[q] \notin {"answered", "repeated"}
  BY FlushEffect
<1>3. /\ status' \in [Questions -> {"unasked", "open", "answered", "failed", "cancelled", "repeated"}]
      /\ \A q \in Questions : q \notin run.read => status'[q] = status[q]
      /\ \A q \in run.read : status'[q] = "answered"
  BY <1>1, <1>2 DEF TypeOK, Answered
<1>4. /\ Followed(run, replied, incoming') /\ IsCurrent(run) /\ run.kind # "trigger"
      /\ replied => \A x \in Rooms : scheduled[x] < MaxTimers
      /\ used' \in Used /\ UNCHANGED <<epoch, closed>>
  BY <1>1 DEF TypeOK
<1> HIDE DEF TurnEnds
<1> QED
  BY <1>2, <1>3, <1>4, TurnOver

LEMMA TurnThrowsKeeps ==
  ASSUME IInv, NEW run \in runs, TurnThrows(run)
  PROVE  IInv'
<1> USE DEF TurnThrows
<1>1. TypeOK
  BY DEF IInv
<1>2. /\ status' \in [Questions -> {"unasked", "open", "answered", "failed", "cancelled", "repeated"}]
      /\ \A q \in Questions : q \notin run.read => status'[q] = status[q]
      /\ \A q \in run.read : /\ status'[q] \notin {"open", "repeated"}
                             /\ status'[q] \in {status[q], "failed"}
  BY ReportedEffect
<1>3. /\ Followed(run, FALSE, incoming') /\ IsCurrent(run) /\ run.kind # "trigger"
      /\ incoming' \in Seq(Questions) /\ incoming' = incoming /\ UNCHANGED <<epoch, closed>>
  BY <1>1 DEF TypeOK
<1>4. used' \in Used
  BY <1>1, Counted DEF TypeOK
<1> HIDE DEF TurnThrows
<1> QED
  BY <1>2, <1>3, <1>4, TurnOver

LEMMA DecisionThrowsKeeps ==
  ASSUME IInv, NEW run \in runs, NEW replied \in BOOLEAN, DecisionThrows(run, replied)
  PROVE  IInv'
<1> USE DEF DecisionThrows
<1>1. TypeOK
  BY DEF IInv
<1>2. /\ incoming' \in Seq(Questions) /\ ToSet(incoming') = ToSet(incoming) \ run.read
  BY FlushEffect
<1>3. /\ status' \in [Questions -> {"unasked", "open", "answered", "failed", "cancelled", "repeated"}]
      /\ \A q \in Questions : q \notin run.read => status'[q] = status[q]
      /\ \A q \in run.read : status'[q] \notin {"open", "repeated"}
  BY ReportedEffect
<1>4. /\ Followed(run, replied, incoming') /\ IsCurrent(run) /\ run.kind # "trigger"
      /\ replied => \A x \in Rooms : scheduled[x] < MaxTimers
      /\ UNCHANGED <<epoch, closed>>
  OBVIOUS
<1>5. used' \in Used
  BY <1>1, Counted DEF TypeOK
<1> HIDE DEF DecisionThrows
<1> QED
  BY <1>2, <1>3, <1>4, <1>5, TurnOver

LEMMA TriggerEndsKeeps ==
  ASSUME IInv, NEW run \in runs, TriggerEnds(run)
  PROVE  IInv'
<1> USE DEF TriggerEnds
<1> DEFINE asked == run.held \o incoming
           next == IF pending # <<>> THEN Head(pending)
                   ELSE IF asked # <<>> THEN RoomOf[asked[1]] ELSE NoRoom
<1>1. TypeOK /\ run \in Run
  BY DEF IInv, TypeOK
<1>2. /\ pending \in Seq(Rooms) /\ scheduled \in [Rooms -> 0 .. MaxTimers] /\ waiting \in BOOLEAN
      /\ incoming \in Seq(Questions) /\ run.held \in Seq(Questions) /\ requested \in SUBSET Rooms
  BY <1>1 DEF TypeOK, Run
<1>3. asked \in Seq(Questions) /\ ToSet(asked) = ToSet(run.held) \cup ToSet(incoming)
  BY <1>2, Elements
<1>4. next # NoRoom => next \in Rooms
  BY <1>2, <1>3, RoomsAssumption
<1>5. incoming' = asked
  OBVIOUS
<1>6. ASSUME active' = NoRoom, runs' = runs \ {run}, UNCHANGED <<pending, requested>>
      PROVE  Hands(runs \ {run}, pending) /\ TypeOK' /\ requested' \in SUBSET requested
  <2>1. Hands(runs \ {run}, pending)
    BY <1>6 DEF Hands
  <2>2. TypeOK'
    BY <1>1, <1>2, <1>3, <1>5, <1>6 DEF TypeOK, CheckIdle
  <2> QED
    BY <2>1, <2>2, <1>6
<1> HIDE DEF asked, next
<1>7. ASSUME next # NoRoom, pending' = Without(pending, {next}),
             Starts(next, incoming', requested, runs \ {run})
      PROVE  Hands(runs \ {run}, pending) /\ TypeOK' /\ requested' \in SUBSET requested
  <2> DEFINE live == runs \ {run}
  <2> HIDE DEF live
  <2>0. Starts(next, incoming', requested, live) /\ incoming' \in Seq(Questions)
    BY <1>3, <1>5, <1>7 DEF live
  <2>1. pending' \in Seq(Rooms) /\ ToSet(pending') = ToSet(pending) \ {next}
    BY <1>2, <1>7, WithoutElements
  <2>2. /\ active' = next
        /\ requested' \in SUBSET requested
        /\ \E new : NewTurn(new, next) /\ runs' = live \cup {new}
    BY <1>1, <1>2, <1>4, <1>7, <2>0, StartsEffect
  <2>3. \A x \in ToSet(pending) : x \in ToSet(pending') \/ x = next
    BY <2>1
  <2>4. \A x \in Rooms : scheduled[x] > 0 => scheduled'[x] > 0
    OBVIOUS
  <2>5. Hands(live, pending)
    BY <1>4, <1>7, <2>2, <2>3, <2>4 DEF Hands
  <2>6. \A x \in runs' : x \in Run
    BY <1>1, <2>2 DEF NewTurn, TypeOK, live
  <2>7. waiting' \in BOOLEAN
    BY <1>2 DEF CheckIdle
  <2>8. TypeOK'
    BY <1>1, <1>2, <1>3, <1>4, <1>5, <1>7, <2>1, <2>2, <2>6, <2>7 DEF TypeOK
  <2> QED
    BY <2>2, <2>5, <2>8 DEF live
<1>8. Hands(runs \ {run}, pending) /\ TypeOK' /\ requested' \in SUBSET requested
  <2>1. CASE next = NoRoom \/ closed
    BY <1>2, <1>6, <2>1 DEF next, asked
  <2>2. CASE ~(next = NoRoom \/ closed)
    BY <1>2, <1>7, <2>2 DEF next, asked
  <2> QED
    BY <2>1, <2>2
<1>9. Rest'
  <2>1. \A q \in Questions : status'[q] # "repeated"
    BY DEF IInv, StatusInv, AnsweredOnce
  <2>2. \A q \in ToSet(incoming') \cup UNION {ToSet(other.held) : other \in runs \ {run}} :
           status'[q] \in {status[q], "failed"}
    OBVIOUS
  <2>3. \A q \in Questions : status'[q] = "open" =>
           /\ status[q] = "open"
           /\ q \in ToSet(incoming) \/ (run.kind = "trigger" /\ q \in ToSet(run.held)) => q \in ToSet(incoming')
           /\ TurnComing(RoomOf[q]) \/ run.kind = "trigger" \/ closed
    BY <1>3, <1>5
  <2>4. ToSet(incoming') \subseteq ToSet(incoming) \cup ToSet(run.held) /\ incoming' \in Seq(Questions)
    BY <1>3, <1>5
  <2>5. /\ IsCurrent(run) /\ UNCHANGED <<epoch, closed>> /\ ToSet(pending) \subseteq ToSet(pending)
        /\ run.kind # "trigger" /\ run.room \in requested => run.room \in ToSet(pending)
    OBVIOUS
  <2> QED
    BY <1>8, <2>1, <2>2, <2>3, <2>4, <2>5, EndStep DEF Rest
<1> QED
  BY <1>8, <1>9 DEF IInv, Rest

LEMMA FireTriggerKeeps ==
  ASSUME IInv, NEW r \in Rooms, FireTrigger(r)
  PROVE  IInv'
<1> USE DEF FireTrigger
<1> DEFINE new == [kind |-> "trigger", room |-> r, epoch |-> epoch,
                   phase |-> "preparing", read |-> {}, held |-> incoming]
<1>1. TypeOK /\ \A run \in runs : ~IsCurrent(run)
  BY DEF IInv, CurrentInv
<1>2. /\ new \in Run /\ new.kind = "trigger" /\ new.room = r /\ new.epoch = epoch /\ IsCurrent(new)
      /\ new.phase = "preparing" /\ new.read = {} /\ new.held = incoming
  BY <1>1 DEF TypeOK, Run, IsCurrent
<1>3. \/ closed /\ UNCHANGED <<active, runs>>
      \/ ~closed /\ active' = r /\ runs' = runs \cup {new}
  OBVIOUS
<1> HIDE DEF new
<1>4. \A x : IsCurrent(x)' <=> IsCurrent(x)
  BY DEF IsCurrent
<1>5. TypeOK'
  <2>1. used' \in Used
    BY <1>1, Counted DEF TypeOK
  <2> QED
    BY <1>1, <1>2, <1>3, <2>1 DEF TypeOK
<1>6. CurrentInv'
  <2>1. CASE UNCHANGED <<active, runs>>
    BY <1>4, <2>1 DEF IInv, CurrentInv
  <2>2. CASE active' = r /\ runs' = runs \cup {new}
    BY <1>1, <1>2, <2>2, CurrentStep DEF IInv
  <2> QED
    BY <1>3, <2>1, <2>2
<1>7. ToSet(incoming') = {}
  BY Elements
<1>8. PlaceInv'
  BY <1>2, <1>3, <1>7 DEF IInv, PlaceInv
<1>9. ReadInv'
  BY <1>1, <1>2, <1>3, <1>4 DEF IInv, ReadInv, AskedIn
<1>10. StatusInv'
  BY <1>2, <1>3, <1>7 DEF IInv, StatusInv, Held, AnsweredOnce
<1>11. OpenInv'
  BY <1>1, <1>2, <1>3, <1>4 DEF IInv, OpenInv
<1>12. NothingForgotten'
  BY <1>1 DEF IInv, NothingForgotten, TurnComing
<1> QED
  BY <1>5, <1>6, <1>8, <1>9, <1>10, <1>11, <1>12 DEF IInv

LEMMA PreparedKeeps ==
  ASSUME IInv, NEW run \in runs, Prepared(run)
  PROVE  IInv'
<1> USE DEF Prepared
<1> DEFINE new == [run EXCEPT !.phase = "evaluating",
                              !.read = IF run.kind = "trigger" THEN {}
                                       ELSE AskedIn(run.room, incoming)]
<1>1. TypeOK /\ run \in Run /\ \A other \in runs \ {run} : ~IsCurrent(other)
  BY OnlyCurrent DEF IInv, TypeOK
<1>2. incoming \in Seq(Questions) /\ ToSet(incoming) \subseteq Questions
  BY <1>1, Elements DEF TypeOK
<1>3. /\ new \in Run /\ new.kind = run.kind /\ new.room = run.room /\ new.epoch = run.epoch
      /\ new.held = run.held /\ new.read \subseteq AskedIn(run.room, incoming)
      /\ run.kind # "trigger" => new.read = AskedIn(run.room, incoming)
  BY <1>1, <1>2 DEF Run, AskedIn
<1>4. runs' = (runs \ {run}) \cup {new}
  OBVIOUS
<1> HIDE DEF new
<1>5. (\A x : IsCurrent(x)' <=> IsCurrent(x)) /\ IsCurrent(new)
  BY <1>3 DEF IsCurrent
<1>6. TypeOK'
  BY <1>1, <1>3, <1>4 DEF TypeOK
<1>7. CurrentInv'
  <2>1. active = run.room /\ active \in Rooms
    BY <1>1, OnlyCurrent DEF IInv, Run
  <2> QED
    BY <1>1, <1>3, <1>4, <1>5, <2>1, CurrentStep DEF IInv, IsCurrent
<1>8. PlaceInv'
  <2>1. \A x \in runs' : \E y \in runs : /\ x.held = y.held /\ x.kind = y.kind
                                         /\ x = y \/ (x = new /\ y = run)
    BY <1>3, <1>4
  <2>2. \A x \in runs' : /\ x.kind # "trigger" => x.held = <<>>
                         /\ ToSet(x.held) \cap ToSet(incoming) = {}
    BY <2>1 DEF IInv, PlaceInv
  <2>3. \A x, y \in runs' : x # y => ToSet(x.held) \cap ToSet(y.held) = {}
    BY <1>3, <1>4 DEF IInv, PlaceInv
  <2> QED
    BY <2>2, <2>3 DEF PlaceInv
<1>9. ReadInv'
  BY <1>1, <1>3, <1>4, <1>5 DEF ReadInv
<1>10. StatusInv'
  BY <1>3, <1>4 DEF IInv, StatusInv, Held, AnsweredOnce
<1>11. OpenInv'
  BY <1>3, <1>4, <1>5 DEF IInv, OpenInv
<1>12. NothingForgotten'
  <2> SUFFICES ASSUME ~closed
               PROVE  NothingForgotten'
    BY DEF NothingForgotten
  <2>1. ASSUME NEW q \in Questions, status[q] = "open"
        PROVE  \/ TurnComing(RoomOf[q])
               \/ new.kind # "trigger" /\ q \in new.read
    <3>1. TurnComing(RoomOf[q]) \/ (run.kind # "trigger" /\ q \in run.read)
      BY <1>1, <2>1 DEF IInv, NothingForgotten
    <3>2. run.read \subseteq AskedIn(run.room, incoming)
      BY DEF IInv, ReadInv
    <3> QED
      BY <1>3, <3>1, <3>2
  <2>2. ASSUME NEW x \in requested
        PROVE  TurnComing(x) \/ (new.kind # "trigger" /\ new.room = x)
    BY <1>1, <1>3 DEF IInv, NothingForgotten
  <2>3. \A x : TurnComing(x)' <=> TurnComing(x)
    BY DEF TurnComing
  <2> QED
    BY <1>4, <1>5, <2>1, <2>2, <2>3 DEF NothingForgotten
<1> QED
  BY <1>6, <1>7, <1>8, <1>9, <1>10, <1>11, <1>12 DEF IInv

LEMMA UnwindsKeeps ==
  ASSUME IInv, NEW run \in runs, Unwinds(run)
  PROVE  IInv'
<1> USE DEF Unwinds
<1>1. TypeOK /\ run \in Run
  BY DEF IInv, TypeOK
<1>2. incoming' \in Seq(Questions) /\ ToSet(incoming') = ToSet(run.held) \cup ToSet(incoming)
  BY <1>1, Elements DEF TypeOK, Run
<1>3. \A x : IsCurrent(x)' <=> IsCurrent(x)
  BY DEF IsCurrent
<1>4. TypeOK'
  BY <1>1, <1>2 DEF TypeOK
<1>5. CurrentInv'
  BY <1>3 DEF IInv, CurrentInv
<1>6. PlaceInv'
  BY <1>2 DEF IInv, PlaceInv
<1>7. ReadInv'
  BY <1>2, <1>3 DEF IInv, ReadInv, AskedIn
<1>8. StatusInv'
  BY <1>2 DEF IInv, StatusInv, Held, AnsweredOnce
<1>9. OpenInv'
  BY <1>2, <1>3 DEF IInv, OpenInv
<1>10. NothingForgotten'
  BY <1>3 DEF IInv, NothingForgotten, TurnComing
<1> QED
  BY <1>4, <1>5, <1>6, <1>7, <1>8, <1>9, <1>10 DEF IInv

LEMMA CancelKeeps ==
  ASSUME IInv, Cancel
  PROVE  IInv'
<1> USE DEF Cancel
<1>1. TypeOK
  BY DEF IInv
<1>2. epoch' \in 0 .. MaxEpoch /\ epoch' > epoch
  BY <1>1, BoundsAssumption DEF TypeOK
<1>3. \A run \in runs : run.epoch <= epoch' /\ ~IsCurrent(run)'
  BY <1>1, <1>2 DEF IInv, CurrentInv, IsCurrent, TypeOK, Run
<1>4. /\ status' \in [Questions -> {"unasked", "open", "answered", "failed", "cancelled", "repeated"}]
      /\ \A q \in Questions : status'[q] = IF status[q] = "open" THEN "cancelled" ELSE status[q]
  BY <1>1 DEF TypeOK
<1>5. TypeOK'
  <2>1. scheduled' \in [Rooms -> 0 .. MaxTimers]
    BY BoundsAssumption DEF NoTimers
  <2>2. <<>> \in Seq(Rooms)
    OBVIOUS
  <2>3. UNCHANGED <<closed, incoming, runs, used>>
    OBVIOUS
  <2>4. active' = NoRoom /\ pending' = <<>> /\ requested' = {} /\ waiting' = FALSE
    OBVIOUS
  <2> QED
    BY <1>1, <1>2, <1>4, <2>1, <2>2, <2>3, <2>4 DEF TypeOK
<1>6. CurrentInv'
  BY <1>3 DEF CurrentInv
<1>7. PlaceInv'
  BY DEF IInv, PlaceInv
<1>8. ReadInv'
  BY <1>3 DEF ReadInv
<1>9. StatusInv'
  BY <1>4 DEF IInv, StatusInv, Held, AnsweredOnce
<1>10. OpenInv' /\ NothingForgotten'
  BY <1>4 DEF OpenInv, NothingForgotten
<1> QED
  BY <1>5, <1>6, <1>7, <1>8, <1>9, <1>10 DEF IInv

LEMMA CloseKeeps ==
  ASSUME IInv, Close
  PROVE  IInv'
<1> USE DEF Close
<1>1. \A run : IsCurrent(run)' <=> IsCurrent(run)
  BY DEF IsCurrent
<1>2. TypeOK'
  <2>1. scheduled' \in [Rooms -> 0 .. MaxTimers]
    BY BoundsAssumption DEF NoTimers
  <2>2. waiting' \in BOOLEAN
    BY DEF IInv, TypeOK, CheckIdle
  <2> QED
    BY <2>1, <2>2 DEF IInv, TypeOK
<1>3. CurrentInv' /\ PlaceInv' /\ ReadInv' /\ StatusInv'
  BY <1>1 DEF IInv, CurrentInv, PlaceInv, ReadInv, StatusInv, Held, AnsweredOnce
<1>4. OpenInv' /\ NothingForgotten'
  BY DEF OpenInv, NothingForgotten
<1> QED
  BY <1>2, <1>3, <1>4 DEF IInv

(* A step that changes nothing but who waits for the Agent to be idle. *)
LEMMA IdleKeeps ==
  ASSUME IInv, waiting' \in BOOLEAN,
         UNCHANGED <<active, pending, scheduled, epoch, closed, incoming, requested, runs, status, used>>
  PROVE  IInv'
<1>1. \A run : IsCurrent(run)' <=> IsCurrent(run)
  BY DEF IsCurrent
<1>2. TypeOK'
  BY DEF IInv, TypeOK
<1>3. CurrentInv' /\ PlaceInv' /\ ReadInv' /\ StatusInv'
  BY <1>1 DEF IInv, CurrentInv, PlaceInv, ReadInv, StatusInv, Held, AnsweredOnce
<1>4. OpenInv' /\ NothingForgotten'
  BY <1>1 DEF IInv, OpenInv, NothingForgotten, TurnComing
<1> QED
  BY <1>2, <1>3, <1>4 DEF IInv

-----------------------------------------------------------------------------
LEMMA InitIInv == Init => IInv
<1> SUFFICES ASSUME Init
             PROVE  IInv
  OBVIOUS
<1> USE DEF Init
<1>1. TypeOK
  <2>1. used \in Used /\ scheduled \in [Rooms -> 0 .. MaxTimers] /\ epoch \in 0 .. MaxEpoch
    BY BoundsAssumption DEF Used
  <2>2. <<>> \in Seq(Rooms) /\ <<>> \in Seq(Questions)
    OBVIOUS
  <2>3. active = NoRoom /\ pending = <<>> /\ incoming = <<>> /\ requested = {} /\ runs = {}
    OBVIOUS
  <2>4. status \in [Questions -> {"unasked", "open", "answered", "failed", "cancelled", "repeated"}]
    OBVIOUS
  <2>5. closed \in BOOLEAN /\ waiting \in BOOLEAN
    OBVIOUS
  <2> HIDE DEF Init
  <2> QED
    BY <2>1, <2>2, <2>3, <2>4, <2>5 DEF TypeOK
<1>2. ToSet(incoming) = {}
  BY Elements
<1>3. CurrentInv /\ PlaceInv /\ ReadInv
  BY DEF CurrentInv, PlaceInv, ReadInv
<1>4. StatusInv
  BY <1>2 DEF StatusInv, AnsweredOnce, Held
<1>5. OpenInv /\ NothingForgotten
  BY DEF OpenInv, NothingForgotten
<1> QED
  BY <1>1, <1>3, <1>4, <1>5 DEF IInv

LEMMA NextIInv == IInv /\ [Next]_vars => IInv'
<1> SUFFICES ASSUME IInv, [Next]_vars
             PROVE  IInv'
  OBVIOUS
<1>1. CASE \E q \in Questions : Receive(q)
  BY <1>1, ReceiveKeeps
<1>2. CASE \E r \in Rooms : RequestTurn(r)
  BY <1>2, RequestTurnKeeps
<1>3. CASE \E r \in Rooms : ForceEvaluate(r)
  BY <1>3, ForceEvaluateKeeps
<1>4. CASE \E r \in Rooms : TimerFires(r)
  BY <1>4, TimerFiresKeeps
<1>5. CASE \E r \in Rooms : FireTrigger(r)
  BY <1>5, FireTriggerKeeps
<1>6. CASE \E run \in runs : Prepared(run)
  BY <1>6, PreparedKeeps
<1>7. CASE \E run \in runs : TurnThrows(run)
  BY <1>7, TurnThrowsKeeps
<1>8. CASE \E run \in runs : TriggerEnds(run)
  BY <1>8, TriggerEndsKeeps
<1>9. CASE \E run \in runs : \E replied \in BOOLEAN : TurnEnds(run, replied)
  BY <1>9, TurnEndsKeeps
<1>10. CASE \E run \in runs : Unwinds(run)
  BY <1>10, UnwindsKeeps
<1>11. CASE WhenIdle
  BY <1>11, IdleKeeps DEF WhenIdle
<1>12. CASE Cancel
  BY <1>12, CancelKeeps
<1>13. CASE Close
  BY <1>13, CloseKeeps
<1>14. CASE \E run \in runs : \E replied \in BOOLEAN : DecisionThrows(run, replied)
  BY <1>14, DecisionThrowsKeeps
<1>15. CASE UNCHANGED vars
  BY <1>15, IdleKeeps DEF vars, IInv, TypeOK
<1> QED
  BY <1>1, <1>2, <1>3, <1>4, <1>5, <1>6, <1>7, <1>8, <1>9, <1>10, <1>11, <1>12, <1>13, <1>14, <1>15
     DEF Next, RunSteps

(* The invariant holds in every reachable state, for any Rooms, questions and bounds. *)
THEOREM Invariance == Spec => []IInv
BY InitIInv, NextIInv, PTL DEF Spec

(* The variables keep their types (concurrency.ts and ai-agent.ts as modelled). *)
THEOREM TypesHold == Spec => []TypeOK
<1>1. IInv => TypeOK
  BY DEF IInv
<1> QED
  BY <1>1, Invariance, PTL

(* One turn at a time: the Room that is shown has the only run of this epoch, whatever the
   runs of cancelled epochs still do (startGeneration, endGeneration, cancelAll). *)
THEOREM OneTurnHolds == Spec => []OneTurn
<1>1. IInv => OneTurn
  <2> SUFFICES ASSUME IInv
               PROVE  OneTurn
    OBVIOUS
  <2>1. CASE active = NoRoom
    <3>1. {run \in runs : IsCurrent(run)} = {}
      BY <2>1 DEF IInv, CurrentInv
    <3> QED
      BY <2>1, <3>1 DEF OneTurn
  <2>2. CASE active # NoRoom
    <3>1. PICK run \in runs : /\ IsCurrent(run) /\ run.room = active
                              /\ \A other \in runs : IsCurrent(other) => other = run
      BY <2>2 DEF IInv, CurrentInv
    <3>2. {x \in runs : IsCurrent(x)} = {run}
      BY <3>1
    <3>3. Cardinality({run}) = 1
      BY FS_Singleton
    <3> QED
      BY <2>2, <3>1, <3>2, <3>3 DEF OneTurn
  <2> QED
    BY <2>1, <2>2
<1> QED
  BY <1>1, Invariance, PTL

(* While the Agent is open, each open question and each requested turn has a turn that is
   in line, in its cooldown or running: none is lost where turns, cooldowns, triggers and
   cancellations meet (run, tryEvaluate, takeRequestedTurn, fireTriggerExecute). *)
THEOREM NothingIsForgotten == Spec => []NothingForgotten
<1>1. IInv => NothingForgotten
  BY DEF IInv
<1> QED
  BY <1>1, Invariance, PTL

(* No question is answered twice, though a cancelled turn and a trigger may hold what a
   later turn answers (run, flushIncoming, cancelGeneration). *)
THEOREM EachIsAnsweredOnce == Spec => []AnsweredOnce
<1>1. IInv => AnsweredOnce
  BY DEF IInv, StatusInv
<1> QED
  BY <1>1, Invariance, PTL
=============================================================================
