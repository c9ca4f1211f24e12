---------------------- MODULE CommandIdempotencyProofs ----------------------
(* Theorems about CommandIdempotency, for any requests, keys, bodies, time to live
   and size of the store. *)
EXTENDS CommandIdempotency, FiniteSetTheorems, WellFoundedInduction, TLAPS

-----------------------------------------------------------------------------
\* The inductive invariant

\* A request is issued once at most; what it waits for is its own issue.
IssueInv ==
  /\ \A i \in DOMAIN issues : pc[issues[i]] \in {"issuing", "answered", "threw"}
  /\ \A i, j \in DOMAIN issues : issues[i] = issues[j] => i = j
  /\ \A r \in Requests :
       /\ pc[r] = "idle" => promise[r] = "none"
       /\ pc[r] = "issuing" => promise[r] # "none" /\ answer[r] = r
       /\ pc[r] = "idle" => answer[r] = r

\* Nothing was asked later than now, and issues are in the order of the clock.
TimeInv ==
  /\ \A r \in Requests : pc[r] # "idle" => asked[r].at <= now
  /\ \A i, j \in DOMAIN issues : i <= j => asked[issues[i]].at <= asked[issues[j]].at

\* An entry says what its owner asked and when it was issued, and whether it is in flight.
EntryInv ==
  \A e \in entries :
    /\ e.turn \in DOMAIN issues /\ issues[e.turn] = e.owner
    /\ asked[e.owner].key = e.key /\ asked[e.owner].body = e.body /\ asked[e.owner].at = e.firstSeen
    /\ IF e.done THEN promise[e.owner] = "resolved" /\ pc[e.owner] # "issuing"
       ELSE pc[e.owner] = "issuing"

\* Whom a request is answered by was asked before it, and is not asked again.
AnswerInv ==
  \A r \in Requests : pc[r] \in {"answered", "joined"} =>
    /\ pc[answer[r]] # "idle"
    /\ asked[answer[r]].key = asked[r].key /\ asked[answer[r]].body = asked[r].body
    /\ asked[r].at - asked[answer[r]].at < Ttl
    /\ pc[r] = "answered" => promise[answer[r]] = "resolved"

\* What has become of an issue under a key by now.
Over(i) ==
  \/ promise[issues[i]] = "rejected"
  \/ now - asked[issues[i]].at >= Ttl
  \/ Cardinality(KeysBetween(i, Len(issues) + 1)) >= MaxEntries

\* An issue that is not over is in the store.
LifetimeInv ==
  \A i \in DOMAIN issues : asked[issues[i]].key # NoKey =>
    Over(i) \/ \E e \in entries : e.owner = issues[i]

StoreInv == IsFiniteSet(entries) /\ StoreBounded

IInv == /\ TypeOK /\ IssueInv /\ TimeInv /\ EntryInv /\ AnswerInv
        /\ StoreInv /\ LifetimeInv /\ IssuedOncePerLifetime

-----------------------------------------------------------------------------
\* Lemmas about what the store makes room for

\* The keys of finitely many issues are finitely many.
LEMMA FiniteKeys ==
  ASSUME NEW f, NEW i \in Nat, NEW j \in Nat
  PROVE  IsFiniteSet({f[m] : m \in i .. j})
<1> DEFINE g == [m \in i .. j |-> f[m]]
           T == {f[m] : m \in i .. j}
<1>1. g \in Surjection(i .. j, T)
  BY DEF Surjection
<1>2. IsFiniteSet(i .. j)
  BY FS_Interval
<1> QED
  BY <1>1, <1>2, FS_Surjection

\* A finite store that is not empty has an oldest entry.
LEMMA Oldest ==
  ASSUME NEW E, IsFiniteSet(E), E # {},
         \A e \in E : e.firstSeen \in Nat /\ e.turn \in Nat
  PROVE  \E m \in E : \A d \in E : ~Older(d, m)
<1> DEFINE Down(e) == {d \in E : Older(d, e)}
           Downs == {Down(e) : e \in E}
<1>1. IsWellFoundedOn(StrictSubsetOrdering(E), SUBSET E)
  BY FS_StrictSubsetOrderingWellFounded, FS_FiniteSubsetsOfFinite
<1>2. Downs \subseteq SUBSET E /\ Downs # {}
  OBVIOUS
<1>3. PICK X \in Downs : \A Y \in Downs : <<Y, X>> \notin StrictSubsetOrdering(E)
  <2> HIDE DEF Downs
  <2> QED BY <1>1, <1>2, WFMin
<1>4. PICK m \in E : X = Down(m)
  BY <1>3
<1>5. ASSUME NEW d \in E, Older(d, m) PROVE FALSE
  <2>1. Down(d) \subseteq Down(m)
    BY <1>5 DEF Older
  <2>2. d \in Down(m) /\ d \notin Down(d)
    BY <1>5 DEF Older
  <2>3. <<Down(d), Down(m)>> \in StrictSubsetOrdering(E)
    BY <2>1, <2>2 DEF StrictSubsetOrdering
  <2> QED BY <1>3, <1>4, <2>3
<1> QED BY <1>5

\* After a new entry the store is bounded again.
LEMMA CappedBounded ==
  ASSUME NEW E, IsFiniteSet(E), Cardinality(E) <= MaxEntries + 1,
         \A e \in E : e.firstSeen \in Nat /\ e.turn \in Nat
  PROVE  IsFiniteSet(Capped(E)) /\ Cardinality(Capped(E)) <= MaxEntries
<1> USE ConfigAssumption
<1>0. Cardinality(E) \in Nat
  BY FS_CardinalityType
<1>1. CASE Cardinality(E) <= MaxEntries
  BY <1>1 DEF Capped
<1>2. CASE ~(Cardinality(E) <= MaxEntries)
  <2>1. E # {}
    BY <1>2, FS_EmptySet
  <2>2. PICK m \in E : \A d \in E : ~Older(d, m)
    BY <2>1, Oldest
  <2>3. Capped(E) \subseteq E \ {m}
    BY <1>2, <2>2 DEF Capped
  <2>4. IsFiniteSet(E \ {m}) /\ Cardinality(E \ {m}) = Cardinality(E) - 1
    BY FS_RemoveElement
  <2>5. IsFiniteSet(Capped(E)) /\ Cardinality(Capped(E)) <= Cardinality(E \ {m})
    BY <2>3, <2>4, FS_Subset
  <2>6. Cardinality(Capped(E)) \in Nat
    BY <2>5, FS_CardinalityType
  <2> QED BY <1>0, <2>4, <2>5, <2>6
<1> QED BY <1>1, <1>2

\* What is pushed out is the oldest of more than the store has room for.
LEMMA PushedOut ==
  ASSUME NEW E, NEW e \in E, e \notin Capped(E)
  PROVE  ~(Cardinality(E) <= MaxEntries) /\ \A d \in E : ~Older(d, e)
BY DEF Capped

-----------------------------------------------------------------------------
\* The invariant holds at first, and each part of it is kept

LEMMA InitEstablishes == Init => IInv
<1> SUFFICES ASSUME Init PROVE IInv
  OBVIOUS
<1> USE KeyAssumption, BodiesAssumption, ConfigAssumption DEF Init
<1>1. TypeOK
  BY DEF TypeOK, Entries
<1>2. IssueInv /\ TimeInv /\ EntryInv /\ AnswerInv
  BY DEF IssueInv, TimeInv, EntryInv, AnswerInv
<1>3. StoreInv
  BY FS_EmptySet DEF StoreInv, StoreBounded
<1>4. LifetimeInv /\ IssuedOncePerLifetime
  BY DEF LifetimeInv, IssuedOncePerLifetime
<1> QED
  BY <1>1, <1>2, <1>3, <1>4 DEF IInv

\* The entry that a new issue of r under k gets.
NewEntry(r, k, b) == [key |-> k, body |-> b, firstSeen |-> now, owner |-> r,
                      turn |-> Len(issues) + 1, done |-> FALSE]

LEMMA TypeKept == TypeOK /\ EntryInv /\ [Next]_vars => TypeOK'
<1> SUFFICES ASSUME TypeOK, EntryInv, [Next]_vars PROVE TypeOK'
  OBVIOUS
<1> USE KeyAssumption, ConfigAssumption DEF TypeOK
<1>1. CASE Tick
  BY <1>1 DEF Tick
<1>2. ASSUME NEW r \in Requests, NEW b \in Bodies, AskUnkeyed(r, b) PROVE TypeOK'
  BY <1>2 DEF AskUnkeyed, Asks, Issues
<1>3. ASSUME NEW r \in Requests, NEW b \in Bodies, NEW k \in Keys, AskNew(r, k, b) PROVE TypeOK'
  <2>1. entries' \subseteq Fresh(entries) \union {NewEntry(r, k, b)}
    BY <1>3 DEF AskNew, Capped, NewEntry
  <2>2. NewEntry(r, k, b) \in Entries
    BY DEF NewEntry, Entries
  <2>3. entries' \subseteq Entries
    BY <2>1, <2>2 DEF Fresh
  <2>4. (\A d, e \in entries : d.key = e.key => d = e)'
    <3>1. \A e \in Fresh(entries) : e.key # k
      BY <1>3 DEF AskNew
    <3>2. Fresh(entries) \subseteq entries /\ NewEntry(r, k, b).key = k
      BY DEF Fresh, NewEntry
    <3> QED BY <2>1, <3>1, <3>2
  <2>5. issues' \in Seq(Requests) /\ UNCHANGED <<now, answer>>
    BY <1>3 DEF AskNew, Asks, Issues
  <2>6. asked' \in [Requests -> [key : Keys \union {NoKey}, body : Bodies, at : Nat]]
    BY <1>3 DEF AskNew, Asks
  <2>7. /\ pc' \in [Requests -> {"idle", "issuing", "joined", "answered", "refused", "threw"}]
        /\ promise' \in [Requests -> {"none", "pending", "resolved", "rejected"}]
    BY <1>3 DEF AskNew, Issues
  <2> QED BY <2>3, <2>4, <2>5, <2>6, <2>7
<1>4. ASSUME NEW r \in Requests, NEW b \in Bodies, NEW k \in Keys, AskAgain(r, k, b) PROVE TypeOK'
  <2>1. PICK e \in entries :
          IF e.body # b
          THEN pc' = [pc EXCEPT ![r] = "refused"] /\ UNCHANGED answer
          ELSE /\ pc' = [pc EXCEPT ![r] = IF e.done THEN "answered" ELSE "joined"]
               /\ answer' = [answer EXCEPT ![r] = e.owner]
    BY <1>4 DEF AskAgain, Fresh
  <2>2. entries' \subseteq entries
    BY <1>4 DEF AskAgain, Fresh
  <2>3. e.owner \in Requests
    BY DEF Entries
  <2>4. pc' \in [Requests -> {"idle", "issuing", "joined", "answered", "refused", "threw"}]
    BY <2>1
  <2>5. answer' \in [Requests -> Requests]
    BY <2>1, <2>3
  <2> QED BY <1>4, <2>2, <2>4, <2>5 DEF AskAgain, Asks
<1>5. ASSUME NEW r \in Requests, Settle(r) PROVE TypeOK'
  BY <1>5 DEF Settle
<1>6. ASSUME NEW r \in Requests, Finish(r) PROVE TypeOK'
  <2>1. \A x \in entries' : \E e \in entries :
          x = e \/ x = Completed(r, e)
    BY <1>6 DEF Finish
  <2>2. \A e \in entries : Completed(r, e) \in Entries
    BY DEF Completed, Entries
  <2>3. entries' \subseteq Entries
    BY <2>1, <2>2
  <2>4. (\A d, e \in entries : d.key = e.key => d = e)'
    <3>1. CASE promise[r] = "resolved"
      <4>1. \A x \in entries' : \E e \in entries : x = IF Completes(r, e) THEN Completed(r, e) ELSE e
        BY <1>6, <3>1 DEF Finish
      <4>2. \A e \in entries : Completed(r, e).key = e.key
        BY DEF Completed
      <4>3. SUFFICES ASSUME NEW x \in entries', NEW y \in entries', x.key = y.key PROVE x = y
        OBVIOUS
      <4>4. PICK d \in entries : x = IF Completes(r, d) THEN Completed(r, d) ELSE d
        BY <4>1
      <4>5. PICK e \in entries : y = IF Completes(r, e) THEN Completed(r, e) ELSE e
        BY <4>1
      <4>6. d.key = e.key
        BY <4>2, <4>3, <4>4, <4>5
      <4>7. d = e
        BY <4>6
      <4> QED BY <4>4, <4>5, <4>7
    <3>2. CASE promise[r] # "resolved"
      BY <1>6, <3>2 DEF Finish
    <3> QED BY <3>1, <3>2
  <2>5. pc' \in [Requests -> {"idle", "issuing", "joined", "answered", "refused", "threw"}]
    BY <1>6 DEF Finish
  <2> QED BY <1>6, <2>3, <2>4, <2>5 DEF Finish
<1>7. ASSUME NEW r \in Requests, FinishJoined(r) PROVE TypeOK'
  BY <1>7 DEF FinishJoined
<1>8. CASE UNCHANGED vars
  BY <1>8 DEF vars
<1> QED
  BY <1>1, <1>2, <1>3, <1>4, <1>5, <1>6, <1>7, <1>8 DEF Next

\* What a new issue of r does to the list of issues.
NewIssue(r) ==
  /\ Len(issues) \in Nat /\ DOMAIN issues = 1 .. Len(issues)
  /\ \A i \in DOMAIN issues : issues[i] \in Requests /\ issues[i] # r /\ issues'[i] = issues[i]
  /\ DOMAIN issues' = DOMAIN issues \union {Len(issues) + 1}
  /\ issues'[Len(issues) + 1] = r
  /\ Len(issues') = Len(issues) + 1

LEMMA AskEffect ==
  ASSUME TypeOK, IssueInv, NEW r \in Requests, NEW b, NEW k, Asks(r, k, b), Issues(r)
  PROVE  /\ NewIssue(r)
         /\ pc[r] = "idle" /\ pc' = [pc EXCEPT ![r] = "issuing"]
         /\ promise' = [promise EXCEPT ![r] = "pending"]
         /\ asked' = [asked EXCEPT ![r] = [key |-> k, body |-> b, at |-> now]]
         /\ UNCHANGED <<now, answer>>
<1>1. /\ pc[r] = "idle" /\ issues' = Append(issues, r) /\ pc' = [pc EXCEPT ![r] = "issuing"]
      /\ promise' = [promise EXCEPT ![r] = "pending"]
      /\ asked' = [asked EXCEPT ![r] = [key |-> k, body |-> b, at |-> now]]
      /\ UNCHANGED <<now, answer>>
  BY DEF Asks, Issues
<1>2. issues \in Seq(Requests)
  BY DEF TypeOK
<1>3. \A i \in DOMAIN issues : issues[i] # r
  BY <1>1 DEF IssueInv
<1> QED BY <1>1, <1>2, <1>3 DEF NewIssue

LEMMA IssuesTyped ==
  ASSUME TypeOK
  PROVE  /\ Len(issues) \in Nat /\ DOMAIN issues = 1 .. Len(issues)
         /\ \A i \in DOMAIN issues : issues[i] \in Requests
BY DEF TypeOK

LEMMA IssueKept ==
  TypeOK /\ IssueInv /\ EntryInv /\ [Next]_vars => IssueInv'
<1> SUFFICES ASSUME TypeOK, IssueInv, EntryInv, [Next]_vars PROVE IssueInv'
  OBVIOUS
<1> USE DEF TypeOK
<1>1. CASE Tick
  BY <1>1 DEF Tick, IssueInv
<1>2. ASSUME NEW r \in Requests, NEW b \in Bodies, NEW k \in Keys \union {NoKey},
             Asks(r, k, b), Issues(r)
      PROVE IssueInv'
  <2>1. pc[r] = "idle" /\ pc' = [pc EXCEPT ![r] = "issuing"] /\ UNCHANGED answer
        /\ promise' = [promise EXCEPT ![r] = "pending"]
        /\ NewIssue(r)
    BY <1>2, AskEffect
  <2>2. (\A i \in DOMAIN issues : pc[issues[i]] \in {"issuing", "answered", "threw"})'
    <3>1. \A i \in DOMAIN issues : pc[issues[i]] \in {"issuing", "answered", "threw"}
      BY DEF IssueInv
    <3> QED BY <2>1, <3>1 DEF NewIssue
  <2>3. (\A i, j \in DOMAIN issues : issues[i] = issues[j] => i = j)'
    <3>1. \A i, j \in DOMAIN issues : issues[i] = issues[j] => i = j
      BY DEF IssueInv
    <3> QED BY <2>1, <3>1 DEF NewIssue
  <2> QED BY <2>1, <2>2, <2>3 DEF IssueInv
<1>3. ASSUME NEW r \in Requests, NEW b \in Bodies, NEW k \in Keys, AskAgain(r, k, b) PROVE IssueInv'
  <2>1. pc[r] = "idle" /\ UNCHANGED <<promise, issues>>
    BY <1>3 DEF AskAgain, Asks
  <2>2. /\ \E x \in {"refused", "answered", "joined"} : pc' = [pc EXCEPT ![r] = x]
        /\ \E x \in Requests : answer' = [answer EXCEPT ![r] = x]
    <3>1. PICK e \in entries :
            IF e.body # b
            THEN pc' = [pc EXCEPT ![r] = "refused"] /\ UNCHANGED answer
            ELSE /\ pc' = [pc EXCEPT ![r] = IF e.done THEN "answered" ELSE "joined"]
                 /\ answer' = [answer EXCEPT ![r] = e.owner]
      BY <1>3 DEF AskAgain, Fresh
    <3>2. e.owner \in Requests
      BY DEF Entries
    <3>3. CASE e.body # b
      <4>1. answer' = [answer EXCEPT ![r] = answer[r]]
        BY <3>1, <3>3
      <4> QED BY <3>1, <3>3, <4>1
    <3> QED BY <3>1, <3>2, <3>3
  <2> QED BY <2>1, <2>2 DEF IssueInv
<1>4. ASSUME NEW r \in Requests, Settle(r) PROVE IssueInv'
  BY <1>4 DEF Settle, IssueInv
<1>5. ASSUME NEW r \in Requests, Finish(r) PROVE IssueInv'
  <2>1. /\ pc[r] = "issuing" /\ UNCHANGED <<promise, answer, issues>>
        /\ \E x \in {"answered", "threw"} : pc' = [pc EXCEPT ![r] = x]
    BY <1>5 DEF Finish
  <2> QED BY <2>1 DEF IssueInv
<1>6. ASSUME NEW r \in Requests, FinishJoined(r) PROVE IssueInv'
  BY <1>6 DEF FinishJoined, IssueInv
<1>7. CASE UNCHANGED vars
  BY <1>7 DEF vars, IssueInv
<1> QED
  BY <1>1, <1>2, <1>3, <1>4, <1>5, <1>6, <1>7 DEF Next, AskUnkeyed, AskNew

LEMMA TimeKept == TypeOK /\ IssueInv /\ TimeInv /\ [Next]_vars => TimeInv'
<1> SUFFICES ASSUME TypeOK, IssueInv, TimeInv, [Next]_vars PROVE TimeInv'
  OBVIOUS
<1> USE DEF TypeOK
<1>1. CASE Tick
  BY <1>1 DEF Tick, TimeInv
<1>2. ASSUME NEW r \in Requests, NEW b \in Bodies, NEW k \in Keys \union {NoKey},
             Asks(r, k, b), Issues(r)
      PROVE TimeInv'
  <2>1. /\ asked' = [asked EXCEPT ![r] = [key |-> k, body |-> b, at |-> now]]
        /\ now' = now /\ pc' = [pc EXCEPT ![r] = "issuing"] /\ pc[r] = "idle"
        /\ NewIssue(r)
    BY <1>2, AskEffect
  <2>2. (\A s \in Requests : pc[s] # "idle" => asked[s].at <= now)'
    BY <2>1 DEF TimeInv
  <2>3. (\A i, j \in DOMAIN issues : i <= j => asked[issues[i]].at <= asked[issues[j]].at)'
    <3> SUFFICES ASSUME NEW i \in DOMAIN issues', NEW j \in DOMAIN issues', i <= j
                 PROVE  asked'[issues'[i]].at <= asked'[issues'[j]].at
      OBVIOUS
    <3>1. CASE j \in DOMAIN issues
      <4>1. i \in DOMAIN issues
        BY <2>1, <3>1 DEF NewIssue
      <4>2. /\ issues'[i] = issues[i] /\ issues[i] # r /\ issues[i] \in Requests
            /\ issues'[j] = issues[j] /\ issues[j] # r /\ issues[j] \in Requests
        BY <2>1, <3>1, <4>1 DEF NewIssue
      <4>3. asked[issues[i]].at <= asked[issues[j]].at
        BY <3>1, <4>1 DEF TimeInv
      <4> QED BY <2>1, <4>2, <4>3
    <3>2. CASE j = Len(issues) + 1
      <4>1. asked'[issues'[j]].at = now
        BY <2>1, <3>2 DEF NewIssue
      <4>2. i = j \/ i \in DOMAIN issues
        BY <2>1, <3>2 DEF NewIssue
      <4>3. CASE i \in DOMAIN issues
        <5>1. issues'[i] = issues[i] /\ issues[i] # r /\ issues[i] \in Requests
          BY <2>1, <4>3 DEF NewIssue
        <5>2. pc[issues[i]] # "idle"
          BY <4>3 DEF IssueInv
        <5>3. asked[issues[i]].at <= now
          BY <5>1, <5>2 DEF TimeInv
        <5> QED BY <2>1, <4>1, <5>1, <5>3
      <4> QED BY <4>1, <4>2, <4>3
    <3> QED BY <2>1, <3>1, <3>2 DEF NewIssue
  <2> QED BY <2>2, <2>3 DEF TimeInv
<1>3. ASSUME NEW r \in Requests, NEW b \in Bodies, NEW k \in Keys, AskAgain(r, k, b) PROVE TimeInv'
  <2>1. /\ asked' = [asked EXCEPT ![r] = [key |-> k, body |-> b, at |-> now]]
        /\ now' = now /\ issues' = issues /\ pc[r] = "idle"
        /\ \A s \in Requests : s # r => pc'[s] = pc[s]
    BY <1>3 DEF AskAgain, Asks
  <2>2. (\A s \in Requests : pc[s] # "idle" => asked[s].at <= now)'
    BY <2>1 DEF TimeInv
  <2>3. \A i \in DOMAIN issues : issues[i] \in Requests /\ issues[i] # r
    <3>1. \A i \in DOMAIN issues : pc[issues[i]] \in {"issuing", "answered", "threw"}
      BY DEF IssueInv
    <3> QED BY <2>1, <3>1, IssuesTyped
  <2>4. (\A i, j \in DOMAIN issues : i <= j => asked[issues[i]].at <= asked[issues[j]].at)'
    BY <2>1, <2>3 DEF TimeInv
  <2> QED BY <2>2, <2>4 DEF TimeInv
<1>4. ASSUME NEW r \in Requests, Settle(r) PROVE TimeInv'
  BY <1>4 DEF Settle, TimeInv
<1>5. ASSUME NEW r \in Requests, Finish(r) PROVE TimeInv'
  BY <1>5 DEF Finish, TimeInv
<1>6. ASSUME NEW r \in Requests, FinishJoined(r) PROVE TimeInv'
  BY <1>6 DEF FinishJoined, TimeInv
<1>7. CASE UNCHANGED vars
  BY <1>7 DEF vars, TimeInv
<1> QED
  BY <1>1, <1>2, <1>3, <1>4, <1>5, <1>6, <1>7 DEF Next, AskUnkeyed, AskNew

\* An entry keeps what it says when the issue list grows and its owner goes on.
LEMMA EntryKept ==
  TypeOK /\ IssueInv /\ EntryInv /\ [Next]_vars => EntryInv'
<1> SUFFICES ASSUME TypeOK, IssueInv, EntryInv, [Next]_vars PROVE EntryInv'
  OBVIOUS
<1> USE DEF TypeOK
<1>a. \A e \in entries : e \in Entries /\ e.owner \in Requests /\ pc[e.owner] # "idle"
  BY DEF Entries, EntryInv, IssueInv
<1>1. CASE Tick
  BY <1>1 DEF Tick, EntryInv
<1>2. ASSUME NEW r \in Requests, NEW b \in Bodies, AskUnkeyed(r, b) PROVE EntryInv'
  <2>1. /\ NewIssue(r) /\ pc[r] = "idle" /\ pc' = [pc EXCEPT ![r] = "issuing"]
        /\ promise' = [promise EXCEPT ![r] = "pending"]
        /\ \A x \in Requests : x # r => asked'[x] = asked[x]
        /\ entries' = entries
    BY <1>2, AskEffect DEF AskUnkeyed
  <2> QED BY <1>a, <2>1 DEF EntryInv, NewIssue
<1>3. ASSUME NEW r \in Requests, NEW b \in Bodies, NEW k \in Keys, AskNew(r, k, b) PROVE EntryInv'
  <2>1. /\ NewIssue(r) /\ pc[r] = "idle" /\ pc' = [pc EXCEPT ![r] = "issuing"]
        /\ promise' = [promise EXCEPT ![r] = "pending"]
        /\ asked' = [asked EXCEPT ![r] = [key |-> k, body |-> b, at |-> now]]
    BY <1>3, AskEffect DEF AskNew
  <2>2. entries' \subseteq entries \union {NewEntry(r, k, b)}
    BY <1>3 DEF AskNew, Capped, Fresh, NewEntry
  <2> SUFFICES ASSUME NEW e \in entries'
               PROVE  /\ e.turn \in DOMAIN issues' /\ issues'[e.turn] = e.owner
                      /\ asked'[e.owner].key = e.key /\ asked'[e.owner].body = e.body
                      /\ asked'[e.owner].at = e.firstSeen
                      /\ IF e.done THEN promise'[e.owner] = "resolved" /\ pc'[e.owner] # "issuing"
                         ELSE pc'[e.owner] = "issuing"
    BY DEF EntryInv
  <2>3. CASE e \in entries
    <3>1. e.owner # r /\ e.owner \in Requests
      BY <1>a, <2>1, <2>3
    <3>2. asked'[e.owner] = asked[e.owner] /\ pc'[e.owner] = pc[e.owner] /\ promise'[e.owner] = promise[e.owner]
      BY <2>1, <3>1
    <3> QED BY <2>1, <2>3, <3>2 DEF EntryInv, NewIssue
  <2>4. CASE e = NewEntry(r, k, b)
    BY <2>1, <2>4 DEF NewIssue, NewEntry
  <2> QED BY <2>2, <2>3, <2>4
<1>4. ASSUME NEW r \in Requests, NEW b \in Bodies, NEW k \in Keys, AskAgain(r, k, b) PROVE EntryInv'
  <2>1. /\ pc[r] = "idle" /\ UNCHANGED <<promise, issues>>
        /\ \A x \in Requests : x # r => asked'[x] = asked[x] /\ pc'[x] = pc[x]
        /\ entries' \subseteq entries
    BY <1>4 DEF AskAgain, Asks, Fresh
  <2> QED BY <1>a, <2>1 DEF EntryInv
<1>5. ASSUME NEW r \in Requests, Settle(r) PROVE EntryInv'
  <2>1. /\ promise[r] = "pending" /\ UNCHANGED <<entries, pc, asked, issues>>
        /\ \A x \in Requests : x # r => promise'[x] = promise[x]
    BY <1>5 DEF Settle
  <2> QED BY <1>a, <2>1 DEF EntryInv
<1>6. ASSUME NEW r \in Requests, Finish(r) PROVE EntryInv'
  <2>1. /\ pc[r] = "issuing" /\ UNCHANGED <<asked, promise, issues>>
        /\ pc'[r] \in {"answered", "threw"} /\ \A x \in Requests : x # r => pc'[x] = pc[x]
    BY <1>6 DEF Finish
  <2>2. CASE promise[r] = "resolved"
    <3>1. \A x \in entries' : \E e \in entries : x = IF Completes(r, e) THEN Completed(r, e) ELSE e
      BY <1>6, <2>2 DEF Finish
    <3>2. SUFFICES ASSUME NEW x \in entries'
                   PROVE  /\ x.turn \in DOMAIN issues /\ issues[x.turn] = x.owner
                          /\ asked[x.owner].key = x.key /\ asked[x.owner].body = x.body
                          /\ asked[x.owner].at = x.firstSeen
                          /\ IF x.done THEN promise[x.owner] = "resolved" /\ pc'[x.owner] # "issuing"
                             ELSE pc'[x.owner] = "issuing"
      BY <2>1 DEF EntryInv
    <3>3. PICK e \in entries : x = IF Completes(r, e) THEN Completed(r, e) ELSE e
      BY <3>1
    <3>4. CASE Completes(r, e)
      <4>1. e.owner = r /\ x = Completed(r, e)
        BY <3>3, <3>4 DEF Completes
      <4> QED BY <2>1, <2>2, <4>1 DEF EntryInv, Completed
    <3>5. CASE ~Completes(r, e)
      <4>1. x = e /\ (e.done \/ e.owner # r)
        BY <3>3, <3>5 DEF Completes
      <4> QED BY <1>a, <2>1, <4>1 DEF EntryInv
    <3> QED BY <3>4, <3>5
  <2>3. CASE promise[r] # "resolved"
    <3>1. \A e \in entries' : e \in entries /\ (e.done \/ e.owner # r)
      BY <1>6, <2>3 DEF Finish, Completes
    <3> QED BY <1>a, <2>1, <3>1 DEF EntryInv
  <2> QED BY <2>2, <2>3
<1>7. ASSUME NEW r \in Requests, FinishJoined(r) PROVE EntryInv'
  <2>1. /\ pc[r] = "joined" /\ UNCHANGED <<entries, asked, promise, issues>>
        /\ pc'[r] \in {"answered", "threw"} /\ \A x \in Requests : x # r => pc'[x] = pc[x]
    BY <1>7 DEF FinishJoined
  <2> QED BY <1>a, <2>1 DEF EntryInv
<1>8. CASE UNCHANGED vars
  BY <1>8 DEF vars, EntryInv
<1> QED
  BY <1>1, <1>2, <1>3, <1>4, <1>5, <1>6, <1>7, <1>8 DEF Next

\* Whom a request is answered by stays as it was when the request was matched with it.
LEMMA AnswerKept ==
  TypeOK /\ IssueInv /\ TimeInv /\ EntryInv /\ AnswerInv /\ [Next]_vars => AnswerInv'
<1> SUFFICES ASSUME TypeOK, IssueInv, TimeInv, EntryInv, AnswerInv, [Next]_vars PROVE AnswerInv'
  OBVIOUS
<1> USE DEF TypeOK
<1>a. \A x \in Requests : answer[x] \in Requests
  OBVIOUS
<1>1. CASE Tick
  BY <1>1 DEF Tick, AnswerInv
<1>2. ASSUME NEW r \in Requests, NEW b \in Bodies, NEW k \in Keys \union {NoKey},
             Asks(r, k, b), Issues(r)
      PROVE AnswerInv'
  <2>1. /\ pc[r] = "idle" /\ pc' = [pc EXCEPT ![r] = "issuing"] /\ answer' = answer
        /\ \A x \in Requests : x # r => asked'[x] = asked[x] /\ promise'[x] = promise[x]
    BY <1>2, AskEffect
  <2> QED BY <1>a, <2>1 DEF AnswerInv
<1>3. ASSUME NEW r \in Requests, NEW b \in Bodies, NEW k \in Keys, AskAgain(r, k, b) PROVE AnswerInv'
  <2>1. /\ pc[r] = "idle" /\ promise' = promise
        /\ asked' = [asked EXCEPT ![r] = [key |-> k, body |-> b, at |-> now]]
    BY <1>3 DEF AskAgain, Asks
  <2>2. PICK e \in Fresh(entries) :
          /\ e.key = k
          /\ IF e.body # b
             THEN pc' = [pc EXCEPT ![r] = "refused"] /\ UNCHANGED answer
             ELSE /\ pc' = [pc EXCEPT ![r] = IF e.done THEN "answered" ELSE "joined"]
                  /\ answer' = [answer EXCEPT ![r] = e.owner]
    BY <1>3 DEF AskAgain
  <2>3. \A x \in Requests : x # r => pc'[x] = pc[x] /\ answer'[x] = answer[x]
    BY <2>2
  <2>4. e \in entries /\ now - e.firstSeen < Ttl /\ e.owner \in Requests
    BY DEF Fresh, Entries
  <2>5. pc[e.owner] # "idle"
    BY <2>4 DEF EntryInv, IssueInv
  <2>6. SUFFICES ASSUME NEW x \in Requests, pc'[x] \in {"answered", "joined"}
                 PROVE  /\ pc'[answer'[x]] # "idle"
                        /\ asked'[answer'[x]].key = asked'[x].key
                        /\ asked'[answer'[x]].body = asked'[x].body
                        /\ asked'[x].at - asked'[answer'[x]].at < Ttl
                        /\ pc'[x] = "answered" => promise'[answer'[x]] = "resolved"
    BY DEF AnswerInv
  <2>7. CASE x = r
    <3>1. e.body = b /\ answer'[r] = e.owner /\ pc'[r] = IF e.done THEN "answered" ELSE "joined"
      BY <2>2, <2>6, <2>7
    <3>2. asked'[e.owner] = asked[e.owner] /\ pc'[e.owner] = pc[e.owner]
      BY <2>1, <2>3, <2>4, <2>5
    <3>3. /\ asked[e.owner].key = k /\ asked[e.owner].body = b /\ asked[e.owner].at = e.firstSeen
          /\ e.done => promise[e.owner] = "resolved"
      BY <2>2, <2>4, <3>1 DEF EntryInv
    <3>4. asked'[r].key = k /\ asked'[r].body = b /\ asked'[r].at = now
      BY <2>1
    <3> QED BY <2>1, <2>4, <2>5, <2>7, <3>1, <3>2, <3>3, <3>4
  <2>8. CASE x # r
    <3>1. pc[x] \in {"answered", "joined"} /\ answer'[x] = answer[x] /\ answer[x] # r
      BY <1>a, <2>1, <2>3, <2>6, <2>8 DEF AnswerInv
    <3> QED BY <1>a, <2>1, <2>3, <2>6, <2>8, <3>1 DEF AnswerInv
  <2> QED BY <2>7, <2>8
<1>4. ASSUME NEW r \in Requests, Settle(r) PROVE AnswerInv'
  <2>1. /\ promise[r] = "pending" /\ UNCHANGED <<answer, pc, asked>>
        /\ \A x \in Requests : x # r => promise'[x] = promise[x]
    BY <1>4 DEF Settle
  <2> QED BY <1>a, <2>1 DEF AnswerInv
<1>5. ASSUME NEW r \in Requests, Finish(r) PROVE AnswerInv'
  <2>1. /\ pc[r] = "issuing" /\ UNCHANGED <<answer, asked, promise>>
        /\ pc' = [pc EXCEPT ![r] = IF promise[r] = "resolved" THEN "answered" ELSE "threw"]
    BY <1>5 DEF Finish
  <2>2. answer[r] = r
    BY <2>1 DEF IssueInv
  <2>3. asked[r].at - asked[r].at < Ttl
    BY ConfigAssumption
  <2> QED BY <1>a, <2>1, <2>2, <2>3 DEF AnswerInv
<1>6. ASSUME NEW r \in Requests, FinishJoined(r) PROVE AnswerInv'
  <2>1. /\ pc[r] = "joined" /\ UNCHANGED <<answer, asked, promise>>
        /\ pc' = [pc EXCEPT ![r] = IF promise[answer[r]] = "resolved" THEN "answered" ELSE "threw"]
    BY <1>6 DEF FinishJoined
  <2> QED BY <1>a, <2>1 DEF AnswerInv
<1>7. CASE UNCHANGED vars
  BY <1>7 DEF vars, AnswerInv
<1> QED
  BY <1>1, <1>2, <1>3, <1>4, <1>5, <1>6, <1>7 DEF Next, AskUnkeyed, AskNew

\* The store is finite and never holds more than maxEntries.
LEMMA StoreKept == TypeOK /\ EntryInv /\ StoreInv /\ [Next]_vars => StoreInv'
<1> SUFFICES ASSUME TypeOK, EntryInv, StoreInv, [Next]_vars PROVE StoreInv'
  OBVIOUS
<1>a. IsFiniteSet(entries) /\ Cardinality(entries) \in Nat /\ Cardinality(entries) <= MaxEntries
  BY FS_CardinalityType DEF StoreInv, StoreBounded
<1>b. ASSUME entries' \subseteq entries PROVE StoreInv'
  <2>1. IsFiniteSet(entries') /\ Cardinality(entries') <= Cardinality(entries)
    BY <1>a, <1>b, FS_Subset
  <2>2. Cardinality(entries') \in Nat
    BY <2>1, FS_CardinalityType
  <2> QED BY <1>a, <2>1, <2>2, ConfigAssumption DEF StoreInv, StoreBounded
<1>1. CASE UNCHANGED entries
  BY <1>1, <1>b
<1>2. ASSUME NEW r \in Requests, NEW b \in Bodies, NEW k \in Keys, AskNew(r, k, b) PROVE StoreInv'
  <2> DEFINE F == Fresh(entries) \union {NewEntry(r, k, b)}
  <2>1. entries' = Capped(F)
    BY <1>2 DEF AskNew, NewEntry
  <2>2. Fresh(entries) \subseteq entries
    BY DEF Fresh
  <2>3. IsFiniteSet(Fresh(entries)) /\ Cardinality(Fresh(entries)) <= Cardinality(entries)
    BY <1>a, <2>2, FS_Subset
  <2>4. Cardinality(Fresh(entries)) \in Nat
    BY <2>3, FS_CardinalityType
  <2>5. /\ IsFiniteSet(F)
        /\ Cardinality(F) = Cardinality(Fresh(entries)) \/ Cardinality(F) = Cardinality(Fresh(entries)) + 1
    BY <2>3, FS_AddElement
  <2>6. Cardinality(F) <= MaxEntries + 1
    BY <1>a, <2>3, <2>4, <2>5, ConfigAssumption
  <2>7. \A e \in F : e.firstSeen \in Nat /\ e.turn \in Nat
    <3>1. \A e \in entries : e.firstSeen \in Nat /\ e.turn \in Nat
      BY DEF TypeOK, Entries
    <3>2. NewEntry(r, k, b).firstSeen \in Nat /\ NewEntry(r, k, b).turn \in Nat
      BY IssuesTyped DEF TypeOK, NewEntry
    <3> QED BY <2>2, <3>1, <3>2
  <2>8. IsFiniteSet(Capped(F)) /\ Cardinality(Capped(F)) <= MaxEntries
    <3> HIDE DEF F
    <3> QED BY <2>5, <2>6, <2>7, CappedBounded
  <2> QED BY <2>1, <2>8 DEF StoreInv, StoreBounded
<1>3. ASSUME NEW r \in Requests, NEW b \in Bodies, NEW k \in Keys, AskAgain(r, k, b) PROVE StoreInv'
  BY <1>3, <1>b DEF AskAgain, Fresh
<1>4. ASSUME NEW r \in Requests, Finish(r) PROVE StoreInv'
  <2>1. CASE promise[r] = "resolved"
    <3> DEFINE g == [e \in entries |-> IF Completes(r, e) THEN Completed(r, e) ELSE e]
    <3>1. g \in Surjection(entries, entries')
      BY <1>4, <2>1 DEF Finish, Surjection
    <3>2. IsFiniteSet(entries') /\ Cardinality(entries') <= Cardinality(entries)
      <4> HIDE DEF g
      <4> QED BY <1>a, <3>1, FS_Surjection
    <3>3. Cardinality(entries') \in Nat
      BY <3>2, FS_CardinalityType
    <3> QED BY <1>a, <3>2, <3>3, ConfigAssumption DEF StoreInv, StoreBounded
  <2>2. CASE promise[r] # "resolved"
    BY <1>4, <1>b, <2>2 DEF Finish
  <2> QED BY <2>1, <2>2
<1> QED
  BY <1>1, <1>2, <1>3, <1>4 DEF Next, vars, Tick, AskUnkeyed, Settle, FinishJoined

-----------------------------------------------------------------------------
\* What has been issued stays issued

\* The clock and the list of issues only grow, and an issue that was rejected stays so.
Steady ==
  /\ now \in Nat /\ now' \in Nat /\ now <= now'
  /\ Len(issues) \in Nat /\ Len(issues') \in Nat /\ Len(issues) <= Len(issues')
  /\ DOMAIN issues = 1 .. Len(issues) /\ DOMAIN issues' = 1 .. Len(issues')
  /\ \A i \in DOMAIN issues :
       /\ issues[i] \in Requests /\ issues'[i] = issues[i]
       /\ asked'[issues[i]] = asked[issues[i]] /\ asked[issues[i]].at \in Nat
       /\ promise[issues[i]] = "rejected" => promise'[issues[i]] = "rejected"

LEMMA StepSteady == TypeOK /\ TypeOK' /\ IssueInv /\ [Next]_vars => Steady
<1> SUFFICES ASSUME TypeOK, TypeOK', IssueInv, [Next]_vars PROVE Steady
  OBVIOUS
<1>a. /\ now \in Nat /\ now' \in Nat
      /\ Len(issues) \in Nat /\ DOMAIN issues = 1 .. Len(issues)
      /\ Len(issues') \in Nat /\ DOMAIN issues' = 1 .. Len(issues')
      /\ \A i \in DOMAIN issues : issues[i] \in Requests /\ asked[issues[i]].at \in Nat
  BY DEF TypeOK
<1>b. \A i \in DOMAIN issues : pc[issues[i]] # "idle"
  BY DEF IssueInv
<1>1. ASSUME now <= now', UNCHANGED <<asked, issues>>,
             \A s \in Requests : promise[s] = "rejected" => promise'[s] = "rejected"
      PROVE Steady
  BY <1>a, <1>1 DEF Steady
<1>2. ASSUME NEW r \in Requests, NEW b \in Bodies, NEW k \in Keys \union {NoKey},
             Asks(r, k, b), Issues(r)
      PROVE Steady
  <2>1. /\ NewIssue(r) /\ now' = now
        /\ \A s \in Requests : s # r => asked'[s] = asked[s] /\ promise'[s] = promise[s]
    BY <1>2, AskEffect DEF TypeOK
  <2> QED BY <1>a, <2>1 DEF Steady, NewIssue
<1>3. ASSUME NEW r \in Requests, NEW b \in Bodies, NEW k \in Keys, AskAgain(r, k, b) PROVE Steady
  <2>1. /\ pc[r] = "idle" /\ UNCHANGED <<now, promise, issues>>
        /\ \A s \in Requests : s # r => asked'[s] = asked[s]
    BY <1>3 DEF AskAgain, Asks, TypeOK
  <2> QED BY <1>a, <1>b, <2>1 DEF Steady
<1>4. ASSUME NEW r \in Requests, Settle(r) PROVE Steady
  <2>1. /\ promise[r] = "pending" /\ UNCHANGED <<now, asked, issues>>
        /\ \A s \in Requests : s # r => promise'[s] = promise[s]
    BY <1>4 DEF Settle, TypeOK
  <2> QED BY <1>1, <1>a, <2>1
<1>5. CASE Tick
  BY <1>1, <1>5, <1>a DEF Tick
<1>6. CASE (\E r \in Requests : Finish(r) \/ FinishJoined(r)) \/ UNCHANGED vars
  BY <1>1, <1>6, <1>a DEF Finish, FinishJoined, vars
<1> QED
  BY <1>2, <1>3, <1>4, <1>5, <1>6 DEF Next, AskUnkeyed, AskNew

\* What was issued between two issues is no other afterwards.
LEMMA KeysStay ==
  ASSUME Steady, NEW i \in Nat, NEW j \in Nat, j <= Len(issues) + 1
  PROVE  KeysBetween(i, j)' = KeysBetween(i, j)
<1>1. \A m \in i + 1 .. j - 1 : asked'[issues'[m]].key = asked[issues[m]].key
  BY DEF Steady
<1> QED BY <1>1 DEF KeysBetween

\* The keys issued since are finitely many, and only get more.
LEMMA KeysGrow ==
  ASSUME Steady, NEW i \in Nat
  PROVE  /\ IsFiniteSet(KeysBetween(i, Len(issues) + 1)')
         /\ KeysBetween(i, Len(issues) + 1) \subseteq KeysBetween(i, Len(issues) + 1)'
<1> DEFINE f == [m \in i + 1 .. Len(issues') |-> asked'[issues'[m]].key]
           T == {f[m] : m \in i + 1 .. Len(issues')}
<1>1. i + 1 \in Nat /\ Len(issues') \in Nat
  BY DEF Steady
<1>2. IsFiniteSet(T)
  <2> HIDE DEF f
  <2> QED BY <1>1, FiniteKeys
<1>3. KeysBetween(i, Len(issues) + 1)' = T \ {NoKey}
  <2>1. Len(issues') + 1 - 1 = Len(issues')
    BY <1>1
  <2> QED BY <2>1 DEF KeysBetween
<1>4. IsFiniteSet(T \ {NoKey})
  BY <1>2, FS_Subset
<1>5. ASSUME NEW x \in KeysBetween(i, Len(issues) + 1) PROVE x \in KeysBetween(i, Len(issues) + 1)'
  <2>1. PICK m \in i + 1 .. Len(issues) + 1 - 1 : x = asked[issues[m]].key
    BY DEF KeysBetween
  <2>2. m \in DOMAIN issues /\ m \in i + 1 .. Len(issues')
    BY DEF Steady
  <2>3. x = asked'[issues'[m]].key
    BY <2>1, <2>2 DEF Steady
  <2>4. x # NoKey
    BY DEF KeysBetween
  <2> QED BY <1>3, <2>2, <2>3, <2>4
<1> QED BY <1>3, <1>4, <1>5

LEMMA OverKept ==
  ASSUME Steady, NEW i \in DOMAIN issues, Over(i)
  PROVE  Over(i)'
<1>a. i \in Nat /\ issues'[i] = issues[i] /\ asked'[issues[i]] = asked[issues[i]]
  BY DEF Steady
<1>1. CASE promise[issues[i]] = "rejected"
  BY <1>1, <1>a DEF Over, Steady
<1>2. CASE now - asked[issues[i]].at >= Ttl
  <2>1. now' - asked'[issues'[i]].at >= Ttl
    BY <1>2, <1>a, ConfigAssumption DEF Steady
  <2> QED BY <2>1 DEF Over
<1>3. CASE Cardinality(KeysBetween(i, Len(issues) + 1)) >= MaxEntries
  <2> DEFINE K == KeysBetween(i, Len(issues) + 1)
             L == KeysBetween(i, Len(issues) + 1)'
  <2>1. IsFiniteSet(L) /\ K \subseteq L
    BY <1>a, KeysGrow
  <2>2. IsFiniteSet(K) /\ Cardinality(K) <= Cardinality(L)
    <3> HIDE DEF K, L
    <3> QED BY <2>1, FS_Subset
  <2>3. Cardinality(K) \in Nat /\ Cardinality(L) \in Nat
    <3> HIDE DEF K, L
    <3> QED BY <2>1, <2>2, FS_CardinalityType
  <2>4. Cardinality(L) >= MaxEntries
    <3>1. Cardinality(K) >= MaxEntries
      BY <1>3
    <3> HIDE DEF K, L
    <3> QED BY <2>2, <2>3, <3>1, ConfigAssumption
  <2> QED BY <2>4 DEF Over
<1> QED BY <1>1, <1>2, <1>3 DEF Over

\* An issue that is not over has its entry: it is neither expired nor pushed out.
LEMMA LifetimeKept ==
  ASSUME TypeOK, TypeOK', IssueInv, TimeInv, EntryInv, StoreInv, LifetimeInv, [Next]_vars
  PROVE  LifetimeInv'
<1>s. Steady
  BY StepSteady
<1>a. \A i \in DOMAIN issues :
        /\ i \in Nat /\ issues[i] \in Requests /\ pc[issues[i]] # "idle" /\ issues'[i] = issues[i]
        /\ asked'[issues[i]] = asked[issues[i]] /\ asked[issues[i]].at \in Nat
  BY <1>s DEF Steady, IssueInv
<1>o. ASSUME NEW i \in DOMAIN issues PROVE Over(i) => Over(i)'
  BY <1>s, OverKept
<1>b. ASSUME DOMAIN issues' = DOMAIN issues,
             \A i \in DOMAIN issues, e \in entries : e.owner = issues[i] =>
               Over(i) \/ Over(i)' \/ \E d \in entries' : d.owner = issues[i]
      PROVE LifetimeInv'
  <2> SUFFICES ASSUME NEW i \in DOMAIN issues', asked'[issues'[i]].key # NoKey
               PROVE  Over(i)' \/ \E d \in entries' : d.owner = issues'[i]
    BY DEF LifetimeInv
  <2>1. i \in DOMAIN issues /\ asked[issues[i]].key # NoKey /\ issues'[i] = issues[i]
    BY <1>a, <1>b
  <2>2. Over(i) \/ \E e \in entries : e.owner = issues[i]
    BY <2>1 DEF LifetimeInv
  <2>3. Over(i) \/ Over(i)' \/ \E d \in entries' : d.owner = issues[i]
    BY <1>b, <2>1, <2>2
  <2> QED BY <1>o, <2>1, <2>3
<1>c. ASSUME NEW i \in DOMAIN issues, NEW e \in entries, e.owner = issues[i], ~Over(i)
      PROVE  e \in Fresh(entries)
  <2>1. asked[issues[i]].at = e.firstSeen
    BY <1>c DEF EntryInv
  <2>2. now \in Nat /\ asked[issues[i]].at \in Nat
    BY <1>a DEF TypeOK
  <2>3. ~(now - asked[issues[i]].at >= Ttl)
    BY <1>c DEF Over
  <2>4. now - e.firstSeen < Ttl
    BY <2>1, <2>2, <2>3, ConfigAssumption
  <2> QED BY <2>4 DEF Fresh
<1>1. CASE UNCHANGED <<entries, issues>>
  BY <1>1, <1>b
<1>2. ASSUME NEW r \in Requests, NEW b \in Bodies, AskUnkeyed(r, b) PROVE LifetimeInv'
  <2>1. /\ NewIssue(r) /\ asked' = [asked EXCEPT ![r] = [key |-> NoKey, body |-> b, at |-> now]]
        /\ entries' = entries
    BY <1>2, AskEffect DEF AskUnkeyed
  <2>2. asked'[r].key = NoKey
    BY <2>1 DEF TypeOK
  <2> SUFFICES ASSUME NEW i \in DOMAIN issues', asked'[issues'[i]].key # NoKey
               PROVE  Over(i)' \/ \E d \in entries' : d.owner = issues'[i]
    BY DEF LifetimeInv
  <2>3. i \in DOMAIN issues /\ asked[issues[i]].key # NoKey /\ issues'[i] = issues[i]
    BY <1>a, <2>1, <2>2 DEF NewIssue
  <2>4. Over(i) \/ \E e \in entries : e.owner = issues[i]
    BY <2>3 DEF LifetimeInv
  <2> QED BY <1>o, <2>1, <2>3, <2>4
<1>3. ASSUME NEW r \in Requests, NEW b \in Bodies, NEW k \in Keys, AskNew(r, k, b) PROVE LifetimeInv'
  <2> DEFINE new == NewEntry(r, k, b)
             F   == Fresh(entries) \union {new}
  <2>1. /\ NewIssue(r) /\ UNCHANGED now
        /\ asked' = [asked EXCEPT ![r] = [key |-> k, body |-> b, at |-> now]]
    BY <1>3, AskEffect DEF AskNew
  <2>2. entries' = Capped(F) /\ \A e \in Fresh(entries) : e.key # k
    BY <1>3 DEF AskNew, NewEntry
  <2>3. /\ new.owner = r /\ new.key = k /\ new.firstSeen = now /\ new.turn = Len(issues) + 1
        /\ asked'[r].key = k /\ asked'[r].at = now
    BY <2>1 DEF NewEntry, TypeOK
  <2>4. Fresh(entries) \subseteq entries
    BY DEF Fresh
  <2>5. IsFiniteSet(F)
    BY <2>4, FS_Subset, FS_AddElement DEF StoreInv
  <2>6. \A e \in entries : /\ e.turn \in DOMAIN issues /\ issues[e.turn] = e.owner
                           /\ asked[e.owner].key = e.key /\ asked[e.owner].at = e.firstSeen
                           /\ e.key \in Keys
    BY DEF EntryInv, TypeOK, Entries
  <2>7. ASSUME NEW d \in F
        PROVE  /\ d.turn \in DOMAIN issues' /\ d.key # NoKey
               /\ asked'[issues'[d.turn]].key = d.key /\ asked'[issues'[d.turn]].at = d.firstSeen
    <3>1. CASE d \in Fresh(entries)
      <4>1. d \in entries /\ d.turn \in DOMAIN issues
        BY <2>4, <2>6, <3>1
      <4>2. d.owner = issues[d.turn]
        BY <2>6, <4>1
      <4>3. issues'[d.turn] = d.owner /\ asked'[d.owner] = asked[d.owner]
        BY <1>a, <4>1, <4>2
      <4> QED BY <2>1, <2>6, <4>1, <4>3, KeyAssumption DEF NewIssue
    <3>2. CASE d = new
      BY <2>1, <2>3, <3>2, KeyAssumption DEF NewIssue
    <3> QED BY <2>7, <3>1, <3>2
  <2>8. new \in Capped(F)
    <3> SUFFICES ASSUME new \notin Capped(F) PROVE FALSE
      OBVIOUS
    <3>1. ~(Cardinality(F) <= MaxEntries) /\ \A d \in F : ~Older(d, new)
      <4>1. new \in F
        OBVIOUS
      <4> HIDE DEF F, new
      <4> QED BY <4>1, PushedOut
    <3>2. F # {new}
      <4>1. F = {new} => Cardinality(F) = 1
        BY FS_Singleton
      <4> HIDE DEF F
      <4> QED BY <3>1, <4>1, ConfigAssumption
    <3>3. PICK d \in Fresh(entries) : d # new
      BY <3>2
    <3>4. d.turn \in DOMAIN issues /\ d.firstSeen = asked[d.owner].at /\ d.owner = issues[d.turn]
      BY <2>4, <2>6, <3>3
    <3>5. d.firstSeen <= now /\ d.firstSeen \in Nat /\ now \in Nat
      BY <1>a, <3>4 DEF TimeInv, TypeOK
    <3>6. d.turn < Len(issues) + 1
      BY <2>1, <3>4 DEF NewIssue
    <3>7. Older(d, new)
      BY <2>3, <3>5, <3>6 DEF Older
    <3> QED BY <3>1, <3>7
  <2>9. ASSUME NEW i \in DOMAIN issues, asked[issues[i]].key # NoKey, ~Over(i)
        PROVE  Over(i)' \/ \E d \in entries' : d.owner = issues[i]
    <3>1. PICK e \in entries : e.owner = issues[i]
      BY <2>9 DEF LifetimeInv
    <3>2. e \in F
      BY <1>c, <2>9, <3>1
    <3>3. e.turn = i
      <4>1. e.turn \in DOMAIN issues /\ issues[e.turn] = issues[i]
        BY <2>6, <3>1
      <4> QED BY <4>1 DEF IssueInv
    <3>4. CASE e \in Capped(F)
      BY <2>2, <3>1, <3>4
    <3>5. CASE e \notin Capped(F)
      <4> DEFINE K == KeysBetween(i, Len(issues) + 1)'
                 g == [d \in F \ {e} |-> d.key]
      <4>1. ~(Cardinality(F) <= MaxEntries) /\ \A d \in F : ~Older(d, e)
        <5> HIDE DEF F
        <5> QED BY <3>2, <3>5, PushedOut
      <4>2. TimeInv'
        BY TimeKept
      <4>3. ASSUME NEW d \in F \ {e} PROVE d.turn > i /\ d.key \in K
        <5>1. d.turn \in DOMAIN issues' /\ i \in DOMAIN issues' /\ DOMAIN issues' = 1 .. Len(issues')
              /\ Len(issues') \in Nat
          BY <1>s, <2>7, <4>3 DEF Steady
        <5>2. d.firstSeen \in Nat /\ e.firstSeen \in Nat
          <6>1. \A x \in entries : x.firstSeen \in Nat
            BY DEF TypeOK, Entries
          <6>2. new.firstSeen \in Nat
            BY <2>3 DEF TypeOK
          <6> HIDE DEF new
          <6> QED BY <2>4, <6>1, <6>2
        <5>3. d.turn < i => d.firstSeen <= e.firstSeen
          BY <2>7, <3>2, <3>3, <4>2, <5>1 DEF TimeInv
        <5>4. ~(d.turn < i)
          BY <3>3, <4>1, <5>1, <5>2, <5>3 DEF Older
        <5>5. d.turn # i
          <6> SUFFICES ASSUME d.turn = i PROVE FALSE
            OBVIOUS
          <6>1. d \in entries
            <7>1. d # new
              BY <2>1, <2>3 DEF NewIssue
            <7> HIDE DEF new
            <7> QED BY <2>4, <7>1
          <6>2. d.key = e.key
            BY <2>7, <3>2, <3>3
          <6> QED BY <4>3, <6>1, <6>2 DEF TypeOK
        <5>6. d.turn > i
          BY <5>1, <5>4, <5>5
        <5>7. d.turn \in i + 1 .. Len(issues') + 1 - 1
          BY <5>1, <5>6
        <5>8. d.key = asked'[issues'[d.turn]].key /\ d.key # NoKey
          BY <2>7
        <5> QED BY <5>6, <5>7, <5>8 DEF KeysBetween
      <4>4. \A c, d \in F \ {e} : c.key = d.key => c = d
        <5>1. \A c, d \in entries : c.key = d.key => c = d
          BY DEF TypeOK
        <5> QED BY <2>2, <2>3, <2>4, <5>1
      <4>5. g \in Injection(F \ {e}, K)
        <5> HIDE DEF F, K
        <5> QED BY <4>3, <4>4 DEF Injection, IsInjective
      <4>6. IsFiniteSet(K)
        BY <1>s, <1>a, KeysGrow
      <4>7. Cardinality(F \ {e}) <= Cardinality(K)
        <5> HIDE DEF g, K, F
        <5> QED BY <4>5, <4>6, FS_Injection
      <4>8. Cardinality(F \ {e}) = Cardinality(F) - 1
        <5> HIDE DEF F
        <5> QED BY <2>5, <3>2, FS_RemoveElement
      <4>9. Cardinality(F) \in Nat /\ Cardinality(K) \in Nat
        <5> HIDE DEF F, K
        <5> QED BY <2>5, <4>6, FS_CardinalityType
      <4>10. Cardinality(K) >= MaxEntries
        <5> HIDE DEF F, K
        <5> QED BY <4>1, <4>7, <4>8, <4>9, ConfigAssumption
      <4> QED BY <4>10 DEF Over
    <3> QED BY <3>4, <3>5
  <2>10. SUFFICES ASSUME NEW i \in DOMAIN issues', asked'[issues'[i]].key # NoKey
                  PROVE  Over(i)' \/ \E e \in entries' : e.owner = issues'[i]
    BY DEF LifetimeInv
  <2>11. CASE i \in DOMAIN issues
    <3>1. asked[issues[i]].key # NoKey /\ issues'[i] = issues[i]
      BY <1>a, <2>10, <2>11
    <3> QED BY <1>o, <2>9, <2>11, <3>1
  <2>12. CASE i = Len(issues) + 1
    BY <2>1, <2>2, <2>3, <2>8, <2>12 DEF NewIssue
  <2> QED BY <2>1, <2>11, <2>12 DEF NewIssue
<1>4. ASSUME NEW r \in Requests, NEW b \in Bodies, NEW k \in Keys, AskAgain(r, k, b) PROVE LifetimeInv'
  <2>1. issues' = issues /\ entries' = Fresh(entries)
    BY <1>4 DEF AskAgain
  <2> QED BY <1>b, <1>c, <2>1
<1>5. ASSUME NEW r \in Requests, Finish(r) PROVE LifetimeInv'
  <2>1. issues' = issues /\ pc[r] = "issuing" /\ promise[r] # "pending"
    BY <1>5 DEF Finish
  <2>2. CASE promise[r] = "resolved"
    <3>1. \A e \in entries : (IF Completes(r, e) THEN Completed(r, e) ELSE e) \in entries'
      BY <1>5, <2>2 DEF Finish
    <3>2. \A e \in entries : Completes(r, e) => Completed(r, e).owner = e.owner
      BY DEF Completes, Completed
    <3>3. \A e \in entries : \E d \in entries' : d.owner = e.owner
      BY <3>1, <3>2
    <3> QED BY <1>b, <2>1, <3>3
  <2>3. CASE promise[r] # "resolved"
    <3>1. promise[r] = "rejected"
      BY <2>1, <2>3 DEF IssueInv, TypeOK
    <3>2. \A e \in entries : e \in entries' \/ e.owner = r
      BY <1>5, <2>3 DEF Finish, Completes
    <3>3. \A i \in DOMAIN issues : issues[i] = r => Over(i)
      BY <3>1 DEF Over
    <3> QED BY <1>b, <2>1, <3>2, <3>3
  <2> QED BY <2>2, <2>3
<1> QED
  BY <1>1, <1>2, <1>3, <1>4, <1>5 DEF Next, vars, Tick, Settle, FinishJoined

\* A key that is issued again has no issue that is not over.
LEMMA OnceKept ==
  ASSUME TypeOK, TypeOK', IssueInv, EntryInv, LifetimeInv, IssuedOncePerLifetime, [Next]_vars
  PROVE  IssuedOncePerLifetime'
<1>s. Steady
  BY StepSteady
<1>a. \A i \in DOMAIN issues :
        /\ i \in Nat /\ issues[i] \in Requests /\ issues'[i] = issues[i]
        /\ asked'[issues[i]] = asked[issues[i]] /\ asked[issues[i]].at \in Nat
        /\ promise[issues[i]] = "rejected" => promise'[issues[i]] = "rejected"
  BY <1>s DEF Steady
<1> SUFFICES ASSUME NEW i \in DOMAIN issues', NEW j \in DOMAIN issues', i < j,
                    asked'[issues'[i]].key = asked'[issues'[j]].key, asked'[issues'[i]].key # NoKey
             PROVE  \/ promise'[issues'[i]] = "rejected"
                    \/ asked'[issues'[j]].at - asked'[issues'[i]].at >= Ttl
                    \/ Cardinality(KeysBetween(i, j)') >= MaxEntries
  BY DEF IssuedOncePerLifetime
<1>b. /\ i \in Nat /\ j \in Nat /\ Len(issues) \in Nat
      /\ DOMAIN issues = 1 .. Len(issues) /\ DOMAIN issues' = 1 .. Len(issues')
  BY <1>s DEF Steady
<1>1. CASE j \in DOMAIN issues
  <2>1. i \in DOMAIN issues
    BY <1>1, <1>b
  <2>2. \/ promise[issues[i]] = "rejected"
        \/ asked[issues[j]].at - asked[issues[i]].at >= Ttl
        \/ Cardinality(KeysBetween(i, j)) >= MaxEntries
    BY <1>1, <1>a, <2>1 DEF IssuedOncePerLifetime
  <2>3. KeysBetween(i, j)' = KeysBetween(i, j)
    BY <1>s, <1>1, <1>b, KeysStay
  <2> QED BY <1>1, <1>a, <2>1, <2>2, <2>3
<1>2. CASE j \notin DOMAIN issues
  <2>1. PICK r \in Requests, b \in Bodies, k \in Keys \union {NoKey} :
          Asks(r, k, b) /\ Issues(r) /\ ((AskUnkeyed(r, b) /\ k = NoKey) \/ AskNew(r, k, b))
    <3>1. issues' # issues
      BY <1>2
    <3> QED BY <3>1 DEF Next, vars, Tick, AskAgain, Settle, Finish, FinishJoined, AskUnkeyed, AskNew
  <2>2. /\ NewIssue(r) /\ UNCHANGED now
        /\ asked' = [asked EXCEPT ![r] = [key |-> k, body |-> b, at |-> now]]
    BY <2>1, AskEffect
  <2>3. j = Len(issues) + 1 /\ i \in DOMAIN issues
    BY <1>2, <1>b, <2>2 DEF NewIssue
  <2>4. issues'[j] = r /\ asked'[r].key = k /\ asked'[r].at = now
    BY <2>2, <2>3 DEF NewIssue, TypeOK
  <2>5. asked[issues[i]].key = k /\ k # NoKey
    BY <1>a, <2>3, <2>4
  <2>6. \A e \in Fresh(entries) : e.key # k
    BY <2>1, <2>5 DEF AskNew
  <2>7. CASE Over(i)
    <3>1. KeysBetween(i, j)' = KeysBetween(i, Len(issues) + 1)
      BY <1>s, <1>b, <2>3, KeysStay
    <3> QED BY <1>a, <2>3, <2>4, <2>7, <3>1 DEF Over
  <2>8. CASE ~Over(i)
    <3>1. PICK e \in entries : e.owner = issues[i]
      BY <2>3, <2>5, <2>8 DEF LifetimeInv
    <3>2. e.key = k /\ e.firstSeen = asked[issues[i]].at
      BY <2>5, <3>1 DEF EntryInv
    <3>3. ~(now - e.firstSeen < Ttl)
      BY <2>6, <3>2 DEF Fresh
    <3>4. now - asked[issues[i]].at >= Ttl
      BY <1>a, <2>3, <3>2, <3>3, ConfigAssumption DEF TypeOK
    <3> QED BY <2>8, <2>3, <3>4 DEF Over
  <2> QED BY <2>7, <2>8
<1> QED BY <1>1, <1>2

-----------------------------------------------------------------------------
\* Theorems

LEMMA Inductive == IInv /\ [Next]_vars => IInv'
<1> SUFFICES ASSUME IInv, [Next]_vars PROVE IInv'
  OBVIOUS
<1> USE DEF IInv
<1>1. TypeOK'
  BY TypeKept
<1>2. IssueInv' /\ TimeInv' /\ EntryInv'
  BY IssueKept, TimeKept, EntryKept
<1>3. AnswerInv' /\ StoreInv'
  BY AnswerKept, StoreKept
<1>4. LifetimeInv'
  BY <1>1, LifetimeKept
<1>5. IssuedOncePerLifetime'
  BY <1>1, OnceKept
<1> QED BY <1>1, <1>2, <1>3, <1>4, <1>5

(* Through requests, answers, expiry and eviction, the store of
   command-idempotency.ts keeps an entry of every issue that is not over. *)
THEOREM Invariance == Spec => []IInv
<1>1. Init => IInv
  BY InitEstablishes
<1>2. IInv /\ [Next]_vars => IInv'
  BY Inductive
<1> QED BY <1>1, <1>2, PTL DEF Spec

(* Whatever is asked and whenever issues end, every variable keeps its type and
   the store of command-idempotency.ts has one entry for a key at most. *)
THEOREM TypeCorrect == Spec => []TypeOK
<1>1. IInv => TypeOK
  BY DEF IInv
<1> QED BY <1>1, Invariance, PTL

(* A key is issued twice only if the first issue threw, is a time to live old, or
   was followed by issues of as many other keys as the store has room for. *)
THEOREM OncePerLifetime == Spec => []IssuedOncePerLifetime
<1>1. IInv => IssuedOncePerLifetime
  BY DEF IInv
<1> QED BY <1>1, Invariance, PTL

(* A request is answered from an issue of its own key and body that had not
   expired when it asked, and from a result only once the issue has one. *)
THEOREM OwnAnswers == Spec => []AnswersAreTheirOwn
<1>1. IInv => AnswersAreTheirOwn
  BY DEF IInv, AnswerInv, AnswersAreTheirOwn
<1> QED BY <1>1, Invariance, PTL

(* The store of command-idempotency.ts never holds more than maxEntries. *)
THEOREM Bounded == Spec => []StoreBounded
<1>1. IInv => StoreBounded
  BY DEF IInv, StoreInv
<1> QED BY <1>1, Invariance, PTL

(* An issue that threw leaves no entry behind once its request has ended. *)
THEOREM FailedLeaveNothing == Spec => []FailureFreesKey
<1>1. IInv => FailureFreesKey
  BY DEF IInv, EntryInv, FailureFreesKey
<1> QED BY <1>1, Invariance, PTL
=============================================================================
