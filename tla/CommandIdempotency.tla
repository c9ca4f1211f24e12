-------------------------- MODULE CommandIdempotency --------------------------
(* Keyed retries of a command in World: command-idempotency.ts.

   A request with an idempotency key is issued, joins the issue in flight under
   its key, replays its result or is refused.  The store forgets an entry when it
   expires or when there are too many, whether or not its issue is still in
   flight, so that a late completion can meet the entry of a younger issue.

   A step is the code between two awaits.  A result is the request that was
   issued for it.  The clock never goes back, and the store lives as long as its
   runtime: nothing is remembered across a reload. *)
EXTENDS Naturals, Sequences, FiniteSets

CONSTANTS
  Requests,    \* calls of issueCommandWithIdempotency
  Keys,        \* tuple keys: run, actor, client, kind and idempotency key
  NoKey,       \* a command without an idempotency key
  Bodies,      \* fingerprints of targets, payload, roles and expected revision
  Ttl,         \* ttlMs
  MaxEntries,  \* maxEntries
  MaxTime      \* bound: of the clock

ASSUME KeyAssumption == NoKey \notin Keys
ASSUME BodiesAssumption == Bodies # {}
ASSUME ConfigAssumption == Ttl \in Nat \ {0} /\ MaxEntries \in Nat \ {0} /\ MaxTime \in Nat

VARIABLES
  now,      \* Date.now()
  entries,  \* store.entries; turn is their order of insertion
  pc,       \* of each request: idle, issuing, joined, answered, refused, threw
  asked,    \* what each request asked, and when
  promise,  \* of each issue: none, pending, resolved, rejected
  answer,   \* the request whose issue a request waits for or was answered from
  issues    \* history: the requests that were issued, in order

vars == <<now, entries, pc, asked, promise, answer, issues>>

Init ==
  /\ now = 0 /\ entries = {}
  /\ pc = [r \in Requests |-> "idle"]
  /\ asked = [r \in Requests |-> [key |-> NoKey, body |-> CHOOSE b \in Bodies : TRUE, at |-> 0]]
  /\ promise = [r \in Requests |-> "none"]
  /\ answer = [r \in Requests |-> r]
  /\ issues = <<>>

Tick ==
  /\ now < MaxTime
  /\ now' = now + 1
  /\ UNCHANGED <<entries, pc, asked, promise, answer, issues>>

\* What pruneExpired leaves.
Fresh(E) == {e \in E : now - e.firstSeen < Ttl}

Older(d, e) == \/ d.firstSeen < e.firstSeen
               \/ d.firstSeen = e.firstSeen /\ d.turn < e.turn

\* Mutant: the youngest entry makes room.
CappedYoungest(E) ==
  IF Cardinality(E) <= MaxEntries THEN E ELSE {e \in E : \E d \in E : Older(e, d)}

\* Mutant: room is made before the new entry is added, and never for it.
CappedLate(E) ==
  IF Cardinality(E) <= MaxEntries + 1 THEN E ELSE {e \in E : \E d \in E : Older(d, e)}

\* What pruneToMaxEntries leaves of a store that has just got one entry more.
Capped(E) ==
  IF Cardinality(E) <= MaxEntries THEN E ELSE {e \in E : \E d \in E : Older(d, e)}

-----------------------------------------------------------------------------
(* The part of a request before its first await. *)

Asks(r, k, b) ==
  /\ pc[r] = "idle"
  /\ asked' = [asked EXCEPT ![r] = [key |-> k, body |-> b, at |-> now]]
  /\ UNCHANGED now

Issues(r) ==
  /\ pc' = [pc EXCEPT ![r] = "issuing"]
  /\ promise' = [promise EXCEPT ![r] = "pending"]
  /\ issues' = Append(issues, r)
  /\ UNCHANGED answer

\* Mutant: commands without a key are remembered under none.
AskUnkeyedStored(r, b) ==
  /\ Asks(r, NoKey, b) /\ Issues(r)
  /\ entries' = Capped(Fresh(entries) \union
                  {[key |-> NoKey, body |-> b, firstSeen |-> now, owner |-> r,
                    turn |-> Len(issues) + 1, done |-> FALSE]})

AskUnkeyed(r, b) == Asks(r, NoKey, b) /\ Issues(r) /\ UNCHANGED entries

AskNew(r, k, b) ==
  /\ Asks(r, k, b)
  /\ \A e \in Fresh(entries) : e.key # k
  /\ entries' = Capped(Fresh(entries) \union
                  {[key |-> k, body |-> b, firstSeen |-> now, owner |-> r,
                    turn |-> Len(issues) + 1, done |-> FALSE]})
  /\ Issues(r)

\* The key's entry is for another body, has its result, or is in flight.
AskAgain(r, k, b) ==
  /\ Asks(r, k, b)
  /\ entries' = Fresh(entries)
  /\ \E e \in Fresh(entries) :
       /\ e.key = k
       /\ IF e.body # b
          THEN pc' = [pc EXCEPT ![r] = "refused"] /\ UNCHANGED answer
          ELSE /\ pc' = [pc EXCEPT ![r] = IF e.done THEN "answered" ELSE "joined"]
               /\ answer' = [answer EXCEPT ![r] = e.owner]
  /\ UNCHANGED <<promise, issues>>

-----------------------------------------------------------------------------
(* The issue ends, with a result or by throwing; those who await it go on. *)

Settle(r) ==
  /\ promise[r] = "pending"
  /\ \E outcome \in {"resolved", "rejected"} : promise' = [promise EXCEPT ![r] = outcome]
  /\ UNCHANGED <<now, entries, pc, asked, answer, issues>>

\* Mutant: the issue completes whatever entry its key has by now.
CompletesAny(r, e) == e.key = asked[r].key

\* current?.inFlight === inFlight
Completes(r, e) == e.owner = r /\ ~e.done

\* The entry that takes its place: it keeps its time and its turn.
Completed(r, e) == [key |-> e.key, body |-> asked[r].body, firstSeen |-> e.firstSeen,
                    owner |-> r, turn |-> e.turn, done |-> TRUE]

\* Mutant: an issue that threw stays in the store.
FinishKeepsFailed(r) ==
  /\ pc[r] = "issuing" /\ promise[r] # "pending"
  /\ pc' = [pc EXCEPT ![r] = IF promise[r] = "resolved" THEN "answered" ELSE "threw"]
  /\ entries' = {IF Completes(r, e) THEN Completed(r, e) ELSE e : e \in entries}
  /\ UNCHANGED <<now, asked, promise, answer, issues>>

Finish(r) ==
  /\ pc[r] = "issuing" /\ promise[r] # "pending"
  /\ IF promise[r] = "resolved"
     THEN /\ pc' = [pc EXCEPT ![r] = "answered"]
          /\ entries' = {IF Completes(r, e) THEN Completed(r, e) ELSE e :
                           e \in entries}
     ELSE /\ pc' = [pc EXCEPT ![r] = "threw"]
          /\ entries' = {e \in entries : ~Completes(r, e)}
  /\ UNCHANGED <<now, asked, promise, answer, issues>>

FinishJoined(r) ==
  /\ pc[r] = "joined" /\ promise[answer[r]] # "pending"
  /\ pc' = [pc EXCEPT ![r] = IF promise[answer[r]] = "resolved" THEN "answered" ELSE "threw"]
  /\ UNCHANGED <<now, entries, asked, promise, answer, issues>>

-----------------------------------------------------------------------------
Next == \/ Tick
        \/ \E r \in Requests, b \in Bodies :
             \/ AskUnkeyed(r, b)
             \/ \E k \in Keys : AskNew(r, k, b) \/ AskAgain(r, k, b)
        \/ \E r \in Requests : Settle(r) \/ Finish(r) \/ FinishJoined(r)

Spec == Init /\ [][Next]_vars

-----------------------------------------------------------------------------
Entries == [key : Keys, body : Bodies, firstSeen : Nat, owner : Requests,
            turn : Nat, done : BOOLEAN]

(* Every variable keeps its type, and the store holds one entry for a key at most. *)
TypeOK ==
  /\ now \in 0..MaxTime
  /\ entries \subseteq Entries
  /\ \A d, e \in entries : d.key = e.key => d = e
  /\ pc \in [Requests -> {"idle", "issuing", "joined", "answered", "refused", "threw"}]
  /\ asked \in [Requests -> [key : Keys \union {NoKey}, body : Bodies, at : Nat]]
  /\ promise \in [Requests -> {"none", "pending", "resolved", "rejected"}]
  /\ answer \in [Requests -> Requests]
  /\ issues \in Seq(Requests)

\* The keys issued between the i-th and the j-th issue.
KeysBetween(i, j) == {asked[issues[m]].key : m \in i + 1..j - 1} \ {NoKey}

(* A key is issued again only if its earlier issue threw, is a time to live ago,
   or was followed by issues of as many other keys as the store has room for:
   concurrent and later retries execute nothing in between. *)
IssuedOncePerLifetime ==
  \A i, j \in DOMAIN issues :
    i < j /\ asked[issues[i]].key = asked[issues[j]].key /\ asked[issues[i]].key # NoKey =>
      \/ promise[issues[i]] = "rejected"
      \/ asked[issues[j]].at - asked[issues[i]].at >= Ttl
      \/ Cardinality(KeysBetween(i, j)) >= MaxEntries

(* A request is answered from an issue of its own key and body that is younger
   than the time to live: never from one that a late completion has written over
   the entry of another. *)
AnswersAreTheirOwn ==
  \A r \in Requests : pc[r] \in {"answered", "joined"} =>
    LET i == answer[r] IN
    /\ asked[i].key = asked[r].key /\ asked[i].body = asked[r].body
    /\ asked[r].at - asked[i].at < Ttl
    /\ pc[r] = "answered" => promise[i] = "resolved"

(* The store never holds more than maxEntries, in-flight entries included. *)
StoreBounded == Cardinality(entries) <= MaxEntries

(* A failed request leaves its key free: once nothing of a key is in flight, an
   entry is there only with a result to replay. *)
FailureFreesKey ==
  \A e \in entries : promise[e.owner] = "rejected" => pc[e.owner] = "issuing"
=============================================================================
