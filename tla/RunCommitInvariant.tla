-------------------------- MODULE RunCommitInvariant --------------------------
(* The inductive invariant of RunCommit, by concern.  RunCommitProofs shows that
   every step keeps it and that the safety properties follow from it. *)
EXTENDS RunCommit

Working == {"append", "save", "observe", "failing"}

\* A runtime is in memory; before that and after a crash there is nothing in it.
Loaded == Live \/ phase = "closed"

\* The publish queue holds each waiting publisher once; only its head works.
QueueInv ==
  /\ \A i, j \in 1..Len(publishing) : publishing[i] = publishing[j] => i = j
  /\ \A i \in 1..Len(publishing) :
       pc[publishing[i]] = "queued" \/ (i = 1 /\ pc[publishing[i]] \in Working)
  /\ \A p \in Publishers : pc[p] \in Working => publishing # <<>> /\ Head(publishing) = p

\* The save queue holds each awaiting publisher once, and a save is at work only
\* at its head.
SaveInv ==
  /\ \A i, j \in 1..Len(saving) : saving[i] = saving[j] => i = j \/ saving[i] = Timer
  /\ \A i \in 1..Len(saving) : saving[i] # Timer => pc[saving[i]] = "save"
  /\ saveStep # "idle" => saving # <<>>
  /\ saveStep = "writing" /\ Head(saving) # Timer => written[Head(saving)] \subseteq capture.durable

\* A state reflects durable events of the journal, and all of them up to its seq.
Reflects(st) ==
  /\ st.durable \subseteq journal
  /\ \A s \in st.durable : s <= st.seq
  /\ ~overtaken => \A s \in journal : s <= st.seq => s \in st.durable

Covers(st, earlier) == earlier.seq <= st.seq /\ earlier.durable \subseteq st.durable

\* Journal, committed state, save in flight and snapshot follow one another.
DataInv ==
  /\ \A s \in journal : s > 0
  /\ Reflects(committed)
  /\ snapshot # NoSnapshot => Reflects(snapshot)
  /\ Loaded => snapshot # NoSnapshot /\ committed.seq <= seq /\ Covers(committed, snapshot)
  /\ saveStep = "writing" =>
       Reflects(capture) /\ Covers(capture, snapshot) /\ Covers(committed, capture)
  /\ \A p \in Publishers :
       /\ written[p] \subseteq committed.durable
       /\ pc[p] = "append" =>
            /\ committed.seq < batch[p].last /\ batch[p].last <= seq
            /\ \A s \in batch[p].durable : committed.seq < s /\ s <= batch[p].last
            /\ ~overtaken => journal \subseteq committed.durable
            /\ ~overtaken /\ batch[p].durable # {} => checked

\* Nothing on disk is in doubt while the Run has not failed.
DoubtInv ==
  /\ Loaded /\ failure = "none" => ~marker /\ quarantine = "none"
  /\ Loaded /\ failure = "none" /\ ~overtaken => journal \subseteq committed.durable /\ ~damaged
  /\ failure # "none" => quarantine # "none"
  /\ snapshot = NoSnapshot => journal = {} /\ ~marker /\ ~damaged
  /\ phase = "starting" => snapshot = NoSnapshot /\ committed = Empty /\ seq = 0
  /\ ~Loaded => /\ publishing = <<>> /\ saving = <<>> /\ saveStep = "idle" /\ ~timer
                /\ failure = "none" /\ quarantine = "none" /\ committed = Empty
                /\ \A p \in Publishers : pc[p] = "idle" /\ written[p] = {}

\* What a command's request has committed is on disk but for the batch it saves.
AckInv ==
  /\ \A p \in Publishers : pc[p] \notin {"save", "failing"} /\ written[p] # {} =>
       snapshot # NoSnapshot /\ written[p] \subseteq snapshot.durable
  /\ acked # {} => snapshot # NoSnapshot /\ acked \subseteq snapshot.durable

\* close leaves less and less in flight.
CloseInv ==
  /\ phase \in {"clock", "emissions", "connection", "saves", "final", "closed"} =>
       \A c \in Commands : pc[c] = "idle"
  /\ failure = "none" =>
       /\ phase \in {"connection", "saves", "final", "closed"} =>
            \A e \in Emitters : pc[e] = "idle"
       /\ phase \in {"saves", "final", "closed"} => ~timer
       /\ phase \in {"final", "closed"} => saving = <<>>
       /\ phase = "closed" => snapshot = committed
  /\ phase = "final" => failure = "none"

\* An append left in flight keeps the next runtime out, by the marker on disk or
\* else by nothing; until one is let in, it is the only one and extends the journal.
LateInv ==
  /\ \A i \in 1..Len(late) : \A s \in late[i] : s > 0
  /\ late # <<>> => snapshot # NoSnapshot /\ (marker \/ unproven)
  /\ overtaken => unproven
  /\ quarantine = "settled" => marker \/ unproven
  /\ phase = "closed" /\ failure # "none" => quarantine = "settled"
  /\ ~overtaken =>
       /\ Len(late) <= 1
       /\ late # <<>> => ~Loaded
       /\ \A i \in 1..Len(late) : \A s \in late[i] :
            snapshot.seq < s /\ \A t \in journal : t < s

IInv == /\ TypeOK /\ QueueInv /\ SaveInv /\ DataInv /\ DoubtInv /\ AckInv /\ CloseInv
        /\ LateInv
=============================================================================
