--------------------------- MODULE RunCommitProofs ---------------------------
(* RunCommit's safety properties, for every number of publishers and of events
   and crashes: the inductive invariant of RunCommitInvariant and what follows
   from it. *)
EXTENDS RunCommitInvariant, TLAPS

\* Named: its facts speak of a variable that RunCommit also declares.
SeqFacts == INSTANCE SequenceTheorems

\* Commands and emissions are publishers, and the timer is none of them.
LEMMA PublisherFacts ==
  /\ Commands \subseteq Publishers /\ Emitters \subseteq Publishers
  /\ \A p \in Publishers : p # Timer
  /\ \A p \in Publishers : p \in Commands \/ p \in Emitters
BY PublisherAssumption DEF Publishers

\* Every batch that can be numbered next is above the numbers handed out.
LEMMA BatchFacts ==
  ASSUME seq \in Nat, NEW b \in NextBatches
  PROVE  /\ b \in Batches /\ b.last > seq
         /\ \A s \in b.durable : seq < s /\ s <= b.last
BY BoundAssumption DEF NextBatches, Batches

\* The restored sequence number when the snapshot covers the journal.
LEMMA TopOfCovered ==
  ASSUME NEW n \in Nat, NEW J \in SUBSET Nat, \A s \in J : s <= n
  PROVE  Top({n} \union J) = n
<1>1. n \in {n} \union J /\ \A m \in {n} \union J : m <= n
  OBVIOUS
<1>2. \A k \in {n} \union J : (\A m \in {n} \union J : m <= k) => k = n
  <2> SUFFICES ASSUME NEW k \in {n} \union J, \A m \in {n} \union J : m <= k
               PROVE  k = n
    OBVIOUS
  <2>1. n <= k /\ k <= n /\ k \in Nat
    BY <1>1
  <2> QED
    BY <2>1
<1>3. Top({n} \union J) \in {n} \union J
      /\ \A m \in {n} \union J : m <= Top({n} \union J)
  BY <1>1 DEF Top
<1> QED
  BY <1>2, <1>3

-----------------------------------------------------------------------------
(* Types. *)

\* The initial state, with nothing on disk, is well typed.
LEMMA InitTypes == Init => TypeOK
<1> SUFFICES ASSUME Init PROVE TypeOK
  OBVIOUS
<1>1. NoBatch \in Batches /\ Empty \in States
  BY DEF NoBatch, Batches, Empty, States
<1>2. /\ pc \in [Publishers -> {"idle", "prepared", "queued", "dispatched", "append", "save",
                               "observe", "failing"}]
      /\ half \in [Publishers -> {1, 2}]
      /\ batch \in [Publishers -> Batches] /\ written \in [Publishers -> SUBSET Nat]
  BY <1>1 DEF Init
<1>3. publishing \in Seq(Publishers) /\ saving \in Seq(Publishers \union {Timer})
  BY DEF Init
<1>4. /\ journal \subseteq Nat /\ snapshot \in States \union {NoSnapshot}
      /\ phase = "stopped" /\ seq \in Nat /\ committed \in States /\ capture \in States
      /\ saveStep = "idle" /\ failure = "none" /\ quarantine = "none"
      /\ acked \subseteq Nat /\ crashes \in 0..MaxCrashes
  BY <1>1, BoundAssumption DEF Init
<1>5. /\ damaged \in BOOLEAN /\ marker \in BOOLEAN /\ timer \in BOOLEAN /\ emissionFailure \in BOOLEAN
      /\ checked \in BOOLEAN /\ overtaken \in BOOLEAN /\ unproven \in BOOLEAN
  BY Zenon DEF Init
<1>6. late \in Seq(SUBSET Nat)
  BY DEF Init
<1> QED
  BY <1>2, <1>3, <1>4, <1>5, <1>6 DEF TypeOK

\* A failed commit sets the failure, the quarantine and the timer to values of their types.
LEMMA FailCommitTypes ==
  ASSUME TypeOK, NEW kind \in {"uncertain", "observer"}, FailCommit(kind)
  PROVE  /\ failure' \in {"none", "uncertain", "observer"} /\ failure' # "none"
         /\ quarantine' \in {"none", "writing", "settled"}
         /\ timer' \in BOOLEAN
BY DEF TypeOK, FailCommit, stop

\* What a new life of the process starts from is well typed.
LEMMA ForgetTypes ==
  ASSUME Forget
  PROVE  /\ publishing' \in Seq(Publishers) /\ saving' \in Seq(Publishers \union {Timer})
         /\ pc' \in [Publishers -> {"idle", "prepared", "queued", "dispatched", "append", "save",
                                   "observe", "failing"}]
         /\ half' \in [Publishers -> {1, 2}]
         /\ batch' \in [Publishers -> Batches] /\ written' \in [Publishers -> SUBSET Nat]
         /\ saveStep' = "idle" /\ capture' \in States /\ Empty \in States
         /\ failure' = "none" /\ quarantine' = "none"
         /\ timer' \in BOOLEAN /\ emissionFailure' \in BOOLEAN /\ checked' \in BOOLEAN
<1>1. NoBatch \in Batches /\ Empty \in States
  BY DEF NoBatch, Batches, Empty, States
<1>2. /\ publishing' \in Seq(Publishers) /\ saving' \in Seq(Publishers \union {Timer})
      /\ saveStep' = "idle" /\ capture' \in States
      /\ failure' = "none" /\ quarantine' = "none"
  BY <1>1 DEF Forget
<1>3. /\ pc' \in [Publishers -> {"idle", "prepared", "queued", "dispatched", "append", "save",
                                "observe", "failing"}]
      /\ half' \in [Publishers -> {1, 2}]
      /\ batch' \in [Publishers -> Batches] /\ written' \in [Publishers -> SUBSET Nat]
  BY <1>1 DEF Forget
<1>4. timer' \in BOOLEAN /\ emissionFailure' \in BOOLEAN /\ checked' \in BOOLEAN
  BY Zenon DEF Forget
<1> QED
  BY <1>1, <1>2, <1>3, <1>4

\* The publishers and the queue once a publish at the head is over.
LEMMA SettleTypes ==
  ASSUME TypeOK, NEW p \in Publishers, publishing # <<>>, Reject(p) \/ Dismiss(p) \/ Succeed(p)
  PROVE  /\ publishing' \in Seq(Publishers)
         /\ pc' \in [Publishers -> {"idle", "prepared", "queued", "dispatched", "append", "save",
                                   "observe", "failing"}]
         /\ written' \in [Publishers -> SUBSET Nat] /\ half' \in [Publishers -> {1, 2}]
         /\ emissionFailure' \in BOOLEAN
         /\ acked' \subseteq Nat
<1>1. publishing' \in Seq(Publishers)
  <2>1. publishing \in Seq(Publishers)
    BY DEF TypeOK
  <2>2. publishing' = Tail(publishing)
    BY DEF Reject, Dismiss, Withdraw, Succeed
  <2> QED
    BY <2>1, <2>2
<1>2. pc' \in [Publishers -> {"idle", "prepared", "queued", "dispatched", "append", "save",
                             "observe", "failing"}]
  BY DEF TypeOK, Reject, Dismiss, Withdraw, Succeed
<1>3. /\ written[p] \subseteq Nat /\ written' \in [Publishers -> SUBSET Nat]
      /\ half' \in [Publishers -> {1, 2}]
  BY DEF TypeOK, Reject, Dismiss, Withdraw, Succeed
<1>4. emissionFailure' \in BOOLEAN
  BY Zenon DEF TypeOK, Reject, Dismiss, Withdraw, Succeed
<1>5. acked' \subseteq Nat
  BY <1>3 DEF TypeOK, Reject, Dismiss, Withdraw, Succeed
<1> QED
  BY <1>1, <1>2, <1>3, <1>4, <1>5

\* What a runtime leaves in flight.
LEMMA LeftTypes ==
  ASSUME TypeOK
  PROVE  AppendLeft \in Seq(SUBSET Nat) /\ late \o AppendLeft \in Seq(SUBSET Nat)
<1>1. late \in Seq(SUBSET Nat) /\ publishing \in Seq(Publishers)
  BY DEF TypeOK
<1>2. publishing # <<>> => batch[Head(publishing)].durable \in SUBSET Nat
  BY <1>1 DEF TypeOK, Batches
<1>3. AppendLeft \in Seq(SUBSET Nat)
  <2> DEFINE D == batch[Head(publishing)].durable
  <2>1. CASE AppendLeft = <<>>
    BY <2>1
  <2>2. CASE AppendLeft # <<>>
    <3>1. publishing # <<>> /\ AppendLeft = <<D>>
      BY <2>2, Zenon DEF AppendLeft
    <3>2. D \in SUBSET Nat
      BY <1>2, <3>1
    <3> HIDE DEF D
    <3> QED
      BY <3>1, <3>2
  <2> QED
    BY <2>1, <2>2
<1> QED
  BY <1>1, <1>3

\* The journal after an append of D, or of a part of it.
LEMMA WriteFacts ==
  ASSUME TypeOK, NEW D \in SUBSET Nat, Writes(D) \/ WritesPartly(D)
  PROVE  /\ \E part \in SUBSET D : journal' = journal \union part
         /\ journal' \subseteq Nat /\ damaged' \in BOOLEAN
<1>1. \E part \in SUBSET D : journal' = journal \union part
  BY DEF Writes, WritesPartly, Prefixes
<1>2. damaged' \in BOOLEAN
  <2>1. (damaged \/ ~Increasing(D)) \in BOOLEAN
        /\ \A part : (damaged \/ ~Increasing(part)) \in BOOLEAN
    BY Zenon
  <2> QED
    BY <2>1, Zenon DEF Writes, WritesPartly
<1> QED
  BY <1>1, <1>2 DEF TypeOK

\* An append that failed has written a part of its batch, possibly none.
LEMMA PartWritten ==
  ASSUME NEW p, CommitFails(p)
  PROVE  \E part \in SUBSET batch[p].durable : journal' = journal \union part
<1>1. CASE journal' = journal
  <2>1. {} \in SUBSET batch[p].durable /\ journal' = journal \union {}
    BY <1>1
  <2> QED
    BY <2>1
<1>2. CASE journal' # journal
  BY <1>2 DEF CommitFails, WritesPartly, Prefixes
<1> QED
  BY <1>1, <1>2

\* The event log remembers a number or not.
LEMMA CheckTypes ==
  ASSUME TypeOK, NEW D, Checks(D)
  PROVE  checked' \in BOOLEAN
BY Zenon DEF TypeOK, Checks

\* Every step keeps the types.
LEMMA TypesKept == IInv /\ [Next]_vars => TypeOK'
<1> SUFFICES ASSUME IInv, [Next]_vars PROVE TypeOK'
  OBVIOUS
<1> USE PublisherFacts DEF disk, queue, saves, stop, past
<1>0. TypeOK
  BY DEF IInv
<1>1. ASSUME NEW c \in Commands, Admit(c) PROVE TypeOK'
  BY <1>0, <1>1 DEF TypeOK, Admit
<1>2. ASSUME NEW c \in Commands, Enqueue(c) PROVE TypeOK'
  BY <1>0, <1>2 DEF TypeOK, Enqueue
<1>3. ASSUME NEW c \in Commands, Dispatched(c) PROVE TypeOK'
  <2>1. publishing' \in Seq(Publishers) /\ half' \in [Publishers -> {1, 2}]
    <3>1. publishing \in Seq(Publishers) /\ half \in [Publishers -> {1, 2}] /\ c \in Publishers
      BY <1>0 DEF TypeOK
    <3>2. \/ UNCHANGED <<publishing, half>>
          \/ publishing' = Append(publishing, c) /\ half' = [half EXCEPT ![c] = 2]
      BY <1>3 DEF Dispatched
    <3> QED
      BY <3>1, <3>2
  <2>2. written' \in [Publishers -> SUBSET Nat]
    BY <1>0, <1>3 DEF TypeOK, Dispatched
  <2>3. pc' \in [Publishers -> {"idle", "prepared", "queued", "dispatched", "append", "save",
                               "observe", "failing"}]
    BY <1>0, <1>3 DEF TypeOK, Dispatched
  <2>4. emissionFailure' \in BOOLEAN
    BY <1>3, Zenon DEF Dispatched
  <2>5. UNCHANGED <<disk, phase, seq, committed, batch, checked, saves, timer, stop, acked, past>>
    BY <1>3 DEF Dispatched
  <2> QED
    BY <1>0, <2>1, <2>2, <2>3, <2>4, <2>5 DEF TypeOK
<1>29. ASSUME NEW c \in Commands, DispatchThrows(c) PROVE TypeOK'
  BY <1>0, <1>29 DEF TypeOK, DispatchThrows
<1>4. ASSUME NEW e \in Emitters, Emit(e) PROVE TypeOK'
  BY <1>0, <1>4 DEF TypeOK, Emit
<1>5. ASSUME NEW p \in Publishers, BeginRefused(p) PROVE TypeOK'
  <2>1. seq' \in Nat
    BY <1>0, <1>5, BatchFacts DEF TypeOK, BeginRefused, Batches
  <2> QED
    BY <1>0, <1>5, <2>1, SettleTypes DEF TypeOK, BeginRefused, AtHead
<1>6. ASSUME NEW p \in Publishers, Begin(p) PROVE TypeOK'
  <2>1. PICK b \in NextBatches :
          batch' = [batch EXCEPT ![p] = b] /\ seq' = b.last /\ Checks(b.durable)
    BY <1>6 DEF Begin
  <2>2. /\ b \in Batches /\ seq' \in Nat /\ batch' \in [Publishers -> Batches]
        /\ checked' \in BOOLEAN
    BY <1>0, <2>1, BatchFacts, CheckTypes DEF TypeOK, Batches
  <2> QED
    BY <1>0, <1>6, <2>2 DEF TypeOK, Begin
<1>7. ASSUME NEW p \in Publishers, BeginFails(p) PROVE TypeOK'
  <2>1. seq' \in Nat
    BY <1>0, <1>7, BatchFacts DEF TypeOK, BeginFails, Batches
  <2> QED
    BY <1>0, <1>7, <2>1, FailCommitTypes DEF TypeOK, BeginFails
<1>8. ASSUME NEW p \in Publishers, Commit(p) PROVE TypeOK'
  <2>1. batch[p].durable \subseteq Nat /\ batch[p].last \in Nat
    BY <1>0 DEF TypeOK, Batches
  <2>2. batch' \in [Publishers -> Batches] /\ written' \in [Publishers -> SUBSET Nat]
    BY <1>0, <1>8, <2>1 DEF TypeOK, Commit, NoBatch, Batches
  <2>3. committed' \in States /\ journal' \subseteq Nat /\ damaged' \in BOOLEAN
    BY <1>0, <1>8, <2>1, WriteFacts DEF TypeOK, Commit, States
  <2>4. saving' \in Seq(Publishers \union {Timer})
    <3>1. saving \in Seq(Publishers \union {Timer}) /\ p \in Publishers \union {Timer}
      BY <1>0 DEF TypeOK
    <3>2. saving' = saving \/ saving' = Append(saving, p)
      BY <1>8 DEF Commit
    <3> QED
      BY <3>1, <3>2
  <2>5. pc' \in [Publishers -> {"idle", "prepared", "queued", "dispatched", "append", "save",
                               "observe", "failing"}]
    BY <1>0, <1>8 DEF TypeOK, Commit
  <2>6. timer' \in BOOLEAN
    BY <1>8, Zenon DEF Commit
  <2>7. UNCHANGED <<snapshot, marker, phase, seq, publishing, half, checked, saveStep, capture,
                    stop, emissionFailure, acked, past>>
    BY <1>8 DEF Commit
  <2> QED
    BY <1>0, <2>2, <2>3, <2>4, <2>5, <2>6, <2>7 DEF TypeOK
<1>9. ASSUME NEW p \in Publishers, CommitFails(p) PROVE TypeOK'
  <2>1. batch[p].durable \subseteq Nat
    BY <1>0 DEF TypeOK, Batches
  <2>2. batch' \in [Publishers -> Batches]
    BY <1>0, <1>9 DEF TypeOK, CommitFails, NoBatch, Batches
  <2>3. journal' \subseteq Nat /\ damaged' \in BOOLEAN
    BY <1>0, <1>9, <2>1, WriteFacts DEF TypeOK, CommitFails
  <2>4. UNCHANGED <<snapshot, marker, phase, seq, committed, publishing, half, written, checked,
                    saving, saveStep, capture, emissionFailure, acked, past>>
    BY <1>9 DEF CommitFails
  <2>5. pc' \in [Publishers -> {"idle", "prepared", "queued", "dispatched", "append",
                                   "save", "observe", "failing"}] /\ FailCommit("uncertain")
    BY <1>0, <1>9 DEF TypeOK, CommitFails
  <2> QED
    BY <1>0, <2>2, <2>3, <2>4, <2>5, FailCommitTypes DEF TypeOK
<1>10. ASSUME NEW p \in Publishers, Observe(p) PROVE TypeOK'
  <2>1. publishing # <<>>
    BY <1>10 DEF IInv, QueueInv, Working, Observe
  <2> QED
    BY <1>0, <1>10, <2>1, SettleTypes DEF TypeOK, Observe
<1>11. ASSUME NEW p \in Publishers, ObserveAgain(p) PROVE TypeOK'
  BY <1>0, <1>11 DEF TypeOK, ObserveAgain
<1>12. ASSUME NEW p \in Publishers, ObserveFails(p) PROVE TypeOK'
  BY <1>0, <1>12, FailCommitTypes DEF TypeOK, ObserveFails
<1>13. ASSUME NEW p \in Publishers, Throw(p) PROVE TypeOK'
  <2>1. publishing # <<>>
    BY <1>13 DEF IInv, QueueInv, Working, Throw
  <2> QED
    BY <1>0, <1>13, <2>1, SettleTypes DEF TypeOK, Throw
<1>14. CASE SaveBegins
  BY <1>0, <1>14 DEF TypeOK, SaveBegins
<1>15. CASE SaveRefused \/ SaveThrows
  <2>1. saving # <<>> /\ saving' = Tail(saving) /\ saveStep' \in {"idle", "writing", "failing"}
    BY <1>0, <1>15 DEF TypeOK, IInv, SaveInv, SaveRefused, SaveThrows
  <2>2. saving' \in Seq(Publishers \union {Timer})
    BY <1>0, <2>1 DEF TypeOK
  <2>3. UNCHANGED <<disk, phase, seq, committed, capture, timer, stop, past>> /\ OwnerRejected
    BY <1>15 DEF SaveRefused, SaveThrows
  <2>4. CASE Head(saving) = Timer
    <3>1. UNCHANGED <<queue, emissionFailure, acked>>
      BY <2>3, <2>4 DEF OwnerRejected
    <3>2. UNCHANGED <<disk, phase, seq, committed, capture, timer, stop, past>>
      BY <2>3
    <3> QED
      BY <1>0, <2>1, <2>2, <3>1, <3>2 DEF TypeOK
  <2>5. CASE Head(saving) # Timer
    <3>1. PICK p \in Publishers : p = Head(saving)
      BY <1>0, <2>1, <2>5 DEF TypeOK
    <3>2. Head(saving) = saving[1] /\ 1 \in 1..Len(saving)
      BY <1>0, <2>1 DEF TypeOK
    <3>3. pc[p] = "save"
      BY <2>5, <3>1, <3>2 DEF IInv, SaveInv
    <3>4. publishing # <<>>
      BY <3>3 DEF IInv, QueueInv, Working
    <3>5. Reject(p) /\ UNCHANGED <<batch, checked>>
      BY <2>3, <2>5, <3>1 DEF OwnerRejected
    <3> QED
      BY <1>0, <2>1, <2>2, <2>3, <3>4, <3>5, SettleTypes DEF TypeOK
  <2> QED
    BY <2>4, <2>5
<1>16. CASE SaveDone
  <2>1. saving # <<>> /\ saving' \in Seq(Publishers \union {Timer})
    BY <1>0, <1>16 DEF TypeOK, IInv, SaveInv, SaveDone
  <2>2. snapshot' \in States \union {NoSnapshot} /\ capture' \in States /\ saveStep' = "idle"
    BY <1>0, <1>16 DEF TypeOK, SaveDone, Empty, States
  <2>3. pc' \in [Publishers -> {"idle", "prepared", "queued", "dispatched", "append", "save",
                               "observe", "failing"}]
    BY <1>0, <1>16 DEF TypeOK, SaveDone, OwnerObserves
  <2>4. UNCHANGED <<journal, damaged, marker, phase, seq, committed, timer, stop, past,
                    publishing, half, batch, written, checked, emissionFailure, acked>>
    BY <1>16 DEF SaveDone, OwnerObserves
  <2> QED
    BY <1>0, <2>1, <2>2, <2>3, <2>4 DEF TypeOK
<1>17. CASE SaveFails
  BY <1>0, <1>17, FailCommitTypes DEF TypeOK, SaveFails, Empty, States
<1>18. CASE TimerFires
  <2>1. saving' \in Seq(Publishers \union {Timer})
    BY <1>0, <1>18 DEF TypeOK, TimerFires
  <2>2. timer' \in BOOLEAN
    BY <1>18, Zenon DEF TimerFires
  <2>3. UNCHANGED <<disk, phase, seq, committed, queue, saveStep, capture, stop,
                    emissionFailure, acked, past>>
    BY <1>18 DEF TimerFires
  <2> QED
    BY <1>0, <2>1, <2>2, <2>3 DEF TypeOK
<1>19. CASE QuarantineSettles
  <2>1. marker' \in BOOLEAN
    BY <1>0, <1>19, Zenon DEF TypeOK, QuarantineSettles
  <2>2. quarantine' \in {"none", "writing", "settled"}
    BY <1>19 DEF QuarantineSettles
  <2>3. UNCHANGED <<journal, damaged, snapshot, phase, seq, committed, queue, saves, timer,
                    failure, emissionFailure, late, overtaken, acked, crashes>>
    BY <1>19 DEF QuarantineSettles
  <2>4. unproven' \in BOOLEAN
    BY <1>0, <1>19, Zenon DEF TypeOK, QuarantineSettles
  <2> QED
    BY <1>0, <2>1, <2>2, <2>3, <2>4 DEF TypeOK
<1>20. CASE BeginClose \/ OperationsEnd \/ SavesEnd
  <2>1. phase' \in {"closed"} \union ClosePhases
    BY <1>20 DEF BeginClose, OperationsEnd, SavesEnd, ClosePhases
  <2>2. UNCHANGED <<disk, seq, committed, queue, saves, timer, stop, emissionFailure, acked,
                    past>>
    BY <1>20 DEF BeginClose, OperationsEnd, SavesEnd
  <2> QED
    BY <1>0, <2>1, <2>2 DEF TypeOK
<1>28. CASE Disconnect
  <2>1. timer' \in BOOLEAN
    BY <1>28, Zenon DEF Disconnect
  <2>2. /\ phase' = "saves" /\ failure' \in {"none", "uncertain", "observer"}
        /\ quarantine' \in {"none", "writing", "settled"}
    BY <1>0, <1>28 DEF TypeOK, Disconnect
  <2>3. UNCHANGED <<disk, seq, committed, queue, saves, emissionFailure, acked, past>>
    BY <1>28 DEF Disconnect
  <2> QED
    BY <1>0, <2>1, <2>2, <2>3 DEF TypeOK, ClosePhases
<1>21. CASE StopClock \/ EmissionsEnd
  <2>1. /\ phase' \in {"emissions", "connection"}
        /\ UNCHANGED <<timer, stop>> \/ FailCommit("uncertain")
        /\ UNCHANGED <<disk, seq, committed, queue, saves, acked, past>>
    BY <1>21 DEF StopClock, EmissionsEnd
  <2>2. emissionFailure' = emissionFailure \/ emissionFailure' = FALSE
    BY <1>21, Zenon DEF StopClock, EmissionsEnd
  <2>3. emissionFailure' \in BOOLEAN
    BY <1>0, <2>2, Zenon DEF TypeOK
  <2>4. /\ failure' \in {"none", "uncertain", "observer"} /\ timer' \in BOOLEAN
        /\ quarantine' \in {"none", "writing", "settled"}
    BY <1>0, <2>1, FailCommitTypes DEF TypeOK
  <2> QED
    BY <1>0, <2>1, <2>3, <2>4 DEF TypeOK, ClosePhases
<1>22. CASE FinalSave
  BY <1>0, <1>22, FailCommitTypes DEF TypeOK, FinalSave, ClosePhases
<1>23. CASE Crash
  <2>1. journal' \subseteq Nat /\ damaged' \in BOOLEAN
    <3>1. \A p \in Publishers : batch[p].durable \in SUBSET Nat
      BY <1>0 DEF TypeOK, Batches
    <3> QED
      BY <1>0, <1>23, <3>1, WriteFacts DEF TypeOK, Crash
  <2>2. crashes' \in 0..MaxCrashes
    BY <1>0, <1>23, BoundAssumption DEF TypeOK, Crash
  <2>3. snapshot' \in States \union {NoSnapshot} /\ marker' \in BOOLEAN
    BY <1>0, <1>23 DEF TypeOK, Crash
  <2>4. /\ seq' = 0 /\ committed' = Empty /\ phase' = "stopped" /\ Forget
        /\ late' = <<>> /\ UNCHANGED <<overtaken, unproven, acked>>
    BY <1>23 DEF Crash
  <2> QED
    BY <1>0, <2>1, <2>2, <2>3, <2>4, ForgetTypes DEF TypeOK
<1>24. CASE LoadRefused
  <2>1. seq' = 0 /\ committed' = Empty /\ phase' = "refused" /\ Forget
        /\ UNCHANGED <<disk, overtaken, unproven, acked, crashes>>
    BY <1>24 DEF LoadRefused
  <2>2. late' \in Seq(SUBSET Nat)
    BY <1>0, <1>24, LeftTypes DEF LoadRefused, LeaveBehind
  <2> QED
    BY <1>0, <2>1, <2>2, ForgetTypes DEF TypeOK
<1>25. CASE Load
  <2>1. seq' \in Nat /\ committed' \in States
    <3>1. CASE snapshot = NoSnapshot
      <4>1. journal = {}
        BY <3>1 DEF IInv, DoubtInv
      <4>2. seq' = 0
        BY <1>25, <3>1, <4>1, TopOfCovered DEF Load
      <4> QED
        BY <1>25, <3>1, <4>2 DEF Load, States
    <3>2. CASE snapshot # NoSnapshot
      <4>1. snapshot \in States /\ \A s \in journal : s <= snapshot.seq
        BY <1>0, <1>25, <3>2 DEF TypeOK, Load, Recoverable
      <4>2. seq' = snapshot.seq
        BY <1>0, <1>25, <3>2, <4>1, TopOfCovered DEF Load, TypeOK, States
      <4> QED
        BY <1>25, <3>2, <4>1, <4>2 DEF Load, States
    <3> QED
      BY <3>1, <3>2
  <2>2. /\ phase' \in {"starting", "open"} /\ Forget
        /\ UNCHANGED <<disk, unproven, acked, crashes>>
    BY <1>25 DEF Load
  <2>3. late' \in Seq(SUBSET Nat)
    BY <1>0, <1>25, LeftTypes DEF Load, Overtake, LeaveBehind
  <2>4. overtaken' \in BOOLEAN
    BY <1>25, Zenon DEF Load, Overtake
  <2> QED
    BY <1>0, <2>1, <2>2, <2>3, <2>4, ForgetTypes DEF TypeOK
<1>30. ASSUME NEW i \in 1..Len(late), LateAppend(i) PROVE TypeOK'
  <2>1. late \in Seq(SUBSET Nat) /\ late[i] \in SUBSET Nat
    BY <1>0 DEF TypeOK
  <2>2. journal' \subseteq Nat /\ damaged' \in BOOLEAN
    BY <1>0, <1>30, <2>1, WriteFacts DEF LateAppend
  <2>3. late' \in Seq(SUBSET Nat)
    BY <1>30, <2>1 DEF LateAppend
  <2>4. UNCHANGED <<snapshot, marker, phase, seq, committed, queue, saves, timer, stop,
                    emissionFailure, overtaken, unproven, acked, crashes>>
    BY <1>30 DEF LateAppend
  <2> QED
    BY <1>0, <2>2, <2>3, <2>4 DEF TypeOK
<1>26. CASE FirstSave
  BY <1>0, <1>26 DEF TypeOK, FirstSave
<1>27. CASE UNCHANGED vars
  BY <1>0, <1>27 DEF TypeOK, vars
<1> QED
  BY <1>1, <1>2, <1>3, <1>4, <1>5, <1>6, <1>7, <1>8, <1>9, <1>10, <1>11, <1>12, <1>13, <1>14,
     <1>15, <1>16, <1>17, <1>18, <1>19, <1>20, <1>28, <1>21, <1>22, <1>23, <1>24, <1>25, <1>26, <1>27,
     <1>29, <1>30 DEF Next, Publish, Save, Close

-----------------------------------------------------------------------------
(* The publish queue. *)

\* The queue is left as it is; its head may start to work, or wait again.
LEMMA QueueStay ==
  ASSUME TypeOK, QueueInv, publishing' = publishing,
         \A q \in Publishers :
           /\ pc[q] = "queued" => pc'[q] = "queued" \/ (AtHead(q) /\ pc'[q] \in Working)
           /\ pc[q] \in Working => pc'[q] \in Working \union {"queued"}
           /\ pc'[q] \in Working => pc[q] \in Working \union {"queued"}
  PROVE  QueueInv'
<1>1. publishing \in Seq(Publishers)
  BY DEF TypeOK
<1>2. \A i \in 1..Len(publishing) : publishing[i] \in Publishers
  BY <1>1
<1>3. \A i, j \in 1..Len(publishing) : publishing[i] = publishing[j] => i = j
  BY DEF QueueInv
<1>4. publishing # <<>> => Head(publishing) = publishing[1] /\ 1 \in 1..Len(publishing)
  BY <1>1
<1>5. ASSUME NEW i \in 1..Len(publishing)
      PROVE  pc'[publishing[i]] = "queued" \/ (i = 1 /\ pc'[publishing[i]] \in Working)
  <2>1. publishing # <<>>
    BY <1>1
  <2>2. pc[publishing[i]] = "queued" \/ (i = 1 /\ pc[publishing[i]] \in Working)
    BY DEF QueueInv
  <2>3. AtHead(publishing[i]) => i = 1
    BY <1>3, <1>4, <2>1 DEF AtHead
  <2> QED
    BY <1>2, <2>2, <2>3
<1>6. ASSUME NEW p \in Publishers, pc'[p] \in Working
      PROVE  publishing # <<>> /\ Head(publishing) = p
  <2>1. CASE pc[p] = "queued"
    BY <1>6, <2>1 DEF AtHead, Working
  <2>2. CASE pc[p] \in Working
    BY <2>2 DEF QueueInv
  <2> QED
    BY <1>6, <2>1, <2>2
<1> QED
  BY <1>3, <1>5, <1>6 DEF QueueInv

\* A publisher outside of the queue joins its end.
LEMMA QueuePush ==
  ASSUME TypeOK, QueueInv, NEW p \in Publishers,
         pc[p] \notin Working \union {"queued"},
         publishing' = Append(publishing, p), pc' = [pc EXCEPT ![p] = "queued"]
  PROVE  QueueInv'
<1> DEFINE n == Len(publishing)
<1>1. publishing \in Seq(Publishers) /\ n \in Nat
  BY DEF TypeOK
<1>2. /\ Len(publishing') = n + 1 /\ publishing' # <<>>
      /\ publishing'[n + 1] = p
      /\ \A i \in 1..n : publishing'[i] = publishing[i] /\ publishing[i] \in Publishers
  BY <1>1
<1>3. pc \in [Publishers -> {"idle", "prepared", "queued", "dispatched", "append", "save",
                             "observe", "failing"}]
  BY DEF TypeOK
<1>4. pc'[p] = "queued" /\ \A q \in Publishers : q # p => pc'[q] = pc[q]
  BY <1>3
<1>5. \A i \in 1..n : publishing[i] # p
  BY DEF QueueInv
<1>6. \A i, j \in 1..n : publishing[i] = publishing[j] => i = j
  BY DEF QueueInv
<1>7. \A i, j \in 1..n + 1 : publishing'[i] = publishing'[j] => i = j
  <2> SUFFICES ASSUME NEW i \in 1..n + 1, NEW j \in 1..n + 1, publishing'[i] = publishing'[j]
               PROVE  i = j
    OBVIOUS
  <2>1. (i \in 1..n \/ i = n + 1) /\ (j \in 1..n \/ j = n + 1)
    BY <1>1
  <2> QED
    BY <1>2, <1>5, <1>6, <2>1
<1>8. ASSUME NEW i \in 1..n + 1
      PROVE  pc'[publishing'[i]] = "queued" \/ (i = 1 /\ pc'[publishing'[i]] \in Working)
  <2>1. CASE i = n + 1
    BY <1>2, <1>4, <2>1
  <2>2. CASE i \in 1..n
    <3>1. pc[publishing[i]] = "queued" \/ (i = 1 /\ pc[publishing[i]] \in Working)
      BY <2>2 DEF QueueInv
    <3> QED
      BY <1>2, <1>4, <1>5, <2>2, <3>1
  <2> QED
    BY <1>1, <2>1, <2>2
<1>9. ASSUME NEW q \in Publishers, pc'[q] \in Working
      PROVE  publishing' # <<>> /\ Head(publishing') = q
  <2>1. pc[q] \in Working
    BY <1>4, <1>9 DEF Working
  <2>2. publishing # <<>> /\ Head(publishing) = q
    BY <2>1 DEF QueueInv
  <2>3. 1 \in 1..n /\ Head(publishing) = publishing[1]
    BY <1>1, <2>2
  <2>4. Head(publishing') = publishing'[1]
    BY <1>1, <1>2
  <2> QED
    BY <1>2, <2>2, <2>3, <2>4
<1> QED
  BY <1>2, <1>7, <1>8, <1>9 DEF QueueInv

\* The head leaves the queue.
LEMMA QueuePop ==
  ASSUME TypeOK, QueueInv, NEW p \in Publishers, NEW x, x \notin Working,
         publishing # <<>>, Head(publishing) = p,
         publishing' = Tail(publishing), pc' = [pc EXCEPT ![p] = x]
  PROVE  QueueInv'
<1> DEFINE n == Len(publishing)
<1>1. publishing \in Seq(Publishers) /\ n \in Nat \ {0} /\ publishing[1] = p
  BY DEF TypeOK
<1>2. /\ Len(publishing') = n - 1
      /\ \A i \in 1..n - 1 : publishing'[i] = publishing[i + 1]
      /\ \A i \in 1..n : publishing[i] \in Publishers
  BY <1>1
<1>3. pc \in [Publishers -> {"idle", "prepared", "queued", "dispatched", "append", "save",
                             "observe", "failing"}]
  BY DEF TypeOK
<1>4. pc'[p] = x /\ \A q \in Publishers : q # p => pc'[q] = pc[q]
  BY <1>3
<1>5. \A i, j \in 1..n : publishing[i] = publishing[j] => i = j
  BY DEF QueueInv
<1>6. \A i \in 1..n - 1 : i + 1 \in 1..n /\ i + 1 # 1
  BY <1>1
<1>7. \A i \in 1..n - 1 : publishing[i + 1] # p
  BY <1>1, <1>5, <1>6
<1>8. \A i, j \in 1..n - 1 : publishing'[i] = publishing'[j] => i = j
  <2> SUFFICES ASSUME NEW i \in 1..n - 1, NEW j \in 1..n - 1, publishing'[i] = publishing'[j]
               PROVE  i = j
    OBVIOUS
  <2>1. i + 1 = j + 1
    BY <1>2, <1>5, <1>6
  <2> QED
    BY <2>1
<1>9. \A i \in 1..n - 1 : pc'[publishing'[i]] = "queued"
  <2> SUFFICES ASSUME NEW i \in 1..n - 1 PROVE pc'[publishing'[i]] = "queued"
    OBVIOUS
  <2>1. pc[publishing[i + 1]] = "queued"
    BY <1>6 DEF QueueInv
  <2> QED
    BY <1>2, <1>4, <1>6, <1>7, <2>1
<1>10. \A q \in Publishers : pc'[q] \notin Working
  BY <1>4 DEF QueueInv
<1> QED
  BY <1>2, <1>8, <1>9, <1>10 DEF QueueInv

\* A publish at the head that is over takes its publisher out of the queue.
LEMMA QueueSettle ==
  ASSUME TypeOK, QueueInv, NEW p \in Publishers, Withdraw(p) \/ Succeed(p),
         AtHead(p)
  PROVE  QueueInv'
<1>1. publishing # <<>> /\ Head(publishing) = p /\ publishing' = Tail(publishing)
  BY DEF AtHead, Withdraw, Succeed
<1>2. CASE Withdraw(p)
  <2>1. pc' = [pc EXCEPT ![p] = "idle"] /\ "idle" \notin Working
    BY <1>2 DEF Withdraw, Working
  <2> QED
    BY <1>1, <2>1, QueuePop
<1>3. CASE Succeed(p)
  <2> DEFINE x == IF p \in Commands /\ half[p] = 1 THEN "dispatched" ELSE "idle"
  <2>1. pc' = [pc EXCEPT ![p] = x] /\ x \notin Working
    BY <1>3 DEF Succeed, Working
  <2> HIDE DEF x
  <2> QED
    BY <1>1, <2>1, QueuePop
<1> QED
  BY <1>2, <1>3

\* The owner of the save at the head is the publish at the head.
LEMMA OwnerAtHead ==
  ASSUME TypeOK, QueueInv, SaveInv, saving # <<>>, Head(saving) # Timer
  PROVE  /\ Head(saving) \in Publishers /\ pc[Head(saving)] = "save"
         /\ AtHead(Head(saving))
<1>1. saving \in Seq(Publishers \union {Timer})
  BY DEF TypeOK
<1>2. Head(saving) = saving[1] /\ 1 \in 1..Len(saving)
  BY <1>1
<1>3. Head(saving) \in Publishers
  BY <1>1
<1>4. pc[Head(saving)] = "save"
  BY <1>2 DEF SaveInv
<1> QED
  BY <1>3, <1>4 DEF QueueInv, Working, AtHead

\* With nothing in the queue and nobody at work the queue is in order.
LEMMA QueueEmpty ==
  ASSUME publishing' = <<>>, \A p \in Publishers : pc'[p] = "idle"
  PROVE  QueueInv'
BY DEF QueueInv, Working

\* Every step keeps the publish queue in order, with its head alone at work.
LEMMA QueueKept == IInv /\ [Next]_vars => QueueInv'
<1> SUFFICES ASSUME IInv, [Next]_vars PROVE QueueInv'
  OBVIOUS
<1> USE PublisherFacts DEF disk, queue, saves, stop, past
<1>0. TypeOK /\ QueueInv /\ SaveInv
  BY DEF IInv
<1>a. pc \in [Publishers -> {"idle", "prepared", "queued", "dispatched", "append", "save",
                             "observe", "failing"}]
  BY <1>0 DEF TypeOK
<1>1. ASSUME NEW c \in Commands, Admit(c) PROVE QueueInv'
  BY <1>0, <1>a, <1>1, QueueStay DEF Admit, Working
<1>2. ASSUME NEW c \in Commands, Enqueue(c) PROVE QueueInv'
  BY <1>0, <1>2, QueuePush DEF Enqueue, Working
<1>3. ASSUME NEW c \in Commands, Dispatched(c) PROVE QueueInv'
  <2>1. CASE publishing' = publishing /\ pc' = [pc EXCEPT ![c] = "idle"]
    BY <1>0, <1>a, <1>3, <2>1, QueueStay DEF Dispatched, Working
  <2>2. CASE publishing' = Append(publishing, c) /\ pc' = [pc EXCEPT ![c] = "queued"]
    BY <1>0, <1>3, <2>2, QueuePush DEF Dispatched, Working
  <2> QED
    BY <1>3, <2>1, <2>2 DEF Dispatched
<1>15. ASSUME NEW c \in Commands, DispatchThrows(c) PROVE QueueInv'
  <2>1. pc[c] = "dispatched" /\ publishing' = publishing /\ pc' = [pc EXCEPT ![c] = "idle"]
    BY <1>15 DEF DispatchThrows
  <2> QED
    BY <1>0, <1>a, <2>1, QueueStay DEF Working
<1>16. ASSUME NEW i \in 1..Len(late), LateAppend(i) PROVE QueueInv'
  <2>1. publishing' = publishing /\ pc' = pc
    BY <1>16 DEF LateAppend
  <2> QED
    BY <1>0, <2>1, QueueStay DEF Working
<1>4. ASSUME NEW e \in Emitters, Emit(e) PROVE QueueInv'
  BY <1>0, <1>4, QueuePush DEF Emit, Working
<1>5. ASSUME NEW p \in Publishers, BeginRefused(p) PROVE QueueInv'
  BY <1>0, <1>5, QueueSettle DEF BeginRefused, Reject, Dismiss
<1>6. ASSUME NEW p \in Publishers, Begin(p) PROVE QueueInv'
  <2>1. pc[p] = "queued" /\ AtHead(p) /\ publishing' = publishing /\ pc' = [pc EXCEPT ![p] = "append"]
    BY <1>6 DEF Begin
  <2> QED
    BY <1>0, <1>a, <2>1, QueueStay DEF Working
<1>7. ASSUME NEW p \in Publishers, BeginFails(p) PROVE QueueInv'
  <2>1. pc[p] = "queued" /\ AtHead(p) /\ publishing' = publishing /\ pc' = [pc EXCEPT ![p] = "failing"]
    BY <1>7 DEF BeginFails
  <2> QED
    BY <1>0, <1>a, <2>1, QueueStay DEF Working
<1>8. ASSUME NEW p \in Publishers, Commit(p) \/ CommitFails(p) \/ ObserveAgain(p) \/ ObserveFails(p)
      PROVE  QueueInv'
  <2>1. /\ pc[p] \in Working /\ publishing' = publishing
        /\ \E x \in Working \union {"queued"} : pc' = [pc EXCEPT ![p] = x]
    BY <1>8 DEF Commit, CommitFails, ObserveAgain, ObserveFails, Working
  <2>2. PICK x \in Working \union {"queued"} : pc' = [pc EXCEPT ![p] = x]
    BY <2>1
  <2>3. pc'[p] = x /\ \A q \in Publishers : q # p => pc'[q] = pc[q]
    BY <1>a, <2>2
  <2>4. "queued" \notin Working
    BY DEF Working
  <2>5. \A q \in Publishers :
          /\ pc[q] = "queued" => pc'[q] = "queued" \/ (AtHead(q) /\ pc'[q] \in Working)
          /\ pc[q] \in Working => pc'[q] \in Working \union {"queued"}
          /\ pc'[q] \in Working => pc[q] \in Working \union {"queued"}
    BY <2>1, <2>3, <2>4
  <2> QED
    BY <1>0, <2>1, <2>5, QueueStay
<1>9. ASSUME NEW p \in Publishers, Observe(p) \/ Throw(p) PROVE QueueInv'
  <2>1. pc[p] \in Working
    BY <1>9 DEF Observe, Throw, Working
  <2>2. AtHead(p)
    BY <1>0, <2>1 DEF QueueInv, AtHead
  <2>3. Withdraw(p) \/ Succeed(p)
    BY <1>9 DEF Observe, Throw, Reject
  <2> QED
    BY <1>0, <2>2, <2>3, QueueSettle
<1>10. CASE SaveRefused \/ SaveThrows
  <2>1. saving # <<>>
    BY <1>0, <1>10 DEF SaveInv, SaveRefused, SaveThrows
  <2>2. OwnerRejected
    BY <1>10 DEF SaveRefused, SaveThrows
  <2>3. CASE Head(saving) = Timer
    BY <1>0, <2>2, <2>3, QueueStay DEF OwnerRejected, Working
  <2>4. CASE Head(saving) # Timer
    BY <1>0, <2>1, <2>2, <2>4, OwnerAtHead, QueueSettle DEF OwnerRejected, Reject
  <2> QED
    BY <2>3, <2>4
<1>11. CASE SaveDone
  <2>1. saving # <<>> /\ OwnerObserves
    BY <1>0, <1>11 DEF SaveInv, SaveDone
  <2>2. CASE Head(saving) = Timer
    BY <1>0, <2>1, <2>2, QueueStay DEF OwnerObserves, Working
  <2>3. CASE Head(saving) # Timer
    <3>1. PICK p \in Publishers : p = Head(saving) /\ pc[p] = "save"
      BY <1>0, <2>1, <2>3, OwnerAtHead
    <3>2. publishing' = publishing /\ pc' = [pc EXCEPT ![p] = "observe"]
      BY <2>1, <2>3, <3>1 DEF OwnerObserves
    <3> QED
      BY <1>0, <1>a, <3>1, <3>2, QueueStay DEF Working
  <2> QED
    BY <2>2, <2>3
<1>12. CASE UNCHANGED queue
  <2>1. publishing' = publishing /\ pc' = pc
    BY <1>12
  <2> QED
    BY <1>0, <2>1, QueueStay DEF Working
<1>13. CASE Crash \/ LoadRefused \/ Load
  BY <1>13, QueueEmpty DEF Crash, LoadRefused, Load, Forget
<1>14. CASE SaveBegins \/ SaveFails \/ TimerFires \/ QuarantineSettles \/ BeginClose \/ Close
            \/ FirstSave \/ UNCHANGED vars
  <2>1. UNCHANGED queue
    BY <1>14 DEF SaveBegins, SaveFails, TimerFires, QuarantineSettles, BeginClose, Close,
                 OperationsEnd, StopClock, EmissionsEnd, Disconnect, SavesEnd, FinalSave,
                 FirstSave, vars
  <2> QED
    BY <1>12, <2>1
<1> QED
  BY <1>1, <1>2, <1>3, <1>4, <1>5, <1>6, <1>7, <1>8, <1>9, <1>10, <1>11, <1>13, <1>14, <1>15, <1>16
     DEF Next, Publish, Save

-----------------------------------------------------------------------------
(* The save queue. *)

\* The queue is left as it is, and so are the publishers that wait for a save.
LEMMA SaveStay ==
  ASSUME TypeOK, SaveInv, saving' = saving,
         saveStep' # "idle" => saveStep # "idle",
         saveStep' = "writing" => saveStep = "writing" /\ capture' = capture,
         \A q \in Publishers : pc[q] = "save" => pc'[q] = "save" /\ written'[q] = written[q]
  PROVE  SaveInv'
<1>1. saving \in Seq(Publishers \union {Timer})
  BY DEF TypeOK
<1>2. \A i \in 1..Len(saving) : saving[i] # Timer => saving[i] \in Publishers
  BY <1>1
<1>3. saving # <<>> => Head(saving) = saving[1] /\ 1 \in 1..Len(saving)
  BY <1>1
<1>4. \A i \in 1..Len(saving) : saving[i] # Timer => pc[saving[i]] = "save"
  BY DEF SaveInv
<1>5. \A i \in 1..Len(saving) : saving[i] # Timer => pc'[saving[i]] = "save"
  BY <1>2, <1>4
<1>6. saveStep' = "writing" /\ Head(saving) # Timer =>
        written'[Head(saving)] \subseteq capture'.durable
  BY <1>2, <1>3, <1>4 DEF SaveInv
<1> QED
  BY <1>5, <1>6 DEF SaveInv

\* A save joins the end, of the timer or of a publisher that is not waiting for one.
LEMMA SavePush ==
  ASSUME TypeOK, SaveInv, NEW x \in Publishers \union {Timer},
         saving' = Append(saving, x), saveStep' = saveStep, capture' = capture,
         x # Timer => pc[x] # "save" /\ pc'[x] = "save",
         \A q \in Publishers : pc[q] = "save" => pc'[q] = "save" /\ written'[q] = written[q]
  PROVE  SaveInv'
<1> DEFINE n == Len(saving)
<1>1. saving \in Seq(Publishers \union {Timer}) /\ n \in Nat
  BY DEF TypeOK
<1>2. /\ Len(saving') = n + 1 /\ saving' # <<>>
      /\ saving'[n + 1] = x
      /\ \A i \in 1..n : saving'[i] = saving[i] /\ saving[i] \in Publishers \union {Timer}
  BY <1>1
<1>3. \A i \in 1..n : saving[i] # Timer => pc[saving[i]] = "save"
  BY DEF SaveInv
<1>4. \A i \in 1..n : saving[i] # Timer => saving[i] # x
  BY <1>3
<1>5. \A i \in 1..n + 1 : i \in 1..n \/ i = n + 1
  BY <1>1
<1>6. \A i, j \in 1..n : saving[i] = saving[j] => i = j \/ saving[i] = Timer
  BY DEF SaveInv
<1>7. \A i, j \in 1..n + 1 : saving'[i] = saving'[j] => i = j \/ saving'[i] = Timer
  BY <1>2, <1>4, <1>5, <1>6
<1>8. \A i \in 1..n + 1 : saving'[i] # Timer => pc'[saving'[i]] = "save"
  BY <1>2, <1>3, <1>5
<1>9. saveStep' = "writing" /\ Head(saving') # Timer =>
        written'[Head(saving')] \subseteq capture'.durable
  <2> SUFFICES ASSUME saveStep' = "writing", Head(saving') # Timer
               PROVE  written'[Head(saving')] \subseteq capture'.durable
    OBVIOUS
  <2>1. saving # <<>>
    BY DEF SaveInv
  <2>2. 1 \in 1..n /\ Head(saving) = saving[1] /\ Head(saving') = saving'[1]
    BY <1>1, <1>2, <2>1
  <2>3. Head(saving') = Head(saving)
    BY <1>2, <2>2
  <2>4. Head(saving) \in Publishers /\ pc[Head(saving)] = "save"
    BY <1>2, <1>3, <2>2, <2>3
  <2>5. written'[Head(saving)] = written[Head(saving)]
    BY <2>4
  <2>6. written[Head(saving)] \subseteq capture.durable
    BY <2>3 DEF SaveInv
  <2> QED
    BY <2>3, <2>5, <2>6
<1> QED
  BY <1>2, <1>7, <1>8, <1>9 DEF SaveInv

\* The save at the head is over, and its owner with it.
LEMMA SavePop ==
  ASSUME TypeOK, SaveInv, saving # <<>>, saving' = Tail(saving), saveStep' = "idle",
         \A q \in Publishers : pc[q] = "save" /\ q # Head(saving) => pc'[q] = "save"
  PROVE  SaveInv'
<1> DEFINE n == Len(saving)
<1>1. saving \in Seq(Publishers \union {Timer}) /\ n \in Nat \ {0} /\ Head(saving) = saving[1]
  BY DEF TypeOK
<1>2. /\ Len(saving') = n - 1
      /\ \A i \in 1..n - 1 : saving'[i] = saving[i + 1]
      /\ \A i \in 1..n : saving[i] \in Publishers \union {Timer}
  BY <1>1
<1>3. \A i \in 1..n - 1 : i + 1 \in 1..n /\ i + 1 # 1
  BY <1>1
<1>4. 1 \in 1..n
  BY <1>1
<1>5. \A i, j \in 1..n : saving[i] = saving[j] => i = j \/ saving[i] = Timer
  BY DEF SaveInv
<1>6. \A i \in 1..n : saving[i] # Timer => pc[saving[i]] = "save"
  BY DEF SaveInv
<1>7. \A i, j \in 1..n - 1 : saving'[i] = saving'[j] => i = j \/ saving'[i] = Timer
  <2> SUFFICES ASSUME NEW i \in 1..n - 1, NEW j \in 1..n - 1, saving'[i] = saving'[j]
               PROVE  i = j \/ saving'[i] = Timer
    OBVIOUS
  <2>1. i + 1 = j + 1 \/ saving'[i] = Timer
    BY <1>2, <1>3, <1>5
  <2> QED
    BY <2>1
<1>8. \A i \in 1..n - 1 : saving'[i] # Timer => pc'[saving'[i]] = "save"
  <2> SUFFICES ASSUME NEW i \in 1..n - 1, saving'[i] # Timer
               PROVE  pc'[saving'[i]] = "save"
    OBVIOUS
  <2>1. saving[i + 1] # Timer /\ pc[saving[i + 1]] = "save" /\ saving[i + 1] \in Publishers
    BY <1>2, <1>3, <1>6
  <2>2. saving[i + 1] # saving[1]
    BY <1>3, <1>4, <1>5, <2>1
  <2> QED
    BY <1>1, <1>2, <2>1, <2>2
<1> QED
  BY <1>2, <1>7, <1>8 DEF SaveInv

\* Every step keeps the save queue in order, with its owners waiting.
LEMMA SaveKept == IInv /\ [Next]_vars => SaveInv'
<1> SUFFICES ASSUME IInv, [Next]_vars PROVE SaveInv'
  OBVIOUS
<1> USE PublisherFacts DEF disk, queue, saves, stop, past
<1>0. TypeOK /\ QueueInv /\ SaveInv /\ DataInv
  BY DEF IInv
<1>a. /\ pc \in [Publishers -> {"idle", "prepared", "queued", "dispatched", "append", "save",
                                "observe", "failing"}]
      /\ written \in [Publishers -> SUBSET Nat]
  BY <1>0 DEF TypeOK
<1>b. ASSUME NEW p \in Publishers, pc[p] # "save", UNCHANGED saves,
             \E x : pc' = [pc EXCEPT ![p] = x],
             written' = written \/ \E W : written' = [written EXCEPT ![p] = W]
      PROVE  SaveInv'
  <2>1. \A q \in Publishers : pc[q] = "save" => pc'[q] = "save" /\ written'[q] = written[q]
    BY <1>a, <1>b
  <2> QED
    BY <1>0, <1>b, <2>1, SaveStay
<1>1. ASSUME NEW c \in Commands, Admit(c) \/ Enqueue(c) \/ Dispatched(c) \/ DispatchThrows(c)
      PROVE  SaveInv'
  <2>1. pc[c] # "save" /\ UNCHANGED saves /\ c \in Publishers
    BY <1>1 DEF Admit, Enqueue, Dispatched, DispatchThrows
  <2>2. \E x : pc' = [pc EXCEPT ![c] = x]
    BY <1>1 DEF Admit, Enqueue, Dispatched, DispatchThrows
  <2>3. written' = written \/ \E W : written' = [written EXCEPT ![c] = W]
    BY <1>1 DEF Admit, Enqueue, Dispatched, DispatchThrows
  <2> QED
    BY <1>b, <2>1, <2>2, <2>3
<1>2. ASSUME NEW e \in Emitters, Emit(e) PROVE SaveInv'
  BY <1>b, <1>2 DEF Emit
<1>3. ASSUME NEW p \in Publishers, BeginRefused(p) \/ Throw(p) \/ Observe(p) PROVE SaveInv'
  <2>1. pc[p] # "save" /\ UNCHANGED saves /\ (Withdraw(p) \/ Succeed(p))
    BY <1>3 DEF BeginRefused, Throw, Observe, Reject, Dismiss
  <2>2. \E x : pc' = [pc EXCEPT ![p] = x]
    BY <2>1 DEF Withdraw, Succeed
  <2>3. \E W : written' = [written EXCEPT ![p] = W]
    BY <2>1 DEF Withdraw, Succeed
  <2> QED
    BY <1>b, <2>1, <2>2, <2>3
<1>4. ASSUME NEW p \in Publishers,
             Begin(p) \/ BeginFails(p) \/ CommitFails(p) \/ ObserveAgain(p) \/ ObserveFails(p)
      PROVE  SaveInv'
  <2>1. pc[p] # "save" /\ UNCHANGED saves /\ written' = written
    BY <1>4 DEF Begin, BeginFails, CommitFails, ObserveAgain, ObserveFails
  <2>2. \E x : pc' = [pc EXCEPT ![p] = x]
    BY <1>4 DEF Begin, BeginFails, CommitFails, ObserveAgain, ObserveFails
  <2> QED
    BY <1>b, <2>1, <2>2
<1>5. ASSUME NEW p \in Publishers, Commit(p) PROVE SaveInv'
  <2>1. /\ pc[p] # "save" /\ saveStep' = saveStep /\ capture' = capture
        /\ \E x : pc' = [pc EXCEPT ![p] = x] /\ \E W : written' = [written EXCEPT ![p] = W]
    BY <1>5 DEF Commit
  <2>2. \A q \in Publishers : pc[q] = "save" => pc'[q] = "save" /\ written'[q] = written[q]
    BY <1>a, <2>1
  <2>3. CASE saving' = saving
    BY <1>0, <2>1, <2>2, <2>3, SaveStay
  <2>4. CASE saving' = Append(saving, p) /\ pc' = [pc EXCEPT ![p] = "save"]
    BY <1>0, <1>a, <2>1, <2>2, <2>4, SavePush
  <2> QED
    BY <1>5, <2>3, <2>4 DEF Commit
<1>6. CASE SaveBegins
  <2>1. /\ saving' = saving /\ saving # <<>> /\ saveStep' = "writing" /\ capture' = committed
        /\ pc' = pc /\ written' = written
    BY <1>6 DEF SaveBegins
  <2>2. Head(saving) # Timer => Head(saving) \in Publishers
    BY <1>0, <2>1 DEF TypeOK
  <2>3. Head(saving) # Timer => written[Head(saving)] \subseteq committed.durable
    BY <1>0, <2>2 DEF DataInv
  <2> QED
    BY <1>0, <2>1, <2>3 DEF SaveInv
<1>7. CASE SaveRefused \/ SaveThrows \/ SaveDone
  <2>1. saving # <<>> /\ saving' = Tail(saving) /\ saveStep' = "idle"
    BY <1>0, <1>7 DEF SaveInv, SaveRefused, SaveThrows, SaveDone
  <2>2. OwnerRejected \/ OwnerObserves
    BY <1>7 DEF SaveRefused, SaveThrows, SaveDone
  <2>3. pc' = pc \/ \E x : pc' = [pc EXCEPT ![Head(saving)] = x]
    BY <2>2 DEF OwnerRejected, OwnerObserves, Reject, Withdraw
  <2>4. \A q \in Publishers : pc[q] = "save" /\ q # Head(saving) => pc'[q] = "save"
    BY <1>a, <2>3
  <2> QED
    BY <1>0, <2>1, <2>4, SavePop
<1>8. CASE SaveFails
  <2>1. saving' = saving /\ saveStep # "idle" /\ saveStep' = "failing" /\ pc' = pc /\ written' = written
    BY <1>8 DEF SaveFails
  <2> QED
    BY <1>0, <2>1, SaveStay
<1>9. CASE TimerFires
  <2>1. /\ saving' = Append(saving, Timer) /\ saveStep' = saveStep /\ capture' = capture
        /\ pc' = pc /\ written' = written
    BY <1>9 DEF TimerFires
  <2> QED
    BY <1>0, <2>1, SavePush
<1>12. ASSUME NEW i \in 1..Len(late), LateAppend(i) PROVE SaveInv'
  <2>1. UNCHANGED <<pc, written, saves>>
    BY <1>12 DEF LateAppend
  <2> QED
    BY <1>0, <2>1, SaveStay
<1>10. CASE Crash \/ LoadRefused \/ Load
  <2>1. saving' = <<>> /\ saveStep' = "idle"
    BY <1>10 DEF Crash, LoadRefused, Load, Forget
  <2> QED
    BY <2>1 DEF SaveInv
<1>11. CASE QuarantineSettles \/ BeginClose \/ Close \/ FirstSave \/ UNCHANGED vars
  <2>1. UNCHANGED <<queue, saves>>
    BY <1>11 DEF QuarantineSettles, BeginClose, Close, OperationsEnd, StopClock, EmissionsEnd,
                 Disconnect, SavesEnd, FinalSave, FirstSave, vars
  <2> QED
    BY <1>0, <2>1, SaveStay
<1> QED
  BY <1>1, <1>2, <1>3, <1>4, <1>5, <1>6, <1>7, <1>8, <1>9, <1>10, <1>11, <1>12 DEF Next, Publish, Save

-----------------------------------------------------------------------------
(* The journal and the states that reflect it. *)

\* Something at work means that a runtime is loaded.
LEMMA WorkIsLoaded ==
  ASSUME QueueInv, SaveInv, DoubtInv,
         \/ publishing # <<>> \/ saving # <<>> \/ saveStep # "idle" \/ timer
         \/ \E p \in Publishers : pc[p] # "idle"
         \/ failure # "none" \/ quarantine # "none"
  PROVE  Loaded
BY DEF DoubtInv

\* Data that only an append, a save or a load could disturb.
LEMMA DataStay ==
  ASSUME TypeOK, DataInv, UNCHANGED <<journal, snapshot, committed, overtaken, checked>>,
         seq' \in Nat, seq' >= seq, Loaded' => Loaded,
         saveStep' = "writing" => saveStep = "writing" /\ capture' = capture,
         \A p \in Publishers :
           /\ written'[p] \subseteq written[p]
           /\ pc'[p] = "append" => pc[p] = "append" /\ batch'[p] = batch[p]
  PROVE  DataInv'
<1>1. /\ \A s \in journal' : s > 0
      /\ Reflects(committed)'
      /\ snapshot' # NoSnapshot => Reflects(snapshot)'
  BY DEF DataInv, Reflects
<1>2. Loaded' => snapshot' # NoSnapshot /\ committed'.seq <= seq' /\ Covers(committed, snapshot)'
  <2>1. seq \in Nat /\ committed.seq \in Nat
    BY DEF TypeOK, States
  <2> QED
    BY <2>1 DEF DataInv, Covers
<1>3. saveStep' = "writing" =>
        Reflects(capture)' /\ Covers(capture, snapshot)' /\ Covers(committed, capture)'
  BY DEF DataInv, Reflects, Covers
<1>4. ASSUME NEW p \in Publishers PROVE written'[p] \subseteq committed'.durable
  BY DEF DataInv
<1>5. ASSUME NEW p \in Publishers, pc'[p] = "append"
      PROVE  /\ committed'.seq < batch'[p].last /\ batch'[p].last <= seq'
             /\ \A s \in batch'[p].durable : committed'.seq < s /\ s <= batch'[p].last
             /\ ~overtaken' => journal' \subseteq committed'.durable
             /\ ~overtaken' /\ batch'[p].durable # {} => checked'
  <2>1. batch[p].last \in Nat /\ seq \in Nat
    BY DEF TypeOK, Batches
  <2>2. pc[p] = "append" /\ batch'[p] = batch[p]
    BY <1>5
  <2>3. /\ committed.seq < batch[p].last /\ batch[p].last <= seq
        /\ \A s \in batch[p].durable : committed.seq < s /\ s <= batch[p].last
        /\ ~overtaken => journal \subseteq committed.durable
        /\ ~overtaken /\ batch[p].durable # {} => checked
    BY <2>2 DEF DataInv
  <2>4. batch[p].last <= seq'
    BY <2>1, <2>3
  <2> QED
    BY <2>2, <2>3, <2>4
<1> QED
  BY <1>1, <1>2, <1>3, <1>4, <1>5 DEF DataInv

\* What an append adds to the journal is beyond every state that reflects it.
LEMMA ReflectsLater ==
  ASSUME NEW st \in States, NEW D \in SUBSET Nat, Reflects(st), \A s \in D : st.seq < s
  PROVE  /\ st.durable \subseteq journal \union D
         /\ \A s \in st.durable : s <= st.seq
         /\ ~overtaken => \A s \in journal \union D : s <= st.seq => s \in st.durable
<1>1. st.seq \in Nat
  BY DEF States
<1>2. \A s \in D : ~(s <= st.seq)
  BY <1>1
<1> QED
  BY <1>1, <1>2 DEF Reflects

\* The states that exist when a batch reaches the journal, D of it or less.
LEMMA AppendReflects ==
  ASSUME TypeOK, DataInv, Loaded, NEW p \in Publishers, pc[p] = "append",
         NEW D \in SUBSET batch[p].durable, journal' = journal \union D, overtaken' = overtaken
  PROVE  /\ \A s \in journal' : s > 0
         /\ committed' = committed => Reflects(committed)'
         /\ snapshot # NoSnapshot /\ (snapshot' = snapshot => Reflects(snapshot)')
         /\ saveStep = "writing" /\ capture' = capture => Reflects(capture)'
         /\ saveStep = "writing" /\ snapshot' = capture => Reflects(snapshot)'
         /\ committed \in States
<1>1. /\ committed \in States /\ committed.seq \in Nat /\ capture \in States /\ capture.seq \in Nat
      /\ batch[p].durable \subseteq Nat
  BY DEF TypeOK, States, Batches
<1>2. D \in SUBSET Nat /\ \A s \in D : committed.seq < s /\ s > 0
  BY <1>1 DEF DataInv
<1>3. \A s \in journal' : s > 0
  BY <1>2 DEF DataInv
<1>4. committed' = committed => Reflects(committed)'
  <2>1. Reflects(committed)
    BY DEF DataInv
  <2> QED
    BY <1>1, <1>2, <2>1, ReflectsLater DEF Reflects
<1>5. snapshot # NoSnapshot /\ (snapshot' = snapshot => Reflects(snapshot)')
  <2>1. snapshot # NoSnapshot /\ Reflects(snapshot) /\ snapshot.seq <= committed.seq
    BY DEF DataInv, Covers
  <2>2. snapshot \in States /\ snapshot.seq \in Nat
    BY <2>1 DEF TypeOK, States
  <2>3. \A s \in D : snapshot.seq < s
    BY <1>1, <1>2, <2>1, <2>2
  <2> QED
    BY <1>2, <2>1, <2>2, <2>3, ReflectsLater DEF Reflects
<1>6. ASSUME saveStep = "writing"
      PROVE  (capture' = capture => Reflects(capture)') /\ (snapshot' = capture => Reflects(snapshot)')
  <2>1. Reflects(capture) /\ capture.seq <= committed.seq
    BY <1>6 DEF DataInv, Covers
  <2>2. \A s \in D : capture.seq < s
    BY <1>1, <1>2, <2>1
  <2>3. /\ capture.durable \subseteq journal \union D
        /\ \A s \in capture.durable : s <= capture.seq
        /\ ~overtaken => \A s \in journal \union D : s <= capture.seq => s \in capture.durable
    BY <1>1, <1>2, <2>1, <2>2, ReflectsLater
  <2> QED
    BY <2>3 DEF Reflects
<1> QED
  BY <1>1, <1>3, <1>4, <1>5, <1>6

\* Every step keeps journal, committed state, save in flight and snapshot in line.
LEMMA DataKept == IInv /\ [Next]_vars => DataInv'
<1> SUFFICES ASSUME IInv, [Next]_vars PROVE DataInv'
  OBVIOUS
<1> USE PublisherFacts DEF disk, queue, saves, stop, past
<1>0. TypeOK /\ QueueInv /\ SaveInv /\ DataInv /\ DoubtInv /\ CloseInv /\ LateInv
  BY DEF IInv
<1>a. /\ pc \in [Publishers -> {"idle", "prepared", "queued", "dispatched", "append", "save",
                                "observe", "failing"}]
      /\ written \in [Publishers -> SUBSET Nat]
      /\ batch \in [Publishers -> Batches] /\ seq \in Nat /\ seq >= seq
      /\ committed \in States /\ committed.seq \in Nat
  BY <1>0 DEF TypeOK, States
<1>b. ASSUME NEW p \in Publishers,
             \E x \in {"idle", "prepared", "queued", "dispatched", "observe", "failing"} :
               pc' = [pc EXCEPT ![p] = x],
             written' = written \/ written' = [written EXCEPT ![p] = {}],
             UNCHANGED <<journal, snapshot, committed, phase, saves, overtaken, checked>>,
             batch' = batch \/ \E b : batch' = [batch EXCEPT ![p] = b],
             seq' \in Nat, seq' >= seq
      PROVE  DataInv'
  <2>1. \A q \in Publishers : /\ written'[q] \subseteq written[q]
                              /\ pc'[q] = "append" => pc[q] = "append" /\ batch'[q] = batch[q]
    BY <1>a, <1>b
  <2>2. Loaded' => Loaded
    BY <1>b DEF Loaded, Live
  <2> QED
    BY <1>0, <1>b, <2>1, <2>2, DataStay
<1>c. ASSUME UNCHANGED <<journal, snapshot, committed, queue, seq, overtaken>>, Loaded' => Loaded,
             saveStep' = "writing" => saveStep = "writing" /\ capture' = capture
      PROVE  DataInv'
  BY <1>0, <1>a, <1>c, DataStay
<1>1. ASSUME NEW c \in Commands, Admit(c) \/ Enqueue(c) \/ Dispatched(c) \/ DispatchThrows(c)
      PROVE  DataInv'
  <2>1. UNCHANGED <<journal, snapshot, committed, phase, saves, batch, seq, overtaken, checked>>
    BY <1>1 DEF Admit, Enqueue, Dispatched, DispatchThrows
  <2>2. written' = written \/ written' = [written EXCEPT ![c] = {}]
    BY <1>1 DEF Admit, Enqueue, Dispatched, DispatchThrows
  <2>3. \E x \in {"idle", "prepared", "queued"} : pc' = [pc EXCEPT ![c] = x]
    BY <1>1 DEF Admit, Enqueue, Dispatched, DispatchThrows
  <2> QED
    BY <1>a, <1>b, <2>1, <2>2, <2>3
<1>2. ASSUME NEW e \in Emitters, Emit(e) PROVE DataInv'
  BY <1>a, <1>b, <1>2 DEF Emit
<1>3. ASSUME NEW p \in Publishers, BeginRefused(p) PROVE DataInv'
  <2>1. seq' \in Nat /\ seq' >= seq
    BY <1>a, <1>3, BatchFacts DEF BeginRefused, Batches
  <2>2. /\ pc' = [pc EXCEPT ![p] = "idle"] /\ written' = [written EXCEPT ![p] = {}]
        /\ UNCHANGED <<journal, snapshot, committed, phase, saves, batch, overtaken, checked>>
    BY <1>3 DEF BeginRefused, Reject, Dismiss, Withdraw
  <2> QED
    BY <1>b, <2>1, <2>2
<1>4. ASSUME NEW p \in Publishers, Begin(p) PROVE DataInv'
  <2>1. PICK b \in NextBatches :
          batch' = [batch EXCEPT ![p] = b] /\ seq' = b.last /\ Checks(b.durable)
    BY <1>4 DEF Begin
  <2>2. /\ b \in Batches /\ b.last \in Nat /\ b.durable \subseteq Nat /\ b.last > seq
        /\ \A s \in b.durable : seq < s /\ s <= b.last
    BY <1>a, BatchFacts DEF Batches
  <2>3. /\ pc[p] = "queued" /\ AtHead(p) /\ Available /\ pc' = [pc EXCEPT ![p] = "append"]
        /\ UNCHANGED <<disk, phase, committed, written, saves, overtaken>>
    BY <1>4 DEF Begin
  <2>4. Loaded /\ (Loaded' => Loaded)
    BY <1>0, <2>3, WorkIsLoaded
  <2>5. committed.seq <= seq /\ (~overtaken => journal \subseteq committed.durable)
    BY <1>0, <2>3, <2>4 DEF DataInv, DoubtInv, Available
  <2>9. ASSUME ~overtaken, b.durable # {} PROVE checked'
    <3>1. \A t \in journal : t <= committed.seq
      BY <1>0, <2>5, <2>9 DEF DataInv, Reflects
    <3>2. journal \subseteq Nat
      BY <1>0 DEF TypeOK
    <3>3. Increasing(b.durable)
      BY <1>a, <2>2, <2>5, <3>1, <3>2 DEF Increasing
    <3> QED
      BY <2>1, <2>9, <3>3, Zenon DEF Checks
  <2>6. /\ \A s \in journal' : s > 0
        /\ Reflects(committed)'
        /\ snapshot' # NoSnapshot => Reflects(snapshot)'
        /\ snapshot' # NoSnapshot /\ Covers(committed, snapshot)'
        /\ saveStep' = "writing" =>
             Reflects(capture)' /\ Covers(capture, snapshot)' /\ Covers(committed, capture)'
    BY <1>0, <2>3, <2>4 DEF DataInv, Reflects, Covers
  <2>7. committed'.seq <= seq'
    BY <1>a, <2>1, <2>2, <2>3, <2>5
  <2>8. ASSUME NEW q \in Publishers
        PROVE  /\ written'[q] \subseteq committed'.durable
               /\ pc'[q] = "append" =>
                    /\ committed'.seq < batch'[q].last /\ batch'[q].last <= seq'
                    /\ \A s \in batch'[q].durable : committed'.seq < s /\ s <= batch'[q].last
                    /\ ~overtaken' => journal' \subseteq committed'.durable
                    /\ ~overtaken' /\ batch'[q].durable # {} => checked'
    <3>1. written'[q] \subseteq committed'.durable
      BY <1>0, <2>3 DEF DataInv
    <3>2. CASE q = p
      <4>1. batch'[q] = b
        BY <1>a, <2>1, <3>2
      <4>2. \A s \in b.durable : committed.seq < s /\ s <= b.last
        BY <1>a, <2>2, <2>5
      <4>3. committed.seq < b.last /\ b.last <= seq'
        BY <1>a, <2>1, <2>2, <2>5
      <4> QED
        BY <2>3, <2>5, <2>9, <3>1, <4>1, <4>2, <4>3
    <3>3. CASE q # p
      <4>1. pc'[q] = pc[q] /\ batch'[q] = batch[q]
        BY <1>a, <2>1, <2>3, <3>3
      <4>2. pc[q] # "append"
        BY <1>0, <2>3, <3>3 DEF QueueInv, Working, AtHead
      <4> QED
        BY <3>1, <4>1, <4>2
    <3> QED
      BY <3>2, <3>3
  <2> QED
    BY <2>6, <2>7, <2>8 DEF DataInv
<1>5. ASSUME NEW p \in Publishers, BeginFails(p) PROVE DataInv'
  <2>1. seq' \in Nat /\ seq' >= seq
    BY <1>a, <1>5, BatchFacts DEF BeginFails, Batches
  <2>2. /\ pc' = [pc EXCEPT ![p] = "failing"] /\ written' = written
        /\ UNCHANGED <<journal, snapshot, committed, phase, saves, batch, overtaken, checked>>
    BY <1>5 DEF BeginFails
  <2> QED
    BY <1>b, <2>1, <2>2
<1>6. ASSUME NEW p \in Publishers, Commit(p) PROVE DataInv'
  <2> DEFINE D == batch[p].durable
  <2>1. /\ pc[p] = "append" /\ journal' = journal \union D
        /\ committed' = [seq |-> batch[p].last, durable |-> committed.durable \union D]
        /\ written' = [written EXCEPT ![p] = @ \union D] /\ batch' = [batch EXCEPT ![p] = NoBatch]
        /\ pc' = [pc EXCEPT ![p] = "save"] \/ pc' = [pc EXCEPT ![p] = "observe"]
        /\ UNCHANGED <<snapshot, phase, seq, saveStep, capture, overtaken>>
    BY <1>6 DEF Commit, Writes
  <2>2. Loaded
    BY <1>0, <2>1, WorkIsLoaded
  <2>3. /\ batch[p].last \in Nat /\ D \subseteq Nat
        /\ committed.seq < batch[p].last /\ batch[p].last <= seq
        /\ ~overtaken => journal \subseteq committed.durable
        /\ \A s \in D : committed.seq < s /\ s <= batch[p].last
    BY <1>0, <1>a, <2>1 DEF DataInv, Batches
  <2>4. /\ \A s \in journal' : s > 0
        /\ snapshot' # NoSnapshot /\ Reflects(snapshot)'
        /\ saveStep' = "writing" => Reflects(capture)'
    BY <1>0, <2>1, <2>2, AppendReflects
  <2>5. Reflects(committed)'
    <3>1. \A s \in committed.durable : s \in journal /\ s <= committed.seq
      BY <1>0 DEF DataInv, Reflects
    <3>2. \A s \in committed.durable : s <= batch[p].last
      <4>1. committed.durable \subseteq Nat /\ committed.seq \in Nat /\ batch[p].last \in Nat
        BY <1>a, <2>3 DEF States
      <4> QED
        BY <2>3, <3>1, <4>1
    <3> QED
      BY <2>1, <2>3, <3>1, <3>2 DEF Reflects
  <2>6. committed'.seq <= seq' /\ Covers(committed, snapshot)'
    <3>1. snapshot.seq <= committed.seq /\ snapshot.durable \subseteq committed.durable
          /\ snapshot.seq \in Nat
      BY <1>0, <2>2 DEF DataInv, Covers, TypeOK, States
    <3>2. snapshot.seq <= batch[p].last
      BY <1>a, <2>3, <3>1
    <3> QED
      BY <2>1, <2>3, <3>1, <3>2 DEF Covers
  <2>7. saveStep' = "writing" => Covers(capture, snapshot)' /\ Covers(committed, capture)'
    <3> SUFFICES ASSUME saveStep = "writing"
                 PROVE  Covers(capture, snapshot)' /\ Covers(committed, capture)'
      BY <2>1
    <3>1. /\ Covers(capture, snapshot) /\ capture.seq <= committed.seq /\ capture.seq \in Nat
          /\ capture.durable \subseteq committed.durable
      BY <1>0 DEF DataInv, Covers, TypeOK, States
    <3>2. capture.seq <= batch[p].last
      BY <1>a, <2>3, <3>1
    <3> QED
      BY <2>1, <3>1, <3>2 DEF Covers
  <2>8. \A q \in Publishers : written'[q] \subseteq committed'.durable
    <3>1. \A q \in Publishers : written[q] \subseteq committed.durable
      BY <1>0 DEF DataInv
    <3> QED
      BY <1>a, <2>1, <3>1
  <2>9. \A q \in Publishers : pc'[q] # "append"
    <3>1. \A q \in Publishers : q # p => pc[q] # "append"
      BY <1>0, <2>1 DEF QueueInv, Working
    <3> QED
      BY <1>a, <2>1, <3>1
  <2> QED
    BY <2>4, <2>5, <2>6, <2>7, <2>8, <2>9 DEF DataInv
<1>7. ASSUME NEW p \in Publishers, CommitFails(p) PROVE DataInv'
  <2>1. /\ pc[p] = "append" /\ pc' = [pc EXCEPT ![p] = "failing"]
        /\ UNCHANGED <<snapshot, phase, seq, committed, written, saveStep, capture, overtaken>>
    BY <1>7 DEF CommitFails
  <2>2. PICK part \in SUBSET batch[p].durable : journal' = journal \union part
    BY <1>7, PartWritten
  <2>3. Loaded
    BY <1>0, <2>1, WorkIsLoaded
  <2>4. /\ \A s \in journal' : s > 0
        /\ Reflects(committed)'
        /\ snapshot' # NoSnapshot /\ Reflects(snapshot)'
        /\ saveStep' = "writing" => Reflects(capture)'
    BY <1>0, <2>1, <2>2, <2>3, AppendReflects
  <2>5. \A q \in Publishers : pc'[q] # "append"
    <3>1. \A q \in Publishers : q # p => pc[q] # "append"
      BY <1>0, <2>1 DEF QueueInv, Working
    <3> QED
      BY <1>a, <2>1, <3>1
  <2>6. /\ committed'.seq <= seq' /\ Covers(committed, snapshot)'
        /\ saveStep' = "writing" => Covers(capture, snapshot)' /\ Covers(committed, capture)'
        /\ \A q \in Publishers : written'[q] \subseteq committed'.durable
    BY <1>0, <2>1, <2>3 DEF DataInv, Covers
  <2> QED
    BY <2>4, <2>5, <2>6 DEF DataInv
<1>8. ASSUME NEW p \in Publishers, Observe(p) \/ Throw(p) PROVE DataInv'
  <2>1. UNCHANGED <<journal, snapshot, committed, phase, saves, batch, seq, overtaken, checked>>
    BY <1>8 DEF Observe, Throw
  <2>2. written' = [written EXCEPT ![p] = {}] \/ written' = [written EXCEPT ![p] = written[p]]
    BY <1>8 DEF Observe, Throw, Succeed, Reject, Withdraw
  <2>3. written' = [written EXCEPT ![p] = {}] \/ written' = written
    BY <1>a, <2>2
  <2>4. \E x \in {"idle", "dispatched"} : pc' = [pc EXCEPT ![p] = x]
    BY <1>8 DEF Observe, Throw, Succeed, Reject, Withdraw
  <2> QED
    BY <1>a, <1>b, <2>1, <2>3, <2>4
<1>9. ASSUME NEW p \in Publishers, ObserveAgain(p) \/ ObserveFails(p) PROVE DataInv'
  <2>1. /\ UNCHANGED <<journal, snapshot, committed, phase, saves, batch, seq, written>>
        /\ UNCHANGED <<overtaken, checked>>
    BY <1>9 DEF ObserveAgain, ObserveFails
  <2>2. \E x \in {"queued", "failing"} : pc' = [pc EXCEPT ![p] = x]
    BY <1>9 DEF ObserveAgain, ObserveFails
  <2> QED
    BY <1>a, <1>b, <2>1, <2>2
<1>10. CASE SaveBegins
  <2>1. /\ UNCHANGED <<disk, phase, seq, committed, queue, overtaken>> /\ saving # <<>>
        /\ capture' = committed
    BY <1>10 DEF SaveBegins
  <2>2. Loaded /\ (Loaded' => Loaded)
    BY <1>0, <2>1, WorkIsLoaded
  <2>3. Reflects(capture)' /\ Covers(capture, snapshot)' /\ Covers(committed, capture)'
    BY <1>0, <1>a, <2>1, <2>2 DEF DataInv, Reflects, Covers
  <2>4. /\ \A s \in journal' : s > 0
        /\ Reflects(committed)' /\ (snapshot' # NoSnapshot => Reflects(snapshot)')
        /\ snapshot' # NoSnapshot /\ committed'.seq <= seq' /\ Covers(committed, snapshot)'
    BY <1>0, <2>1, <2>2 DEF DataInv, Reflects, Covers
  <2>5. \A p \in Publishers :
          /\ written'[p] \subseteq committed'.durable
          /\ pc'[p] = "append" =>
               /\ committed'.seq < batch'[p].last /\ batch'[p].last <= seq'
               /\ \A s \in batch'[p].durable : committed'.seq < s /\ s <= batch'[p].last
               /\ ~overtaken' => journal' \subseteq committed'.durable
               /\ ~overtaken' /\ batch'[p].durable # {} => checked'
    BY <1>0, <2>1 DEF DataInv
  <2> QED
    BY <2>3, <2>4, <2>5 DEF DataInv
<1>11. CASE SaveRefused \/ SaveThrows
  <2>1. /\ UNCHANGED <<journal, snapshot, committed, phase, batch, seq, capture>>
        /\ UNCHANGED <<overtaken, checked>>
        /\ OwnerRejected /\ saveStep' # "writing"
    BY <1>11 DEF SaveRefused, SaveThrows, OwnerRejected
  <2>2. /\ pc' = pc \/ pc' = [pc EXCEPT ![Head(saving)] = "idle"]
        /\ written' = written \/ written' = [written EXCEPT ![Head(saving)] = {}]
    BY <2>1 DEF OwnerRejected, Reject, Withdraw
  <2>3. \A q \in Publishers : /\ written'[q] \subseteq written[q]
                              /\ pc'[q] = "append" => pc[q] = "append" /\ batch'[q] = batch[q]
    BY <1>a, <2>1, <2>2
  <2>4. Loaded' => Loaded
    BY <2>1 DEF Loaded, Live
  <2> QED
    BY <1>0, <1>a, <2>1, <2>3, <2>4, DataStay
<1>12. CASE SaveDone
  <2>1. /\ saveStep = "writing" /\ snapshot' = capture /\ saveStep' = "idle"
        /\ UNCHANGED <<journal, committed, phase, seq, batch, written, overtaken, checked>>
        /\ pc' = pc \/ pc' = [pc EXCEPT ![Head(saving)] = "observe"]
    BY <1>12 DEF SaveDone, OwnerObserves
  <2>2. Reflects(snapshot)' /\ Covers(committed, snapshot)'
    BY <1>0, <2>1 DEF DataInv, Reflects, Covers
  <2>3. snapshot' # NoSnapshot \/ ~Loaded'
    <3>1. Loaded
      BY <1>0, <2>1, WorkIsLoaded
    <3>2. capture \in States
      BY <1>0 DEF TypeOK
    <3> QED
      BY <2>1, <3>2, SnapshotAssumption
  <2>4. \A q \in Publishers : pc'[q] = "append" => pc[q] = "append"
    BY <1>a, <2>1
  <2>5. Loaded' => Loaded
    BY <2>1 DEF Loaded, Live
  <2>6. Reflects(committed)' /\ \A s \in journal' : s > 0
    BY <1>0, <2>1 DEF DataInv, Reflects
  <2> QED
    BY <1>0, <2>1, <2>2, <2>3, <2>4, <2>5, <2>6 DEF DataInv, Reflects
<1>13. CASE FinalSave
  <2>1. saving = <<>> /\ saveStep = "idle"
    BY <1>0, <1>13 DEF FinalSave, CloseInv, SaveInv
  <2>2. /\ UNCHANGED <<journal, seq, committed, queue, saves, overtaken>> /\ Loaded
        /\ snapshot' = committed \/ snapshot' = snapshot
    BY <1>13 DEF FinalSave, Loaded, Live, ClosePhases
  <2>3. snapshot' # NoSnapshot /\ Reflects(snapshot)' /\ Covers(committed, snapshot)'
    <3>1. CASE snapshot' = snapshot
      BY <1>0, <2>2, <3>1 DEF DataInv, Reflects, Covers
    <3>2. CASE snapshot' = committed
      BY <1>0, <1>a, <2>2, <3>2, SnapshotAssumption DEF DataInv, Reflects, Covers
    <3> QED
      BY <2>2, <3>1, <3>2
  <2>4. /\ Reflects(committed)' /\ committed'.seq <= seq' /\ saveStep' = "idle"
        /\ \A s \in journal' : s > 0
    BY <1>0, <2>1, <2>2 DEF DataInv, Reflects
  <2> QED
    BY <1>0, <2>2, <2>3, <2>4 DEF DataInv
<1>14. CASE Crash
  <2>1. /\ committed' = Empty /\ phase' = "stopped" /\ saveStep' = "idle"
        /\ \A p \in Publishers : pc'[p] = "idle" /\ written'[p] = {}
        /\ overtaken' = overtaken
    BY <1>14 DEF Crash, Forget
  <2>2. ~Loaded'
    BY <2>1 DEF Loaded, Live, ClosePhases
  <2>3. \A s \in journal' : s > 0
    <3>1. CASE journal' = journal
      BY <1>0, <3>1 DEF DataInv
    <3>2. ASSUME NEW p \in Publishers, pc[p] = "append",
                 \E part \in Prefixes(batch[p].durable) : journal' = journal \union part
          PROVE  \A s \in journal' : s > 0
      <4>1. PICK D \in SUBSET batch[p].durable : journal' = journal \union D
        BY <3>2 DEF Prefixes
      <4>2. Loaded
        BY <1>0, <3>2, WorkIsLoaded
      <4> QED
        BY <1>0, <2>1, <3>2, <4>1, <4>2, AppendReflects
    <3> QED
      BY <1>14, <3>1, <3>2 DEF Crash, WritesPartly
  <2>4. Reflects(committed)'
    <3>1. journal' \subseteq Nat
      BY <1>0, <1>14, TypesKept DEF TypeOK
    <3> QED
      BY <2>1, <2>3, <3>1 DEF Reflects, Empty
  <2>5. \/ snapshot' = snapshot
        \/ saveStep = "writing" /\ snapshot' = capture
        \/ phase \in {"starting", "final"} /\ snapshot' = committed
    BY <1>14 DEF Crash
  <2>6. snapshot' # NoSnapshot => Reflects(snapshot)'
    <3>1. CASE journal' = journal
      BY <1>0, <2>1, <2>5, <3>1 DEF DataInv, Reflects
    <3>2. ASSUME NEW p \in Publishers, pc[p] = "append",
                 \E part \in Prefixes(batch[p].durable) : journal' = journal \union part
          PROVE  snapshot' # NoSnapshot => Reflects(snapshot)'
      <4>1. PICK D \in SUBSET batch[p].durable : journal' = journal \union D
        BY <3>2 DEF Prefixes
      <4>2. Loaded
        BY <1>0, <3>2, WorkIsLoaded
      <4>3. ~(phase \in {"starting", "final"})
        <5>1. phase # "starting"
          BY <4>2 DEF Loaded, Live, ClosePhases
        <5>2. phase = "final" => \A q \in Publishers : pc[q] = "idle"
          BY <1>0 DEF CloseInv
        <5> QED
          BY <3>2, <5>1, <5>2
      <4> QED
        BY <1>0, <2>1, <2>5, <3>2, <4>1, <4>2, <4>3, AppendReflects
    <3> QED
      BY <1>14, <3>1, <3>2 DEF Crash, WritesPartly
  <2> QED
    BY <2>1, <2>2, <2>3, <2>4, <2>6 DEF DataInv
<1>15. CASE LoadRefused \/ Load
  <2>1. /\ UNCHANGED disk /\ saveStep' = "idle"
        /\ \A p \in Publishers : pc'[p] = "idle" /\ written'[p] = {}
    BY <1>15 DEF LoadRefused, Load, Forget
  <2>7. ~overtaken' => ~overtaken
    BY <1>15, Zenon DEF LoadRefused, Load, Overtake
  <2>2. /\ \A s \in journal' : s > 0
        /\ snapshot' # NoSnapshot => Reflects(snapshot)'
    BY <1>0, <2>1, <2>7 DEF DataInv, Reflects
  <2>3. journal \subseteq Nat
    BY <1>0 DEF TypeOK
  <2>4. CASE LoadRefused
    <3>1. committed' = Empty /\ phase' = "refused"
      BY <2>4 DEF LoadRefused
    <3>2. ~Loaded'
      BY <3>1 DEF Loaded, Live, ClosePhases
    <3>3. Reflects(committed)'
      BY <1>0, <2>1, <2>3, <3>1 DEF Reflects, Empty, DataInv
    <3> QED
      BY <2>1, <2>2, <3>2, <3>3 DEF DataInv
  <2>5. CASE Load /\ snapshot = NoSnapshot
    <3>1. journal = {} /\ committed'.durable = {} /\ phase' = "starting"
      BY <1>0, <2>5 DEF DoubtInv, Load
    <3>2. ~Loaded'
      BY <3>1 DEF Loaded, Live, ClosePhases
    <3>3. Reflects(committed)'
      BY <2>1, <3>1 DEF Reflects
    <3> QED
      BY <2>1, <2>2, <3>2, <3>3 DEF DataInv
  <2>6. CASE Load /\ snapshot # NoSnapshot
    <3>1. snapshot \in States /\ snapshot.seq \in Nat /\ \A s \in journal : s <= snapshot.seq
      BY <1>0, <2>6 DEF TypeOK, Load, Recoverable, States
    <3>2. committed' = snapshot /\ seq' = snapshot.seq
      BY <2>3, <2>6, <3>1, TopOfCovered DEF Load
    <3>3. Reflects(committed)' /\ Covers(committed, snapshot)' /\ committed'.seq <= seq'
          /\ snapshot' # NoSnapshot
      BY <1>0, <2>1, <2>6, <2>7, <3>1, <3>2 DEF DataInv, Reflects, Covers
    <3> QED
      BY <2>1, <2>2, <3>3 DEF DataInv
  <2> QED
    BY <1>15, <2>4, <2>5, <2>6
<1>16. CASE FirstSave
  <2>1. /\ snapshot' = committed \/ (snapshot' = snapshot /\ phase' = "stopped")
        /\ UNCHANGED <<journal, seq, committed, queue, saves, overtaken>> /\ phase = "starting"
    BY <1>16 DEF FirstSave
  <2>2. ~Loaded
    BY <2>1 DEF Loaded, Live, ClosePhases
  <2>3. saveStep' = "idle" /\ \A p \in Publishers : pc'[p] = "idle" /\ written'[p] = {}
    BY <1>0, <2>1, <2>2 DEF DoubtInv
  <2>4. CASE snapshot' = committed
    <3>1. committed = Empty /\ seq = 0
      BY <1>0, <2>1 DEF DoubtInv
    <3>2. snapshot' # NoSnapshot /\ Reflects(snapshot)' /\ Reflects(committed)'
          /\ Covers(committed, snapshot)' /\ committed'.seq <= seq'
          /\ \A s \in journal' : s > 0
      BY <1>0, <1>a, <2>1, <2>4, <3>1, SnapshotAssumption DEF DataInv, Reflects, Covers, Empty
    <3> QED
      BY <2>3, <3>2 DEF DataInv
  <2>5. CASE snapshot' = snapshot /\ phase' = "stopped"
    <3>1. ~Loaded'
      BY <2>5 DEF Loaded, Live, ClosePhases
    <3>2. Reflects(committed)' /\ (snapshot' # NoSnapshot => Reflects(snapshot)')
          /\ \A s \in journal' : s > 0
      BY <1>0, <2>1, <2>5 DEF DataInv, Reflects
    <3> QED
      BY <2>3, <3>1, <3>2 DEF DataInv
  <2> QED
    BY <2>1, <2>4, <2>5
<1>19. CASE SaveFails
  <2>1. /\ saveStep = "writing" /\ snapshot' \in {snapshot, capture} /\ saveStep' # "writing"
        /\ UNCHANGED <<journal, committed, phase, seq, queue, overtaken>>
    BY <1>19 DEF SaveFails
  <2>2. Loaded /\ (Loaded' => Loaded) /\ capture \in States
    BY <1>0, <2>1, WorkIsLoaded DEF TypeOK
  <2>3. snapshot' # NoSnapshot /\ Reflects(snapshot)' /\ Covers(committed, snapshot)'
    BY <1>0, <2>1, <2>2, SnapshotAssumption DEF DataInv, Reflects, Covers
  <2>4. Reflects(committed)' /\ (\A s \in journal' : s > 0) /\ committed'.seq <= seq'
    BY <1>0, <2>1, <2>2 DEF DataInv, Reflects
  <2>5. \A p \in Publishers :
          /\ written'[p] \subseteq committed'.durable
          /\ pc'[p] = "append" =>
               /\ committed'.seq < batch'[p].last /\ batch'[p].last <= seq'
               /\ \A s \in batch'[p].durable : committed'.seq < s /\ s <= batch'[p].last
               /\ ~overtaken' => journal' \subseteq committed'.durable
               /\ ~overtaken' /\ batch'[p].durable # {} => checked'
    BY <1>0, <2>1 DEF DataInv
  <2> QED
    BY <2>1, <2>3, <2>4, <2>5 DEF DataInv
<1>20. ASSUME NEW i \in 1..Len(late), LateAppend(i) PROVE DataInv'
  <2>1. UNCHANGED <<snapshot, phase, seq, committed, queue, saves, overtaken>>
    BY <1>20 DEF LateAppend
  <2>2. late # <<>> /\ late[i] \in SUBSET Nat
    BY <1>0 DEF TypeOK
  <2>3. PICK D \in SUBSET late[i] : journal' = journal \union D
    BY <1>20, <2>2, WriteFacts, <1>0 DEF LateAppend
  <2>4. \A s \in journal' : s > 0
    BY <1>0, <2>3 DEF DataInv, LateInv
  <2>5. CASE overtaken
    <3>1. /\ Reflects(committed)'
          /\ snapshot' # NoSnapshot => Reflects(snapshot)'
          /\ saveStep' = "writing" => Reflects(capture)'
      BY <1>0, <2>1, <2>3, <2>5 DEF DataInv, Reflects
    <3>2. /\ Loaded' => snapshot' # NoSnapshot /\ committed'.seq <= seq' /\ Covers(committed, snapshot)'
          /\ saveStep' = "writing" => Covers(capture, snapshot)' /\ Covers(committed, capture)'
      BY <1>0, <2>1 DEF DataInv, Covers, Loaded, Live
    <3>3. \A p \in Publishers :
            /\ written'[p] \subseteq committed'.durable
            /\ pc'[p] = "append" =>
                 /\ committed'.seq < batch'[p].last /\ batch'[p].last <= seq'
                 /\ \A s \in batch'[p].durable : committed'.seq < s /\ s <= batch'[p].last
      BY <1>0, <2>1 DEF DataInv
    <3> QED
      BY <2>1, <2>4, <2>5, <3>1, <3>2, <3>3 DEF DataInv
  <2>6. CASE ~overtaken
    <3>1. /\ snapshot # NoSnapshot /\ ~Loaded
          /\ \A s \in D : snapshot.seq < s
      BY <1>0, <2>2, <2>6 DEF LateInv
    <3>2. ~Loaded'
      BY <2>1, <3>1 DEF Loaded, Live
    <3>3. Reflects(snapshot)'
      <4>1. snapshot \in States /\ D \in SUBSET Nat /\ Reflects(snapshot)
        BY <1>0, <2>2, <3>1 DEF TypeOK, DataInv
      <4> QED
        BY <2>1, <2>3, <3>1, <4>1, ReflectsLater DEF Reflects
    <3>4. /\ committed = Empty /\ saveStep = "idle"
          /\ \A p \in Publishers : pc[p] = "idle" /\ written[p] = {}
      BY <1>0, <3>1 DEF DoubtInv
    <3>5. Reflects(committed)'
      <4>1. journal' \subseteq Nat
        BY <1>0, <2>2, <2>3 DEF TypeOK
      <4> QED
        BY <2>1, <2>4, <3>4, <4>1 DEF Reflects, Empty
    <3> QED
      BY <2>1, <2>4, <3>2, <3>3, <3>4, <3>5 DEF DataInv
  <2> QED
    BY <2>5, <2>6
<1>17. CASE TimerFires \/ QuarantineSettles \/ UNCHANGED vars
  <2>1. UNCHANGED <<journal, snapshot, committed, queue, seq, phase, overtaken>>
    BY <1>17 DEF TimerFires, QuarantineSettles, vars
  <2>2. saveStep' = "writing" => saveStep = "writing" /\ capture' = capture
    BY <1>17 DEF TimerFires, QuarantineSettles, vars
  <2>3. Loaded' => Loaded
    BY <2>1 DEF Loaded, Live
  <2> QED
    BY <1>c, <2>1, <2>2, <2>3
<1>18. CASE BeginClose \/ OperationsEnd \/ StopClock \/ EmissionsEnd \/ Disconnect \/ SavesEnd
  <2>1. UNCHANGED <<journal, snapshot, committed, queue, saves, seq, overtaken>>
    BY <1>18 DEF BeginClose, OperationsEnd, StopClock, EmissionsEnd, Disconnect, SavesEnd
  <2>2. phase \in {"open"} \union ClosePhases
    BY <1>18 DEF BeginClose, OperationsEnd, StopClock, EmissionsEnd, Disconnect, SavesEnd, ClosePhases
  <2>3. Loaded
    BY <2>2 DEF Loaded, Live
  <2> QED
    BY <1>c, <2>1, <2>3
<1> QED
  BY <1>1, <1>2, <1>3, <1>4, <1>5, <1>6, <1>7, <1>8, <1>9, <1>10, <1>11, <1>12, <1>13, <1>14,
     <1>15, <1>16, <1>17, <1>18, <1>19, <1>20 DEF Next, Publish, Save, Close

-----------------------------------------------------------------------------
(* What is in doubt on disk. *)

\* After failCommit the Run has failed and its quarantine has begun.
LEMMA FailCommitStops ==
  ASSUME TypeOK, DoubtInv, NEW kind \in {"uncertain", "observer"}, FailCommit(kind)
  PROVE  failure' # "none" /\ quarantine' # "none"
BY DEF DoubtInv, FailCommit, stop

\* A batch that is being appended comes after all of the journal.
LEMMA AppendIncreases ==
  ASSUME TypeOK, DataInv, ~overtaken, NEW p \in Publishers, pc[p] = "append"
  PROVE  Increasing(batch[p].durable)
<1>1. committed.seq \in Nat /\ journal \subseteq Nat /\ batch[p].durable \subseteq Nat
  BY DEF TypeOK, States, Batches
<1>2. \A s \in batch[p].durable : committed.seq < s
  BY DEF DataInv
<1>3. \A t \in journal : t <= committed.seq
  BY DEF DataInv, Reflects
<1> QED
  BY <1>1, <1>2, <1>3 DEF Increasing

\* A step of a loaded runtime that fails, or that keeps the journal applied.
LEMMA DoubtLoaded ==
  ASSUME DoubtInv, Loaded, Loaded', snapshot' # NoSnapshot,
         \/ /\ UNCHANGED <<failure, quarantine, marker, overtaken>>
            /\ ~overtaken /\ ~damaged /\ journal \subseteq committed.durable =>
                 ~damaged' /\ journal' \subseteq committed'.durable
         \/ failure' # "none" /\ quarantine' # "none"
  PROVE  DoubtInv'
<1>1. phase' # "starting"
  BY DEF Loaded, Live, ClosePhases
<1>2. failure' # "none" => quarantine' # "none"
  BY DEF DoubtInv
<1>3. failure' = "none" =>
        /\ ~marker' /\ quarantine' = "none"
        /\ ~overtaken' => journal' \subseteq committed'.durable /\ ~damaged'
  BY DEF DoubtInv
<1> QED
  BY <1>1, <1>2, <1>3 DEF DoubtInv

\* Every step keeps a Run that has not failed free of doubt on disk.
LEMMA DoubtKept == IInv /\ [Next]_vars => DoubtInv'
<1> SUFFICES ASSUME IInv, [Next]_vars PROVE DoubtInv'
  OBVIOUS
<1> USE PublisherFacts DEF disk, queue, saves, stop, past
<1>0. TypeOK /\ QueueInv /\ SaveInv /\ DataInv /\ DoubtInv /\ LateInv
  BY DEF IInv
<1>a. ASSUME Loaded, phase' = phase \/ phase' \in {"closed"} \union ClosePhases
      PROVE  Loaded' /\ snapshot # NoSnapshot
  BY <1>0, <1>a DEF Loaded, Live, DataInv
<1>b. ASSUME Loaded, UNCHANGED <<journal, damaged, marker, committed, failure, quarantine, phase>>,
             UNCHANGED <<snapshot, overtaken>>
      PROVE  DoubtInv'
  BY <1>0, <1>a, <1>b, DoubtLoaded
<1>1. ASSUME NEW c \in Commands, Admit(c) \/ Enqueue(c) \/ Dispatched(c) \/ DispatchThrows(c)
      PROVE  DoubtInv'
  <2>1. /\ UNCHANGED <<disk, phase, committed, stop, overtaken>>
        /\ phase = "open" \/ pc[c] # "idle"
    BY <1>1 DEF Admit, Enqueue, Dispatched, DispatchThrows
  <2>2. Loaded
    BY <1>0, <2>1, WorkIsLoaded DEF Loaded, Live
  <2> QED
    BY <1>b, <2>1, <2>2
<1>2. ASSUME NEW e \in Emitters, Emit(e) PROVE DoubtInv'
  BY <1>b, <1>2 DEF Emit, Loaded, Live, ClosePhases
<1>3. ASSUME NEW p \in Publishers,
             BeginRefused(p) \/ Begin(p) \/ Observe(p) \/ ObserveAgain(p) \/ Throw(p)
      PROVE  DoubtInv'
  <2>1. UNCHANGED <<disk, phase, committed, stop, overtaken>> /\ pc[p] # "idle"
    BY <1>3 DEF BeginRefused, Begin, Observe, ObserveAgain, Throw
  <2>2. Loaded
    BY <1>0, <2>1, WorkIsLoaded
  <2> QED
    BY <1>b, <2>1, <2>2
<1>4. ASSUME NEW p \in Publishers, BeginFails(p) \/ CommitFails(p) \/ ObserveFails(p)
      PROVE  DoubtInv'
  <2>1. /\ pc[p] # "idle" /\ UNCHANGED <<phase, snapshot>>
        /\ \E kind \in {"uncertain", "observer"} : FailCommit(kind)
    BY <1>4 DEF BeginFails, CommitFails, ObserveFails
  <2>2. Loaded /\ failure' # "none" /\ quarantine' # "none"
    BY <1>0, <2>1, WorkIsLoaded, FailCommitStops
  <2> QED
    BY <1>0, <1>a, <2>1, <2>2, DoubtLoaded
<1>5. ASSUME NEW p \in Publishers, Commit(p) PROVE DoubtInv'
  <2>1. /\ pc[p] = "append" /\ UNCHANGED <<phase, snapshot, marker, stop, overtaken>>
        /\ Writes(batch[p].durable)
        /\ committed'.durable = committed.durable \union batch[p].durable
    BY <1>5 DEF Commit
  <2>2. Loaded
    BY <1>0, <2>1, WorkIsLoaded
  <2>3. ~overtaken /\ ~damaged => ~damaged'
    BY <1>0, <2>1, AppendIncreases DEF Writes
  <2>4. journal' = journal \union batch[p].durable
    BY <2>1 DEF Writes
  <2> QED
    BY <1>0, <1>a, <2>1, <2>2, <2>3, <2>4, DoubtLoaded
<1>6. CASE SaveBegins \/ SaveRefused \/ SaveThrows \/ TimerFires
  <2>1. /\ UNCHANGED <<disk, phase, committed, stop, overtaken>>
        /\ saving # <<>> \/ saveStep # "idle" \/ timer
    BY <1>6 DEF SaveBegins, SaveRefused, SaveThrows, TimerFires
  <2>2. Loaded
    BY <1>0, <2>1, WorkIsLoaded
  <2> QED
    BY <1>b, <2>1, <2>2
<1>7. CASE SaveDone
  <2>1. /\ UNCHANGED <<journal, damaged, marker, phase, committed, stop, overtaken>>
        /\ saveStep = "writing" /\ snapshot' = capture
    BY <1>7 DEF SaveDone
  <2>2. Loaded /\ capture \in States
    BY <1>0, <2>1, WorkIsLoaded DEF TypeOK
  <2> QED
    BY <1>0, <1>a, <2>1, <2>2, DoubtLoaded, SnapshotAssumption
<1>8. CASE SaveFails
  <2>1. /\ saveStep # "idle" /\ UNCHANGED phase /\ FailCommit("uncertain")
        /\ snapshot' \in {snapshot, capture}
    BY <1>8 DEF SaveFails
  <2>2. Loaded /\ failure' # "none" /\ quarantine' # "none"
    BY <1>0, <2>1, WorkIsLoaded, FailCommitStops
  <2>3. snapshot' # NoSnapshot
    BY <1>0, <1>a, <2>1, <2>2, SnapshotAssumption DEF TypeOK
  <2> QED
    BY <1>0, <1>a, <2>1, <2>2, <2>3, DoubtLoaded
<1>9. CASE QuarantineSettles
  <2>1. quarantine = "writing" /\ quarantine' = "settled" /\ UNCHANGED <<failure, phase, snapshot>>
    BY <1>9 DEF QuarantineSettles
  <2>2. Loaded /\ failure' # "none"
    BY <1>0, <2>1, WorkIsLoaded DEF DoubtInv
  <2> QED
    BY <1>0, <1>a, <2>1, <2>2, DoubtLoaded
<1>10. CASE BeginClose \/ OperationsEnd \/ StopClock \/ EmissionsEnd \/ Disconnect \/ SavesEnd
  <2>1. /\ UNCHANGED <<disk, committed, overtaken>> /\ Loaded
        /\ phase' = phase \/ phase' \in {"closed"} \union ClosePhases
    BY <1>10 DEF BeginClose, OperationsEnd, StopClock, EmissionsEnd, Disconnect, SavesEnd,
                 ClosePhases, Loaded, Live
  <2>2. UNCHANGED stop \/ (failure' # "none" /\ quarantine' # "none")
    BY <1>0, <1>10, FailCommitStops
       DEF BeginClose, OperationsEnd, StopClock, EmissionsEnd, Disconnect, SavesEnd
  <2> QED
    BY <1>0, <1>a, <2>1, <2>2, DoubtLoaded
<1>11. CASE FinalSave
  <2>1. /\ UNCHANGED <<journal, damaged, marker, committed, overtaken>> /\ Loaded
        /\ phase' \in {"closed"} \union ClosePhases
        /\ snapshot' = snapshot \/ snapshot' = committed
    BY <1>11 DEF FinalSave, ClosePhases, Loaded, Live
  <2>2. UNCHANGED stop \/ (failure' # "none" /\ quarantine' # "none")
    BY <1>0, <1>11, FailCommitStops DEF FinalSave
  <2>3. snapshot' # NoSnapshot
    BY <1>0, <1>a, <2>1, SnapshotAssumption DEF TypeOK
  <2> QED
    BY <1>0, <1>a, <2>1, <2>2, <2>3, DoubtLoaded
<1>12. CASE Crash
  <2>1. phase' = "stopped" /\ committed' = Empty /\ Forget
    BY <1>12 DEF Crash
  <2>2. ~Loaded' /\ phase' # "starting"
    BY <2>1 DEF Loaded, Live, ClosePhases
  <2>3. snapshot' = NoSnapshot => journal' = {} /\ ~marker' /\ ~damaged'
    <3>1. SUFFICES ASSUME snapshot' = NoSnapshot PROVE journal' = {} /\ ~marker' /\ ~damaged'
      OBVIOUS
    <3>2. snapshot = NoSnapshot
      BY <1>0, <1>12, <3>1, SnapshotAssumption DEF Crash, TypeOK
    <3>3. ~Loaded /\ journal = {} /\ ~marker /\ ~damaged
      BY <1>0, <3>2 DEF DataInv, DoubtInv
    <3>4. quarantine = "none" /\ \A p \in Publishers : pc[p] = "idle"
      BY <1>0, <3>3 DEF DoubtInv
    <3>5. journal' = journal /\ damaged' = damaged /\ marker' = marker
      BY <1>12, <3>4 DEF Crash
    <3> QED
      BY <3>3, <3>5
  <2> QED
    BY <2>1, <2>2, <2>3 DEF DoubtInv, Forget
<1>13. CASE LoadRefused
  <2>1. phase' = "refused" /\ committed' = Empty /\ Forget /\ UNCHANGED disk
    BY <1>13 DEF LoadRefused
  <2>2. ~Loaded' /\ phase' # "starting"
    BY <2>1 DEF Loaded, Live, ClosePhases
  <2> QED
    BY <1>0, <2>1, <2>2 DEF DoubtInv, Forget
<1>14. CASE Load /\ snapshot = NoSnapshot
  <2>1. /\ phase' = "starting" /\ seq' = Top({0} \union journal)
        /\ committed' = [seq |-> seq', durable |-> {}] /\ Forget /\ UNCHANGED disk
    BY <1>14 DEF Load
  <2>2. journal = {}
    BY <1>0, <1>14 DEF DoubtInv
  <2>3. seq' = 0 /\ committed' = Empty
    BY <2>1, <2>2, TopOfCovered DEF Empty
  <2>4. ~Loaded'
    BY <2>1 DEF Loaded, Live, ClosePhases
  <2> QED
    BY <1>0, <1>14, <2>1, <2>3, <2>4 DEF DoubtInv, Forget
<1>15. CASE Load /\ snapshot # NoSnapshot
  <2>1. /\ phase' = "open" /\ committed' = snapshot /\ Forget /\ UNCHANGED disk
        /\ ~marker /\ ~damaged /\ \A s \in journal : s <= snapshot.seq
    BY <1>15 DEF Load, Recoverable
  <2>2. ~overtaken' => journal \subseteq snapshot.durable
    BY <1>0, <1>15, <2>1 DEF DataInv, Reflects, Load, Overtake
  <2>3. Loaded' /\ failure' = "none" /\ quarantine' = "none"
    BY <2>1 DEF Loaded, Live, Forget
  <2> QED
    BY <1>15, <2>1, <2>2, <2>3 DEF DoubtInv
<1>16. CASE FirstSave
  <2>1. /\ UNCHANGED <<journal, damaged, marker, seq, committed, queue, saves, timer, stop>>
        /\ phase = "starting"
    BY <1>16 DEF FirstSave
  <2>2. ~Loaded
    BY <2>1 DEF Loaded, Live, ClosePhases
  <2>3. /\ journal = {} /\ ~marker /\ ~damaged /\ failure = "none" /\ quarantine = "none"
        /\ snapshot = NoSnapshot
    BY <1>0, <2>1, <2>2 DEF DoubtInv
  <2>4. CASE phase' = "open" /\ snapshot' = committed
    <3>1. Loaded' /\ snapshot' # NoSnapshot
      BY <1>0, <2>4, SnapshotAssumption DEF Loaded, Live, TypeOK
    <3> QED
      BY <2>1, <2>3, <2>4, <3>1 DEF DoubtInv
  <2>5. CASE phase' = "stopped"
    <3>1. ~Loaded'
      BY <2>5 DEF Loaded, Live, ClosePhases
    <3> QED
      BY <1>0, <2>1, <2>2, <2>3, <2>5, <3>1 DEF DoubtInv
  <2> QED
    BY <1>16, <2>4, <2>5 DEF FirstSave
<1>18. ASSUME NEW i \in 1..Len(late), LateAppend(i) PROVE DoubtInv'
  <2>1. /\ UNCHANGED <<snapshot, marker, phase, seq, committed, queue, saves, timer, stop>>
        /\ overtaken' = overtaken
    BY <1>18 DEF LateAppend
  <2>2. late # <<>>
    BY <1>0 DEF TypeOK
  <2>3. snapshot # NoSnapshot /\ phase # "starting" /\ (Loaded => overtaken)
    BY <1>0, <2>2 DEF LateInv, DoubtInv
  <2> QED
    BY <1>0, <2>1, <2>3 DEF DoubtInv, Loaded, Live
<1>17. CASE UNCHANGED vars
  BY <1>0, <1>17 DEF vars, DoubtInv, Loaded, Live
<1> QED
  BY <1>1, <1>2, <1>3, <1>4, <1>5, <1>6, <1>7, <1>8, <1>9, <1>10, <1>11, <1>12, <1>13, <1>14,
     <1>15, <1>16, <1>17, <1>18 DEF Next, Publish, Save, Close

-----------------------------------------------------------------------------
(* Answers. *)

\* The snapshot stays, and what publishers have written and not saved grows not.
LEMMA AckStay ==
  ASSUME AckInv, snapshot' = snapshot, acked' = acked,
         \A p \in Publishers :
           \/ written'[p] = {}
           \/ pc'[p] \in {"save", "failing"}
           \/ written'[p] = written[p] /\ pc[p] \notin {"save", "failing"}
  PROVE  AckInv'
BY DEF AckInv

\* Every step keeps what a command will be answered for on disk.
LEMMA AckKept == IInv /\ [Next]_vars => AckInv'
<1> SUFFICES ASSUME IInv, [Next]_vars PROVE AckInv'
  OBVIOUS
<1> USE PublisherFacts DEF disk, queue, saves, stop, past
<1>0. TypeOK /\ QueueInv /\ SaveInv /\ DataInv /\ DoubtInv /\ AckInv
  BY DEF IInv
<1>a. /\ pc \in [Publishers -> {"idle", "prepared", "queued", "dispatched", "append", "save",
                                "observe", "failing"}]
      /\ written \in [Publishers -> SUBSET Nat]
  BY <1>0 DEF TypeOK
<1>b. ASSUME NEW p \in Publishers, NEW x, pc' = [pc EXCEPT ![p] = x],
             UNCHANGED <<snapshot, acked>>,
             \/ written' = [written EXCEPT ![p] = {}]
             \/ written' = written /\ (pc[p] \notin {"save", "failing"} \/ x \in {"save", "failing"})
      PROVE  AckInv'
  <2>1. \A q \in Publishers : q # p => pc'[q] = pc[q] /\ written'[q] = written[q]
    BY <1>a, <1>b
  <2>2. pc'[p] = x /\ (written'[p] = {} \/ written'[p] = written[p])
    BY <1>a, <1>b
  <2>3. \A q \in Publishers :
           \/ written'[q] = {}
           \/ pc'[q] \in {"save", "failing"}
           \/ written'[q] = written[q] /\ pc[q] \notin {"save", "failing"}
    BY <1>a, <1>b, <2>1, <2>2
  <2> QED
    BY <1>0, <1>b, <2>3, AckStay
<1>c. ASSUME UNCHANGED <<snapshot, acked, pc, written>> PROVE AckInv'
  BY <1>0, <1>c, AckStay
<1>1. ASSUME NEW c \in Commands, Admit(c) \/ Enqueue(c) \/ Dispatched(c) \/ DispatchThrows(c)
      PROVE  AckInv'
  <2>1. UNCHANGED <<snapshot, acked>> /\ pc[c] \notin {"save", "failing"}
    BY <1>1 DEF Admit, Enqueue, Dispatched, DispatchThrows
  <2>2. \E x : pc' = [pc EXCEPT ![c] = x]
    BY <1>1 DEF Admit, Enqueue, Dispatched, DispatchThrows
  <2>3. written' = written \/ written' = [written EXCEPT ![c] = {}]
    BY <1>1 DEF Admit, Enqueue, Dispatched, DispatchThrows
  <2> QED
    BY <1>b, <2>1, <2>2, <2>3
<1>2. ASSUME NEW e \in Emitters, Emit(e) PROVE AckInv'
  BY <1>b, <1>2 DEF Emit
<1>3. ASSUME NEW p \in Publishers, BeginRefused(p) \/ Throw(p) PROVE AckInv'
  <2>1. /\ UNCHANGED <<snapshot, acked>> /\ pc' = [pc EXCEPT ![p] = "idle"]
        /\ written' = [written EXCEPT ![p] = {}]
    BY <1>3 DEF BeginRefused, Throw, Reject, Dismiss, Withdraw
  <2> QED
    BY <1>b, <2>1
<1>4. ASSUME NEW p \in Publishers,
             Begin(p) \/ BeginFails(p) \/ CommitFails(p) \/ ObserveAgain(p) \/ ObserveFails(p)
      PROVE  AckInv'
  <2>1. UNCHANGED <<snapshot, acked, written>> /\ pc[p] \notin {"save", "failing"}
    BY <1>4 DEF Begin, BeginFails, CommitFails, ObserveAgain, ObserveFails
  <2>2. \E x : pc' = [pc EXCEPT ![p] = x]
    BY <1>4 DEF Begin, BeginFails, CommitFails, ObserveAgain, ObserveFails
  <2> QED
    BY <1>b, <2>1, <2>2
<1>5. ASSUME NEW p \in Publishers, Commit(p) PROVE AckInv'
  <2>1. /\ UNCHANGED <<snapshot, acked>> /\ pc[p] \notin {"save", "failing"}
        /\ written' = [written EXCEPT ![p] = @ \union batch[p].durable]
    BY <1>5 DEF Commit
  <2>2. CASE batch[p].durable # {}
    <3>1. pc' = [pc EXCEPT ![p] = "save"]
      BY <1>5, <2>2 DEF Commit
    <3>2. \A q \in Publishers :
             \/ pc'[q] \in {"save", "failing"}
             \/ written'[q] = written[q] /\ pc[q] \notin {"save", "failing"}
      BY <1>a, <2>1, <3>1
    <3> QED
      BY <1>0, <2>1, <3>2, AckStay
  <2>3. CASE batch[p].durable = {}
    <3>1. pc' = [pc EXCEPT ![p] = "observe"]
      BY <1>5, <2>3 DEF Commit
    <3>2. written' = written
      BY <1>a, <2>1, <2>3
    <3> QED
      BY <1>b, <2>1, <3>1, <3>2
  <2> QED
    BY <2>2, <2>3
<1>6. ASSUME NEW p \in Publishers, Observe(p) PROVE AckInv'
  <2>1. pc[p] = "observe" /\ UNCHANGED snapshot /\ Succeed(p)
    BY <1>6 DEF Observe
  <2>2. \E x : pc' = [pc EXCEPT ![p] = x]
    BY <2>1 DEF Succeed
  <2>3. /\ written' = [written EXCEPT ![p] = {}] \/ written' = [written EXCEPT ![p] = written[p]]
        /\ acked' = acked \/ acked' = acked \union written[p]
    BY <2>1 DEF Succeed
  <2>4. /\ \A q \in Publishers : q # p => pc'[q] = pc[q] /\ written'[q] = written[q]
        /\ written'[p] = {} \/ written'[p] = written[p]
    BY <1>a, <2>2, <2>3
  <2>5. written[p] # {} => snapshot # NoSnapshot /\ written[p] \subseteq snapshot.durable
    BY <1>0, <2>1 DEF AckInv
  <2>6. acked' # {} => snapshot' # NoSnapshot /\ acked' \subseteq snapshot'.durable
    BY <1>0, <2>1, <2>3, <2>5 DEF AckInv
  <2>7. \A q \in Publishers : pc'[q] \notin {"save", "failing"} /\ written'[q] # {} =>
          snapshot' # NoSnapshot /\ written'[q] \subseteq snapshot'.durable
    BY <1>0, <2>1, <2>4, <2>5 DEF AckInv
  <2> QED
    BY <2>6, <2>7 DEF AckInv
<1>7. CASE SaveRefused \/ SaveThrows
  <2>1. saving # <<>> /\ UNCHANGED snapshot /\ OwnerRejected
    BY <1>0, <1>7 DEF SaveInv, SaveRefused, SaveThrows
  <2>2. CASE Head(saving) = Timer
    BY <1>c, <2>1, <2>2 DEF OwnerRejected
  <2>3. CASE Head(saving) # Timer
    <3>1. PICK p \in Publishers : p = Head(saving)
      BY <1>0, <2>1, <2>3, OwnerAtHead
    <3>2. UNCHANGED acked /\ pc' = [pc EXCEPT ![p] = "idle"] /\ written' = [written EXCEPT ![p] = {}]
      BY <2>1, <2>3, <3>1 DEF OwnerRejected, Reject, Withdraw
    <3> QED
      BY <1>b, <2>1, <3>1, <3>2
  <2> QED
    BY <2>2, <2>3
<1>8. CASE SaveDone
  <2>1. /\ saveStep = "writing" /\ saving # <<>> /\ snapshot' = capture /\ OwnerObserves
        /\ UNCHANGED <<written, acked>>
    BY <1>0, <1>8 DEF SaveInv, SaveDone, OwnerObserves
  <2>2. snapshot' # NoSnapshot
    BY <1>0, <2>1, SnapshotAssumption DEF TypeOK
  <2>3. snapshot # NoSnapshot => snapshot.durable \subseteq snapshot'.durable
    BY <1>0, <2>1 DEF DataInv, Covers
  <2>4. acked' # {} => acked' \subseteq snapshot'.durable
    BY <1>0, <2>1, <2>3 DEF AckInv
  <2>5. \A q \in Publishers : pc[q] \notin {"save", "failing"} /\ written[q] # {} =>
          written[q] \subseteq snapshot'.durable
    BY <1>0, <2>3 DEF AckInv
  <2>6. CASE Head(saving) = Timer
    <3>1. pc' = pc
      BY <2>1, <2>6 DEF OwnerObserves
    <3> QED
      BY <2>1, <2>2, <2>4, <2>5, <3>1 DEF AckInv
  <2>7. CASE Head(saving) # Timer
    <3>1. PICK p \in Publishers : p = Head(saving)
      BY <1>0, <2>1, <2>7, OwnerAtHead
    <3>2. pc' = [pc EXCEPT ![p] = "observe"]
      BY <2>1, <2>7, <3>1 DEF OwnerObserves
    <3>3. written[p] \subseteq snapshot'.durable
      BY <1>0, <2>1, <2>7, <3>1 DEF SaveInv
    <3>4. \A q \in Publishers : q # p => pc'[q] = pc[q]
      BY <1>a, <3>2
    <3>5. \A q \in Publishers : pc'[q] \notin {"save", "failing"} /\ written'[q] # {} =>
            snapshot' # NoSnapshot /\ written'[q] \subseteq snapshot'.durable
      BY <2>1, <2>2, <2>5, <3>3, <3>4
    <3> QED
      BY <2>2, <2>4, <3>5 DEF AckInv
  <2> QED
    BY <2>6, <2>7
<1>14. CASE SaveFails
  <2>1. /\ saveStep = "writing" /\ snapshot' \in {snapshot, capture}
        /\ UNCHANGED <<pc, written, acked>>
    BY <1>14 DEF SaveFails
  <2>2. CASE snapshot' = snapshot
    BY <1>c, <2>1, <2>2
  <2>3. CASE snapshot' = capture
    <3>1. snapshot' # NoSnapshot /\ snapshot.durable \subseteq snapshot'.durable
      BY <1>0, <2>1, <2>3, SnapshotAssumption DEF TypeOK, DataInv, Covers
    <3> QED
      BY <1>0, <2>1, <3>1 DEF AckInv
  <2> QED
    BY <2>1, <2>2, <2>3
<1>15. ASSUME NEW i \in 1..Len(late), LateAppend(i) PROVE AckInv'
  BY <1>c, <1>15 DEF LateAppend
<1>9. CASE FinalSave
  <2>1. /\ snapshot' = snapshot \/ snapshot' = committed
        /\ UNCHANGED <<pc, written, acked>> /\ Loaded
    BY <1>9 DEF FinalSave, Loaded, Live, ClosePhases
  <2>2. CASE snapshot' = snapshot
    BY <1>c, <2>1, <2>2
  <2>3. CASE snapshot' = committed
    <3>1. snapshot' # NoSnapshot /\ snapshot.durable \subseteq snapshot'.durable
      BY <1>0, <2>1, <2>3, SnapshotAssumption DEF TypeOK, DataInv, Covers
    <3> QED
      BY <1>0, <2>1, <3>1 DEF AckInv
  <2> QED
    BY <2>1, <2>2, <2>3
<1>10. CASE Crash
  <2>1. /\ \A p \in Publishers : written'[p] = {}
        /\ acked' = acked
        /\ \/ snapshot' = snapshot
           \/ saveStep = "writing" /\ snapshot' = capture
           \/ phase \in {"starting", "final"} /\ snapshot' = committed
    BY <1>10 DEF Crash, Forget
  <2>2. ASSUME acked # {} PROVE snapshot' # NoSnapshot /\ acked \subseteq snapshot'.durable
    <3>1. snapshot # NoSnapshot /\ acked \subseteq snapshot.durable
      BY <1>0, <2>2 DEF AckInv
    <3>2. CASE saveStep = "writing" /\ snapshot' = capture
      BY <1>0, <3>1, <3>2, SnapshotAssumption DEF DataInv, Covers, TypeOK
    <3>3. CASE phase = "final" /\ snapshot' = committed
      <4>1. Loaded
        BY <3>3 DEF Loaded, Live, ClosePhases
      <4> QED
        BY <1>0, <3>1, <3>3, <4>1, SnapshotAssumption DEF DataInv, Covers, TypeOK
    <3>4. phase # "starting"
      BY <1>0, <3>1 DEF DoubtInv
    <3> QED
      BY <2>1, <3>1, <3>2, <3>3, <3>4
  <2> QED
    BY <2>1, <2>2 DEF AckInv
<1>11. CASE LoadRefused \/ Load
  <2>1. UNCHANGED <<snapshot, acked>> /\ \A p \in Publishers : written'[p] = {}
    BY <1>11 DEF LoadRefused, Load, Forget
  <2> QED
    BY <1>0, <2>1, AckStay
<1>12. CASE FirstSave
  <2>1. phase = "starting" /\ UNCHANGED <<pc, written, acked>>
    BY <1>12 DEF FirstSave
  <2>2. ~Loaded /\ snapshot = NoSnapshot
    BY <1>0, <2>1 DEF Loaded, Live, ClosePhases, DoubtInv
  <2>3. acked = {} /\ \A p \in Publishers : written[p] = {}
    BY <1>0, <2>2 DEF AckInv, DoubtInv
  <2> QED
    BY <2>1, <2>3 DEF AckInv
<1>13. CASE SaveBegins \/ TimerFires \/ QuarantineSettles \/ BeginClose
            \/ OperationsEnd \/ StopClock \/ EmissionsEnd \/ Disconnect \/ SavesEnd
            \/ UNCHANGED vars
  <2>1. UNCHANGED <<snapshot, acked, pc, written>>
    BY <1>13 DEF SaveBegins, TimerFires, QuarantineSettles, BeginClose, OperationsEnd,
                 StopClock, EmissionsEnd, Disconnect, SavesEnd, vars
  <2> QED
    BY <1>c, <2>1
<1> QED
  BY <1>1, <1>2, <1>3, <1>4, <1>5, <1>6, <1>7, <1>8, <1>9, <1>10, <1>11, <1>12, <1>13,
     <1>14, <1>15
     DEF Next, Publish, Save, Close

-----------------------------------------------------------------------------
(* close. *)

\* While a publisher is at work close has not gone past the steps that wait for it.
LEMMA CloseBusy ==
  ASSUME CloseInv, NEW p \in Publishers, pc[p] # "idle", phase' = phase,
         failure' = "none" => failure = "none",
         \A q \in Publishers : pc[q] = "idle" => pc'[q] = "idle"
  PROVE  CloseInv'
<1>1. failure = "none" => phase \notin {"connection", "saves", "final", "closed"}
  BY PublisherFacts DEF CloseInv
<1>2. phase # "final"
  BY <1>1 DEF CloseInv
<1> QED
  BY <1>1, <1>2, PublisherFacts DEF CloseInv

\* While a save is queued close has not gone past the step that waits for it.
LEMMA CloseSaving ==
  ASSUME CloseInv, saving # <<>>, phase' = phase,
         failure' = "none" => failure = "none" /\ timer' = timer,
         \A q \in Publishers : pc[q] = "idle" => pc'[q] = "idle"
  PROVE  CloseInv'
<1>1. failure = "none" => phase \notin {"final", "closed"}
  BY DEF CloseInv
<1>2. phase # "final"
  BY <1>1 DEF CloseInv
<1> QED
  BY <1>1, <1>2, PublisherFacts DEF CloseInv

\* Every step keeps what a close has waited for out of flight.
LEMMA CloseKept == IInv /\ [Next]_vars => CloseInv'
<1> SUFFICES ASSUME IInv, [Next]_vars PROVE CloseInv'
  OBVIOUS
<1> USE PublisherFacts DEF disk, queue, saves, stop, past
<1>0. TypeOK /\ QueueInv /\ SaveInv /\ DoubtInv /\ CloseInv
  BY DEF IInv
<1>a. pc \in [Publishers -> {"idle", "prepared", "queued", "dispatched", "append", "save",
                             "observe", "failing"}]
  BY <1>0 DEF TypeOK
<1>1. ASSUME NEW c \in Commands, Admit(c) PROVE CloseInv'
  BY <1>1 DEF Admit, CloseInv
<1>2. ASSUME NEW c \in Commands, Enqueue(c) \/ Dispatched(c) \/ DispatchThrows(c)
      PROVE  CloseInv'
  <2>1. pc[c] # "idle" /\ UNCHANGED <<phase, failure>>
    BY <1>2 DEF Enqueue, Dispatched, DispatchThrows
  <2>2. \E x : pc' = [pc EXCEPT ![c] = x]
    BY <1>2 DEF Enqueue, Dispatched, DispatchThrows
  <2> QED
    BY <1>0, <1>a, <2>1, <2>2, CloseBusy
<1>3. ASSUME NEW e \in Emitters, Emit(e) PROVE CloseInv'
  <2>1. /\ phase \notin {"connection", "saves", "final", "closed"} /\ phase' = phase
        /\ pc' = [pc EXCEPT ![e] = "queued"]
    BY <1>3 DEF Emit
  <2>2. \A c \in Commands : pc'[c] = pc[c]
    BY <1>a, <2>1, PublisherAssumption
  <2> QED
    BY <1>0, <2>1, <2>2 DEF CloseInv
<1>4. ASSUME NEW p \in Publishers,
             Begin(p) \/ ObserveAgain(p) \/ BeginFails(p) \/ CommitFails(p) \/ ObserveFails(p)
             \/ Commit(p)
      PROVE  CloseInv'
  <2>1. /\ pc[p] # "idle" /\ phase' = phase
        /\ UNCHANGED failure \/ \E kind \in {"uncertain", "observer"} : FailCommit(kind)
    BY <1>4 DEF Begin, ObserveAgain, BeginFails, CommitFails, ObserveFails, Commit
  <2>2. \E x : pc' = [pc EXCEPT ![p] = x]
    BY <1>4 DEF Begin, ObserveAgain, BeginFails, CommitFails, ObserveFails, Commit
  <2>3. failure' = "none" => failure = "none"
    BY <1>0, <2>1, FailCommitStops
  <2> QED
    BY <1>0, <1>a, <2>1, <2>2, <2>3, CloseBusy
<1>5. ASSUME NEW p \in Publishers, BeginRefused(p) \/ Observe(p) \/ Throw(p) PROVE CloseInv'
  <2>1. pc[p] # "idle" /\ UNCHANGED <<phase, failure>>
    BY <1>5 DEF BeginRefused, Observe, Throw
  <2>2. \E x : pc' = [pc EXCEPT ![p] = x]
    BY <1>5 DEF BeginRefused, Observe, Throw, Succeed, Reject, Dismiss,
           Withdraw
  <2> QED
    BY <1>0, <1>a, <2>1, <2>2, CloseBusy
<1>6. CASE Save
  <2>1. saving # <<>> /\ phase' = phase
    BY <1>0, <1>6 DEF SaveInv, Save, SaveBegins, SaveRefused, SaveDone, SaveFails, SaveThrows
  <2>2. UNCHANGED <<timer, failure>> \/ FailCommit("uncertain")
    BY <1>6 DEF Save, SaveBegins, SaveRefused, SaveDone, SaveFails, SaveThrows
  <2>3. failure' = "none" => failure = "none" /\ timer' = timer
    BY <1>0, <2>2, FailCommitStops
  <2>4. pc' = pc \/ OwnerObserves \/ OwnerRejected
    BY <1>6 DEF Save, SaveBegins, SaveRefused, SaveDone, SaveFails, SaveThrows
  <2>5. CASE pc' = pc
    BY <1>0, <2>1, <2>3, <2>5, CloseSaving
  <2>6. CASE pc' # pc
    <3>1. Head(saving) # Timer
      BY <2>4, <2>6 DEF OwnerObserves, OwnerRejected
    <3>2. pc[Head(saving)] = "save"
      BY <1>0, <2>1, <3>1, OwnerAtHead
    <3>3. \E x : pc' = [pc EXCEPT ![Head(saving)] = x]
      BY <2>4, <2>6, <3>1 DEF OwnerObserves, OwnerRejected, Reject, Withdraw
    <3>4. \A q \in Publishers : pc[q] = "idle" => pc'[q] = "idle"
      BY <1>a, <3>2, <3>3
    <3> QED
      BY <1>0, <2>1, <2>3, <3>4, CloseSaving
  <2> QED
    BY <2>5, <2>6
<1>7. CASE TimerFires
  <2>1. timer /\ UNCHANGED <<phase, failure, pc>>
    BY <1>7 DEF TimerFires
  <2>2. failure = "none" => phase \notin {"saves", "final", "closed"}
    BY <1>0, <2>1 DEF CloseInv
  <2>3. phase # "final"
    BY <1>0, <2>2 DEF CloseInv
  <2> QED
    BY <1>0, <2>1, <2>2, <2>3 DEF CloseInv
<1>8. CASE QuarantineSettles
  <2>1. quarantine = "writing" /\ UNCHANGED <<phase, failure, pc>>
    BY <1>8 DEF QuarantineSettles
  <2>2. failure # "none"
    BY <1>0, <2>1, WorkIsLoaded DEF DoubtInv
  <2> QED
    BY <1>0, <2>1, <2>2 DEF CloseInv
<1>9. CASE BeginClose \/ OperationsEnd
  BY <1>0, <1>9 DEF BeginClose, OperationsEnd, CloseInv
<1>10. CASE StopClock
  <2>1. phase = "clock" /\ pc' = pc
    BY <1>10 DEF StopClock
  <2>2. CASE phase' = "emissions"
    BY <1>0, <2>1, <2>2 DEF CloseInv
  <2>3. CASE phase' = "connection" /\ FailCommit("uncertain")
    <3>1. failure' # "none"
      BY <1>0, <2>3, FailCommitStops
    <3> QED
      BY <1>0, <2>1, <2>3, <3>1 DEF CloseInv
  <2> QED
    BY <1>10, <2>2, <2>3 DEF StopClock
<1>11. CASE EmissionsEnd
  <2>1. /\ phase = "emissions" /\ phase' = "connection" /\ pc' = pc
        /\ \A e \in Emitters : pc[e] = "idle"
    BY <1>11 DEF EmissionsEnd
  <2> QED
    BY <1>0, <2>1 DEF CloseInv
<1>12. CASE Disconnect
  <2>1. /\ phase = "connection" /\ phase' = "saves" /\ pc' = pc /\ timer' = FALSE
        /\ failure' = "none" => failure = "none"
    BY <1>12 DEF Disconnect
  <2>2. failure' = "none" => \A e \in Emitters : pc'[e] = "idle"
    BY <1>0, <2>1 DEF CloseInv
  <2>3. \A c \in Commands : pc'[c] = "idle"
    BY <1>0, <2>1 DEF CloseInv
  <2>4. ~timer'
    BY <2>1
  <2> QED
    BY <2>1, <2>2, <2>3, <2>4 DEF CloseInv
<1>13. CASE SavesEnd
  <2>1. /\ phase = "saves" /\ saving = <<>> /\ UNCHANGED <<pc, failure, saving, timer>>
        /\ \/ failure = "none" /\ phase' = "final"
           \/ failure # "none" /\ phase' = "closed"
    BY <1>13 DEF SavesEnd
  <2> QED
    BY <1>0, <2>1 DEF CloseInv
<1>14. CASE FinalSave
  <2>1. phase = "final" /\ UNCHANGED <<pc, committed, saving>>
    BY <1>14 DEF FinalSave
  <2>2. CASE snapshot' = committed /\ phase' = "closed" /\ UNCHANGED <<timer, stop>>
    BY <1>0, <2>1, <2>2 DEF CloseInv
  <2>3. CASE phase' = "saves" /\ FailCommit("uncertain")
    <3>1. failure' # "none"
      BY <1>0, <2>3, FailCommitStops
    <3> QED
      BY <1>0, <2>1, <2>3, <3>1 DEF CloseInv
  <2> QED
    BY <1>14, <2>2, <2>3 DEF FinalSave
<1>15. CASE Crash \/ LoadRefused \/ Load \/ FirstSave
  <2>1. phase' \in {"stopped", "refused", "starting", "open"}
    BY <1>15 DEF Crash, LoadRefused, Load, FirstSave
  <2> QED
    BY <2>1 DEF CloseInv
<1>17. ASSUME NEW i \in 1..Len(late), LateAppend(i) PROVE CloseInv'
  <2>1. UNCHANGED <<phase, failure, timer, saving, snapshot, committed, pc>>
    BY <1>17 DEF LateAppend
  <2> QED
    BY <1>0, <2>1 DEF CloseInv
<1>16. CASE UNCHANGED vars
  BY <1>0, <1>16 DEF vars, CloseInv
<1> QED
  BY <1>1, <1>2, <1>3, <1>4, <1>5, <1>6, <1>7, <1>8, <1>9, <1>10, <1>11, <1>12, <1>13, <1>14,
     <1>15, <1>16, <1>17 DEF Next, Publish, Close

-----------------------------------------------------------------------------
(* What closed runtimes have left in flight. *)

\* What is in flight stays, and so does what a loaded runtime has of it.
LEMMA LateStay ==
  ASSUME LateInv, UNCHANGED <<late, overtaken, marker, unproven>>,
         snapshot # NoSnapshot => snapshot' # NoSnapshot,
         snapshot = NoSnapshot \/ Loaded \/ (UNCHANGED <<journal, snapshot>> /\ ~Loaded'),
         quarantine' = "settled" => quarantine = "settled",
         phase' = "closed" /\ failure' # "none" => quarantine' = "settled"
  PROVE  LateInv'
<1>1. /\ \A i \in 1..Len(late) : \A s \in late[i] : s > 0
      /\ late # <<>> => snapshot' # NoSnapshot /\ (marker \/ unproven)
      /\ overtaken => unproven
      /\ quarantine' = "settled" => marker \/ unproven
  BY DEF LateInv
<1>2. ASSUME ~overtaken, late # <<>> PROVE UNCHANGED <<journal, snapshot>> /\ ~Loaded'
  BY <1>2 DEF LateInv
<1>3. ASSUME ~overtaken, NEW i \in 1..Len(late), NEW s \in late[i]
      PROVE  snapshot'.seq < s /\ \A t \in journal' : t < s
  <2>1. snapshot.seq < s /\ (\A t \in journal : t < s) /\ late # <<>>
    BY <1>3 DEF LateInv
  <2> QED
    BY <1>2, <1>3, <2>1
<1>4. ~overtaken => Len(late) <= 1
  BY DEF LateInv
<1> QED
  BY <1>1, <1>2, <1>3, <1>4 DEF LateInv

\* What a closed runtime that has an append in flight adds to what is left.
LEMMA AppendLeftFacts ==
  ASSUME IInv, phase \in {"stopped", "closed", "refused"}, AppendLeft # <<>>
  PROVE  /\ Loaded /\ Len(AppendLeft) = 1
         /\ snapshot # NoSnapshot /\ (marker \/ unproven)
         /\ \A s \in AppendLeft[1] : s > 0
         /\ ~overtaken => \A s \in AppendLeft[1] : snapshot.seq < s /\ \A t \in journal : t < s
<1> DEFINE p == Head(publishing)
<1>0. TypeOK /\ QueueInv /\ SaveInv /\ DataInv /\ DoubtInv /\ CloseInv /\ LateInv
  BY DEF IInv
<1>1. p \in Publishers /\ pc[p] = "append" /\ AppendLeft = <<batch[p].durable>>
  BY <1>0 DEF AppendLeft, TypeOK
<1>2. Loaded
  BY <1>0, <1>1, WorkIsLoaded
<1>3. phase = "closed"
  BY <1>2 DEF Loaded, Live, ClosePhases
<1>4. failure # "none"
  BY <1>0, <1>1, <1>3, PublisherFacts DEF CloseInv
<1>5. marker \/ unproven
  BY <1>0, <1>3, <1>4 DEF LateInv
<1>6. /\ committed.seq \in Nat /\ snapshot # NoSnapshot /\ snapshot.seq \in Nat
      /\ snapshot.seq <= committed.seq
      /\ batch[p].durable \subseteq Nat /\ journal \subseteq Nat
  BY <1>0, <1>1, <1>2 DEF TypeOK, States, Batches, DataInv, Covers
<1>7. \A s \in batch[p].durable : committed.seq < s
  BY <1>0, <1>1 DEF DataInv
<1>8. \A s \in batch[p].durable : s > 0 /\ snapshot.seq < s
  BY <1>6, <1>7
<1>9. ~overtaken => \A s \in batch[p].durable, t \in journal : t < s
  BY <1>0, <1>1, AppendIncreases DEF Increasing
<1> QED
  BY <1>1, <1>2, <1>5, <1>6, <1>8, <1>9

\* A sequence with one more element at its end.
LEMMA LengthenedFacts ==
  ASSUME NEW S, NEW A \in Seq(S), NEW B \in Seq(S), Len(B) = 1
  PROVE  /\ Len(A) \in Nat /\ Len(A \o B) = Len(A) + 1
         /\ \A i \in 1..Len(A) : (A \o B)[i] = A[i]
         /\ (A \o B)[Len(A) + 1] = B[1]
<1>1. /\ Len(A \o B) = Len(A) + Len(B)
      /\ \A i \in 1..Len(A) + Len(B) : (A \o B)[i] =
           IF i <= Len(A) THEN A[i] ELSE B[i - Len(A)]
  BY SeqFacts!ConcatProperties
<1>2. Len(A) \in Nat
  OBVIOUS
<1> QED
  BY <1>1, <1>2

\* What a load finds in flight.
LEMMA LeftBehindFacts ==
  ASSUME IInv, phase \in {"stopped", "closed", "refused"}, LeaveBehind
  PROVE  /\ \A i \in 1..Len(late') : \A s \in late'[i] : s > 0
         /\ late' # <<>> => snapshot # NoSnapshot /\ (marker \/ unproven)
         /\ ~overtaken =>
              /\ Len(late') <= 1
              /\ \A i \in 1..Len(late') : \A s \in late'[i] :
                   snapshot.seq < s /\ \A t \in journal : t < s
<1>0. late \in Seq(SUBSET Nat) /\ LateInv /\ late' = late \o AppendLeft
  BY DEF IInv, TypeOK, LeaveBehind
<1>1. CASE AppendLeft = <<>>
  <2>1. late' = late
    BY <1>0, <1>1
  <2> QED
    BY <1>0, <2>1 DEF LateInv
<1>2. CASE AppendLeft # <<>>
  <2>1. /\ Loaded /\ Len(AppendLeft) = 1
        /\ snapshot # NoSnapshot /\ (marker \/ unproven)
        /\ \A s \in AppendLeft[1] : s > 0
        /\ ~overtaken => \A s \in AppendLeft[1] : snapshot.seq < s /\ \A t \in journal : t < s
    BY <1>2, AppendLeftFacts
  <2>2. AppendLeft \in Seq(SUBSET Nat)
    BY LeftTypes DEF IInv
  <2>3. /\ Len(late') = Len(late) + 1 /\ Len(late) \in Nat
        /\ \A i \in 1..Len(late) : late'[i] = late[i]
        /\ late'[Len(late) + 1] = AppendLeft[1]
    BY <1>0, <2>1, <2>2, LengthenedFacts
  <2>4. \A i \in 1..Len(late') : i \in 1..Len(late) \/ i = Len(late) + 1
    BY <2>3
  <2>5. \A i \in 1..Len(late') : \A s \in late'[i] : s > 0
    BY <1>0, <2>1, <2>3, <2>4 DEF LateInv
  <2>6. ASSUME ~overtaken
        PROVE  /\ Len(late') <= 1
               /\ \A i \in 1..Len(late') : \A s \in late'[i] :
                    snapshot.seq < s /\ \A t \in journal : t < s
    <3>1. Len(late) = 0
      BY <1>0, <2>1, <2>6 DEF LateInv
    <3>2. \A i \in 1..Len(late') : late'[i] = AppendLeft[1]
      BY <2>3, <2>4, <3>1
    <3> QED
      BY <2>1, <2>3, <2>6, <3>1, <3>2
  <2> QED
    BY <2>1, <2>5, <2>6
<1> QED
  BY <1>1, <1>2

\* An append that has landed is in flight no longer; the others are.
LEMMA LandedFacts ==
  ASSUME TypeOK, NEW i \in 1..Len(late),
         late' = SubSeq(late, 1, i - 1) \o SubSeq(late, i + 1, Len(late))
  PROVE  /\ Len(late') = Len(late) - 1
         /\ \A j \in 1..Len(late') : \E k \in 1..Len(late) : late'[j] = late[k]
<1> DEFINE n == Len(late)
           L == SubSeq(late, 1, i - 1)
           R == SubSeq(late, i + 1, n)
<1>1. late \in Seq(SUBSET Nat) /\ n \in Nat /\ i \in Nat /\ 1 <= i /\ i <= n
  BY DEF TypeOK
<1>2. /\ L \in Seq(SUBSET Nat) /\ Len(L) = i - 1
      /\ \A k \in 1..i - 1 : L[k] = late[k]
  BY <1>1
<1>3. /\ R \in Seq(SUBSET Nat) /\ Len(R) = n - i
      /\ \A k \in 1..n - i : R[k] = late[i + k]
  BY <1>1
<1>4. /\ Len(late') = n - 1
      /\ \A j \in 1..n - 1 : late'[j] = IF j <= i - 1 THEN L[j] ELSE R[j - (i - 1)]
  <2>1. late' = L \o R
    OBVIOUS
  <2> HIDE DEF L, R, n
  <2>2. Len(L \o R) = Len(L) + Len(R)
    BY <1>2, <1>3, SeqFacts!ConcatProperties
  <2>3. n - 1 = Len(L) + Len(R)
    BY <1>1, <1>2, <1>3
  <2>4. \A j \in 1..Len(L) + Len(R) : (L \o R)[j] = IF j <= Len(L) THEN L[j] ELSE R[j - Len(L)]
    BY <1>2, <1>3
  <2> QED
    BY <1>2, <2>1, <2>2, <2>3, <2>4
<1>5. ASSUME NEW j \in 1..n - 1 PROVE \E k \in 1..n : late'[j] = late[k]
  <2>1. CASE j <= i - 1
    <3>1. late'[j] = late[j] /\ j \in 1..n
      BY <1>1, <1>2, <1>4, <2>1
    <3> QED
      BY <3>1
  <2>2. CASE ~(j <= i - 1)
    <3>1. j - (i - 1) \in 1..n - i /\ i + (j - (i - 1)) = j + 1 /\ j + 1 \in 1..n
      BY <1>1, <2>2
    <3>2. late'[j] = late[j + 1]
      BY <1>3, <1>4, <2>2, <3>1
    <3> QED
      BY <3>1, <3>2
  <2> QED
    BY <2>1, <2>2
<1> QED
  BY <1>4, <1>5

\* Every step keeps what is in flight behind a marker or a quarantine that failed.
LEMMA LateKept == IInv /\ [Next]_vars => LateInv'
<1> SUFFICES ASSUME IInv, [Next]_vars PROVE LateInv'
  OBVIOUS
<1> USE PublisherFacts DEF disk, queue, saves, stop, past
<1>0. TypeOK /\ QueueInv /\ SaveInv /\ DataInv /\ DoubtInv /\ CloseInv /\ LateInv
  BY DEF IInv
<1>a. ASSUME UNCHANGED <<disk, phase, stop, late, overtaken, unproven>> PROVE LateInv'
  <2>1. Loaded' <=> Loaded
    BY <1>a DEF Loaded, Live
  <2> QED
    BY <1>0, <1>a, <2>1 DEF LateInv
<1>b. ASSUME Loaded, snapshot' # NoSnapshot, UNCHANGED <<late, overtaken, marker, unproven>>,
             quarantine' = "settled" => quarantine = "settled",
             phase' = "closed" /\ failure' # "none" => quarantine' = "settled"
      PROVE  LateInv'
  BY <1>0, <1>b, LateStay
<1>c. ASSUME NEW kind \in {"uncertain", "observer"}, FailCommit(kind), phase' = phase,
             failure = "none" => phase # "closed"
      PROVE  /\ quarantine' = "settled" => quarantine = "settled"
             /\ phase' = "closed" /\ failure' # "none" => quarantine' = "settled"
  BY <1>0, <1>c DEF FailCommit, LateInv
<1>1. ASSUME NEW c \in Commands, Admit(c) \/ Enqueue(c) \/ Dispatched(c) \/ DispatchThrows(c)
      PROVE  LateInv'
  BY <1>a, <1>1 DEF Admit, Enqueue, Dispatched, DispatchThrows
<1>2. ASSUME NEW e \in Emitters, Emit(e) PROVE LateInv'
  BY <1>a, <1>2 DEF Emit
<1>3. ASSUME NEW p \in Publishers,
             BeginRefused(p) \/ Begin(p) \/ Observe(p) \/ ObserveAgain(p) \/ Throw(p)
      PROVE  LateInv'
  BY <1>a, <1>3 DEF BeginRefused, Begin, Observe, ObserveAgain, Throw
<1>4. ASSUME NEW p \in Publishers, BeginFails(p) \/ CommitFails(p) \/ ObserveFails(p)
      PROVE  LateInv'
  <2>1. /\ pc[p] # "idle" /\ UNCHANGED <<phase, snapshot, marker, late, overtaken, unproven>>
        /\ \E kind \in {"uncertain", "observer"} : FailCommit(kind)
    BY <1>4 DEF BeginFails, CommitFails, ObserveFails
  <2>2. Loaded /\ snapshot # NoSnapshot
    BY <1>0, <2>1, WorkIsLoaded DEF DataInv
  <2>3. failure = "none" => phase # "closed"
    BY <1>0, <2>1 DEF CloseInv
  <2> QED
    BY <1>b, <1>c, <2>1, <2>2, <2>3
<1>5. ASSUME NEW p \in Publishers, Commit(p) PROVE LateInv'
  <2>1. /\ pc[p] # "idle"
        /\ UNCHANGED <<phase, snapshot, marker, stop, late, overtaken, unproven>>
    BY <1>5 DEF Commit
  <2>2. Loaded /\ snapshot # NoSnapshot
    BY <1>0, <2>1, WorkIsLoaded DEF DataInv
  <2>3. phase' = "closed" /\ failure' # "none" => quarantine' = "settled"
    BY <1>0, <2>1 DEF LateInv
  <2> QED
    BY <1>b, <2>1, <2>2, <2>3
<1>6. CASE SaveBegins \/ SaveRefused \/ SaveThrows \/ TimerFires
  BY <1>a, <1>6 DEF SaveBegins, SaveRefused, SaveThrows, TimerFires
<1>7. CASE SaveDone
  <2>1. /\ saveStep = "writing" /\ snapshot' = capture
        /\ UNCHANGED <<phase, marker, stop, late, overtaken, unproven>>
    BY <1>7 DEF SaveDone
  <2>2. Loaded /\ snapshot' # NoSnapshot
    BY <1>0, <2>1, WorkIsLoaded, SnapshotAssumption DEF TypeOK
  <2>3. phase' = "closed" /\ failure' # "none" => quarantine' = "settled"
    BY <1>0, <2>1 DEF LateInv
  <2> QED
    BY <1>b, <2>1, <2>2, <2>3
<1>8. CASE SaveFails
  <2>1. /\ saveStep = "writing" /\ snapshot' \in {snapshot, capture} /\ FailCommit("uncertain")
        /\ UNCHANGED <<phase, marker, late, overtaken, unproven>>
    BY <1>8 DEF SaveFails
  <2>2. Loaded /\ snapshot' # NoSnapshot
    BY <1>0, <2>1, WorkIsLoaded, SnapshotAssumption DEF TypeOK, DataInv
  <2>3. failure = "none" => phase # "closed"
    BY <1>0, <2>1 DEF CloseInv, SaveInv
  <2> QED
    BY <1>b, <1>c, <2>1, <2>2, <2>3
<1>9. CASE QuarantineSettles
  <2>1. /\ UNCHANGED <<journal, snapshot, phase, failure, late, overtaken>>
        /\ quarantine' = "settled"
    BY <1>9 DEF QuarantineSettles
  <2>3. (marker' \/ unproven') /\ (marker => marker') /\ (unproven => unproven')
    <3>1. CASE marker' = TRUE /\ UNCHANGED unproven
      BY <3>1, Zenon
    <3>2. CASE marker' \in {marker, TRUE} /\ unproven' = TRUE
      <4>1. unproven'
        BY <3>2, Zenon
      <4>2. CASE marker' = marker
        BY <4>1, <4>2
      <4>3. CASE marker' = TRUE
        BY <4>1, <4>3, Zenon
      <4> QED
        BY <3>2, <4>2, <4>3
    <3> QED
      BY <1>9, <3>1, <3>2 DEF QuarantineSettles
  <2>2. Loaded' <=> Loaded
    BY <2>1 DEF Loaded, Live
  <2> QED
    BY <1>0, <2>1, <2>2, <2>3 DEF LateInv
<1>10. CASE BeginClose \/ OperationsEnd \/ StopClock \/ EmissionsEnd \/ Disconnect
  <2>1. /\ UNCHANGED <<disk, late, overtaken, unproven>> /\ Loaded /\ phase' # "closed"
        /\ \/ UNCHANGED stop
           \/ FailCommit("uncertain")
           \/ quarantine' = "writing"
    BY <1>10 DEF BeginClose, OperationsEnd, StopClock, EmissionsEnd, Disconnect,
                 ClosePhases, Loaded, Live
  <2>2. quarantine' = "settled" => quarantine = "settled"
    BY <2>1 DEF FailCommit
  <2>3. snapshot # NoSnapshot
    BY <1>0, <2>1 DEF DataInv
  <2> QED
    BY <1>b, <2>1, <2>2, <2>3
<1>11. CASE SavesEnd
  <2>1. /\ UNCHANGED <<disk, stop, late, overtaken, unproven>> /\ phase = "saves"
        /\ quarantine # "writing"
    BY <1>11 DEF SavesEnd
  <2>2. Loaded /\ snapshot # NoSnapshot
    BY <1>0, <2>1 DEF Loaded, Live, ClosePhases, DataInv
  <2>3. phase' = "closed" /\ failure' # "none" => quarantine' = "settled"
    BY <1>0, <2>1 DEF DoubtInv, TypeOK
  <2> QED
    BY <1>b, <2>1, <2>2, <2>3
<1>12. CASE FinalSave
  <2>1. /\ UNCHANGED <<marker, late, overtaken, unproven>> /\ phase = "final"
        /\ snapshot' \in {snapshot, committed}
        /\ \/ phase' = "closed" /\ UNCHANGED stop
           \/ phase' = "saves" /\ FailCommit("uncertain")
    BY <1>12 DEF FinalSave
  <2>2. Loaded /\ snapshot' # NoSnapshot
    BY <1>0, <2>1, SnapshotAssumption DEF Loaded, Live, ClosePhases, DataInv, TypeOK
  <2>3. failure = "none"
    BY <1>0, <2>1 DEF CloseInv
  <2>4. quarantine' = "settled" => quarantine = "settled"
    BY <2>1 DEF FailCommit
  <2> QED
    BY <1>b, <2>1, <2>2, <2>3, <2>4
<1>13. CASE Crash
  <2>1. /\ late' = <<>> /\ quarantine' = "none" /\ failure' = "none"
        /\ UNCHANGED <<overtaken, unproven>>
    BY <1>13 DEF Crash, Forget
  <2>2. Len(late') = 0
    BY <2>1
  <2> QED
    BY <1>0, <2>1, <2>2 DEF LateInv
<1>14. CASE LoadRefused
  <2>1. /\ phase \in {"stopped", "closed", "refused"} /\ LeaveBehind
        /\ UNCHANGED <<disk, overtaken, unproven>>
        /\ phase' = "refused" /\ quarantine' = "none"
    BY <1>14 DEF LoadRefused, Forget
  <2>2. ~Loaded'
    BY <2>1 DEF Loaded, Live, ClosePhases
  <2> QED
    BY <1>0, <2>1, <2>2, LeftBehindFacts DEF LateInv
<1>15. CASE Load
  <2>1. /\ phase \in {"stopped", "closed", "refused"} /\ LeaveBehind /\ Overtake
        /\ UNCHANGED <<disk, unproven>> /\ ~marker
        /\ phase' # "closed" /\ quarantine' = "none"
    BY <1>15 DEF Load, Overtake, Recoverable, Forget
  <2>2. /\ \A i \in 1..Len(late') : \A s \in late'[i] : s > 0
        /\ late' # <<>> => snapshot # NoSnapshot /\ unproven
    BY <2>1, LeftBehindFacts
  <2>3. overtaken' => overtaken \/ late' # <<>>
    BY <2>1 DEF Overtake
  <2>4. ~overtaken' => late' = <<>>
    BY <2>1 DEF Overtake
  <2>5. overtaken' => unproven'
    BY <1>0, <2>1, <2>2, <2>3 DEF LateInv
  <2>6. ~overtaken' => Len(late') = 0
    BY <2>4
  <2> QED
    BY <2>1, <2>2, <2>4, <2>5, <2>6 DEF LateInv
<1>16. CASE FirstSave
  <2>1. /\ UNCHANGED <<marker, late, overtaken, unproven, stop>> /\ phase = "starting"
        /\ phase' # "closed"
    BY <1>16 DEF FirstSave
  <2>2. snapshot = NoSnapshot
    BY <1>0, <2>1 DEF DoubtInv
  <2> QED
    BY <1>0, <2>1, <2>2, LateStay
<1>17. ASSUME NEW i \in 1..Len(late), LateAppend(i) PROVE LateInv'
  <2>1. /\ UNCHANGED <<snapshot, marker, phase, stop, overtaken, unproven>>
        /\ late' = SubSeq(late, 1, i - 1) \o SubSeq(late, i + 1, Len(late))
    BY <1>17 DEF LateAppend
  <2>6. late \in Seq(SUBSET Nat)
    BY <1>0 DEF TypeOK
  <2>2. /\ Len(late') = Len(late) - 1 /\ late # <<>> /\ Len(late) \in Nat
        /\ \A j \in 1..Len(late') : \E k \in 1..Len(late) : late'[j] = late[k]
    <3>1. late # <<>> /\ Len(late) \in Nat
      BY <2>6
    <3>2. /\ Len(late') = Len(late) - 1
          /\ \A j \in 1..Len(late') : \E k \in 1..Len(late) : late'[j] = late[k]
      BY <1>0, <2>1, LandedFacts
    <3> QED
      BY <3>1, <3>2
  <2>3. \A j \in 1..Len(late') : \A s \in late'[j] : s > 0
    BY <1>0, <2>2 DEF LateInv
  <2>4. /\ snapshot' # NoSnapshot /\ (marker' \/ unproven') /\ (overtaken' => unproven')
        /\ quarantine' = "settled" => marker' \/ unproven'
        /\ phase' = "closed" /\ failure' # "none" => quarantine' = "settled"
    BY <1>0, <2>1, <2>2 DEF LateInv
  <2>5. ~overtaken' => Len(late') = 0 /\ ~Loaded'
    <3> SUFFICES ASSUME ~overtaken PROVE Len(late') = 0 /\ ~Loaded'
      BY <2>1
    <3>1. Len(late) <= 1 /\ ~Loaded /\ Len(late) # 0
      BY <1>0, <2>2, <2>6 DEF LateInv
    <3>2. Loaded' <=> Loaded
      BY <2>1 DEF Loaded, Live
    <3>3. Len(late) = 1
      BY <2>2, <3>1
    <3> QED
      BY <2>2, <3>1, <3>2, <3>3
  <2> QED
    BY <2>3, <2>4, <2>5 DEF LateInv
<1>18. CASE UNCHANGED vars
  BY <1>a, <1>18 DEF vars
<1> QED
  BY <1>1, <1>2, <1>3, <1>4, <1>5, <1>6, <1>7, <1>8, <1>9, <1>10, <1>11, <1>12, <1>13, <1>14,
     <1>15, <1>16, <1>17, <1>18 DEF Next, Publish, Save, Close

-----------------------------------------------------------------------------
(* The theorems. *)

\* The initial state satisfies the inductive invariant.
LEMMA InitInv == Init => IInv
<1> SUFFICES ASSUME Init PROVE IInv
  OBVIOUS
<1>1. TypeOK
  BY InitTypes
<1>2. ~Loaded /\ phase = "stopped"
  BY DEF Init, Loaded, Live, ClosePhases
<1>3. QueueInv /\ SaveInv
  BY DEF Init, QueueInv, SaveInv, Working
<1>4. DataInv
  BY <1>2 DEF Init, DataInv, Reflects, Empty
<1>5. DoubtInv
  <2>1. journal = {} /\ ~marker /\ ~damaged /\ ~timer
    BY DEF Init
  <2> QED
    BY <1>2, <2>1 DEF Init, DoubtInv
<1>6. AckInv /\ CloseInv
  BY DEF Init, AckInv, CloseInv
<1>7. LateInv
  BY DEF Init, LateInv
<1> QED
  BY <1>1, <1>3, <1>4, <1>5, <1>6, <1>7 DEF IInv

\* Every reachable state of the commit pipeline satisfies the inductive invariant.
THEOREM Invariance == Spec => []IInv
<1>1. IInv /\ [Next]_vars => IInv'
  BY TypesKept, QueueKept, SaveKept, DataKept, DoubtKept, AckKept, CloseKept, LateKept DEF IInv
<1> QED
  BY InitInv, <1>1, PTL DEF Spec

\* Every variable keeps the type the model gives it.
THEOREM TypesHold == Spec => []TypeOK
BY Invariance, PTL DEF IInv

\* No reader and no snapshot is ever ahead of the journal.
THEOREM JournalFirst == Spec => []NothingAheadOfJournal
<1>1. IInv => NothingAheadOfJournal
  BY DEF IInv, DataInv, Reflects, NothingAheadOfJournal
<1> QED
  BY <1>1, Invariance, PTL

\* A Run is loaded over an append in flight only once a quarantine has failed.
THEOREM OvertakenNeedsUnproven == Spec => []OvertakenOnlyUnproven
<1>1. IInv => OvertakenOnlyUnproven
  BY DEF IInv, LateInv, OvertakenOnlyUnproven
<1> QED
  BY <1>1, Invariance, PTL

\* A Run in use that has not failed reflects its whole journal, unless it or an
\* earlier life of it was loaded over an append in flight.
THEOREM JournalIsApplied == Spec => []JournalFullyApplied
<1>1. IInv => JournalFullyApplied
  BY DEF IInv, DoubtInv, Loaded, JournalFullyApplied
<1> QED
  BY <1>1, Invariance, PTL

\* What was answered with success is in the journal and in the snapshot.
THEOREM AnswersAreDurable == Spec => []AcknowledgedSurvives
<1>1. IInv => AcknowledgedSurvives
  BY DEF IInv, AckInv, DataInv, Reflects, AcknowledgedSurvives
<1> QED
  BY <1>1, Invariance, PTL

\* No append is refused by the check of the journal's order, unless the Run was
\* loaded over an append in flight.
THEOREM OrderIsNeverRefused == Spec => []NoSequenceRegression
<1>1. IInv => NoSequenceRegression
  <2> SUFFICES ASSUME IInv, ~overtaken, NEW p \in Publishers, pc[p] = "append",
                      batch[p].durable # {}
               PROVE  checked /\ Increasing(batch[p].durable)
    BY DEF NoSequenceRegression
  <2> QED
    BY AppendIncreases DEF IInv, DataInv
<1> QED
  BY <1>1, Invariance, PTL

\* A close that did not fail leaves everything on disk and nothing in flight.
THEOREM CleanClose == Spec => []CleanCloseIsComplete
<1>1. IInv => CleanCloseIsComplete
  <2> SUFFICES ASSUME IInv, phase = "closed", failure = "none"
               PROVE  /\ snapshot = committed
                      /\ publishing = <<>> /\ saving = <<>> /\ ~timer
                      /\ \A p \in Publishers : pc[p] = "idle"
                      /\ overtaken \/ Recoverable
    BY DEF CleanCloseIsComplete
  <2>1. /\ saving = <<>> /\ snapshot = committed /\ ~timer
        /\ \A p \in Publishers : pc[p] = "idle"
    BY PublisherFacts DEF IInv, CloseInv
  <2>2. publishing = <<>>
    <3>1. publishing \in Seq(Publishers)
      BY DEF IInv, TypeOK
    <3>2. \A i \in 1..Len(publishing) : publishing[i] \in Publishers
      BY <3>1
    <3>3. \A i \in 1..Len(publishing) : pc[publishing[i]] # "idle"
      BY DEF IInv, QueueInv, Working
    <3>4. 1 \notin 1..Len(publishing)
      BY <2>1, <3>2, <3>3
    <3> QED
      BY <3>1, <3>4
  <2>3. ASSUME ~overtaken PROVE Recoverable
    BY <2>1, <2>3 DEF IInv, DoubtInv, DataInv, Reflects, Loaded, Recoverable
  <2> QED
    BY <2>1, <2>2, <2>3
<1> QED
  BY <1>1, Invariance, PTL

\* The snapshot on disk is only ever replaced by a later one.
THEOREM SnapshotsAdvance == Spec => SnapshotOnlyAdvances
<1>1. IInv /\ [Next]_vars =>
        [snapshot # NoSnapshot => snapshot' # NoSnapshot /\ snapshot'.seq >= snapshot.seq
                                  /\ snapshot.durable \subseteq snapshot'.durable]_vars
  <2> SUFFICES ASSUME IInv, [Next]_vars, snapshot # NoSnapshot
               PROVE  snapshot' # NoSnapshot /\ snapshot'.seq >= snapshot.seq
                      /\ snapshot.durable \subseteq snapshot'.durable
    OBVIOUS
  <2> USE DEF disk
  <2>0. snapshot \in States /\ snapshot.seq \in Nat /\ snapshot.seq >= snapshot.seq
    BY DEF IInv, TypeOK, States
  <2>1. CASE snapshot' = snapshot
    BY <2>0, <2>1
  <2>2. CASE saveStep = "writing" /\ snapshot' = capture
    <3>1. Covers(capture, snapshot) /\ capture \in States /\ capture.seq \in Nat
      BY <2>2 DEF IInv, DataInv, TypeOK, States
    <3> QED
      BY <2>0, <2>2, <3>1, SnapshotAssumption DEF Covers
  <2>3. CASE phase = "final" /\ snapshot' = committed
    <3>1. Loaded
      BY <2>3 DEF Loaded, Live, ClosePhases
    <3>2. Covers(committed, snapshot) /\ committed \in States /\ committed.seq \in Nat
      BY <3>1 DEF IInv, DataInv, TypeOK, States
    <3> QED
      BY <2>0, <2>3, <3>2, SnapshotAssumption DEF Covers
  <2>4. phase # "starting"
    BY DEF IInv, DoubtInv
  <2>5. \/ snapshot' = snapshot
        \/ saveStep = "writing" /\ snapshot' = capture
        \/ phase \in {"starting", "final"} /\ snapshot' = committed
    BY DEF Next, Publish, Save, Close, Admit, Enqueue, Dispatched, DispatchThrows, Emit, BeginRefused, Begin,
           BeginFails, Commit, CommitFails, Observe, ObserveAgain, ObserveFails, Throw,
           SaveBegins, SaveRefused, SaveDone, SaveFails, SaveThrows, TimerFires,
           QuarantineSettles, BeginClose, OperationsEnd, StopClock, EmissionsEnd, Disconnect,
           SavesEnd, FinalSave, Crash, LoadRefused, Load, FirstSave, LateAppend, past, queue, vars
  <2> QED
    BY <2>1, <2>2, <2>3, <2>4, <2>5
<1> QED
  BY <1>1, Invariance, PTL DEF Spec, SnapshotOnlyAdvances

\* A batch or a part of one that reaches the journal comes after all of it.
LEMMA AppendGrows ==
  ASSUME TypeOK, DataInv, ~overtaken, NEW p \in Publishers, pc[p] = "append",
         NEW D \in SUBSET batch[p].durable, journal' = journal \union D
  PROVE  Log!Grow
BY AppendIncreases DEF Increasing, Log!Grow

\* A step that keeps what is answered and shown in the journal, once the order is lost.
LEMMA KeepsLog ==
  ASSUME overtaken, overtaken' = overtaken, journal \subseteq journal',
         Live' => committed'.durable \subseteq journal',
         \/ acked' = acked
         \/ Live /\ \E W \in SUBSET committed.durable : acked' = acked \union W
  PROVE  [Log!Next]_(Log!vars)
<1> DEFINE before == IF Live THEN committed.durable ELSE {}
           after == IF Live' THEN committed'.durable ELSE {}
<1>1. after \subseteq journal'
  OBVIOUS
<1>2. acked \subseteq acked' /\ acked' \subseteq acked \union before
  OBVIOUS
<1>3. Log!Keep
  BY <1>1, <1>2 DEF Log!Keep
<1> QED
  BY <1>3 DEF Log!Next

\* Until the order of the appends is lost a step of the pipeline is a step of the
\* log, or none.
LEMMA StepsOfLog ==
  ASSUME IInv, [Next]_vars, ~overtaken
  PROVE  [Log!Next]_(Log!vars)
<1> USE PublisherFacts DEF disk, queue, saves, stop, past
<1> DEFINE shown == IF Live THEN committed.durable ELSE {}
<1>0. TypeOK /\ QueueInv /\ SaveInv /\ DataInv /\ DoubtInv /\ CloseInv /\ LateInv
  BY DEF IInv
<1>a. ASSUME UNCHANGED <<journal, acked, committed, phase, overtaken>> PROVE UNCHANGED Log!vars
  BY <1>a DEF Log!vars, Live
<1>b. ASSUME UNCHANGED <<journal, acked, committed, overtaken>>, Live, Live'
      PROVE  UNCHANGED Log!vars
  BY <1>b DEF Log!vars
<1>c. ASSUME UNCHANGED <<journal, acked, overtaken>>, ~Live, ~Live'
      PROVE  UNCHANGED Log!vars
  <2>1. Live' = Live
    BY <1>c DEF Live
  <2> QED
    BY <1>c, <2>1 DEF Log!vars
<1>d. Log!Grow \/ journal' # journal
  <2>1. ASSUME journal' = journal PROVE Log!Grow
    BY <2>1 DEF Log!Grow
  <2> QED
    BY <2>1
<1>1. ASSUME NEW p \in Publishers, Commit(p) PROVE [Log!Next]_(Log!vars)
  <2>1. /\ pc[p] = "append" /\ journal' = journal \union batch[p].durable
        /\ committed'.durable = committed.durable \union batch[p].durable
        /\ UNCHANGED <<phase, acked, overtaken>>
    BY <1>1 DEF Commit, Writes
  <2>2. Log!Grow
    BY <1>0, <2>1, AppendGrows
  <2>3. CASE Live
    <3>1. committed.durable = journal
      BY <1>0, <2>1 DEF DataInv, Reflects
    <3>2. Live' /\ committed'.durable = journal'
      BY <2>1, <2>3, <3>1 DEF Live
    <3> QED
      BY <2>1, <2>2, <2>3, <3>1, <3>2 DEF Log!Next, Log!Accept
  <2>4. CASE ~Live
    <3>1. ~Live'
      BY <2>1, <2>4 DEF Live
    <3>2. Live' = Live
      BY <2>1 DEF Live
    <3> QED
      BY <2>1, <2>2, <2>4, <3>1, <3>2 DEF Log!Next, Log!Doubt
  <2> QED
    BY <2>3, <2>4
<1>2. ASSUME NEW p \in Publishers, CommitFails(p) PROVE [Log!Next]_(Log!vars)
  <2>1. pc[p] = "append" /\ UNCHANGED <<phase, acked, committed, overtaken>>
    BY <1>2 DEF CommitFails
  <2>2. PICK D \in SUBSET batch[p].durable : journal' = journal \union D
    BY <1>2, PartWritten
  <2>3. Log!Grow
    BY <1>0, <2>1, <2>2, AppendGrows
  <2> QED
    BY <2>1, <2>3 DEF Log!Next, Log!Doubt, Live
<1>3. ASSUME NEW p \in Publishers, Observe(p) PROVE [Log!Next]_(Log!vars)
  <2>1. /\ pc[p] = "observe" /\ UNCHANGED <<journal, committed, phase, overtaken>>
        /\ acked' = acked \/ (p \in Commands /\ acked' = acked \union written[p])
    BY <1>3 DEF Observe, Succeed
  <2>2. CASE acked' = acked
    BY <1>a, <2>1, <2>2
  <2>3. CASE p \in Commands /\ acked' = acked \union written[p]
    <3>1. Loaded /\ phase # "closed"
      BY <1>0, <2>1, <2>3, WorkIsLoaded DEF CloseInv
    <3>2. Live /\ Live'
      BY <2>1, <3>1 DEF Loaded, Live
    <3>3. written[p] \subseteq committed.durable
      BY <1>0 DEF DataInv
    <3> QED
      BY <2>1, <2>3, <3>2, <3>3 DEF Log!Next, Log!Answer
  <2> QED
    BY <2>1, <2>2, <2>3
<1>4. CASE SavesEnd \/ FinalSave
  <2>1. /\ Live /\ UNCHANGED <<journal, committed, acked, overtaken>>
        /\ phase' = "closed" \/ phase' \in ClosePhases
    BY <1>4 DEF SavesEnd, FinalSave, Live, ClosePhases
  <2>2. CASE phase' = "closed"
    <3>1. ~Live'
      BY <2>2 DEF Live, ClosePhases
    <3> QED
      BY <1>d, <2>1, <3>1 DEF Log!Next, Log!Stop
  <2>3. CASE phase' \in ClosePhases
    BY <1>b, <2>1, <2>3 DEF Live
  <2> QED
    BY <2>1, <2>2, <2>3
<1>5. CASE Crash
  <2>1. phase' = "stopped" /\ UNCHANGED <<acked, overtaken>>
    BY <1>5 DEF Crash
  <2>2. ~Live'
    BY <2>1 DEF Live, ClosePhases
  <2>3. Log!Grow
    <3>1. ASSUME NEW p \in Publishers, pc[p] = "append",
                 \E part \in Prefixes(batch[p].durable) : journal' = journal \union part
          PROVE  Log!Grow
      <4>1. PICK D \in SUBSET batch[p].durable : journal' = journal \union D
        BY <3>1 DEF Prefixes
      <4> QED
        BY <1>0, <3>1, <4>1, AppendGrows
    <3> QED
      BY <1>5, <1>d, <3>1 DEF Crash, WritesPartly
  <2> QED
    BY <2>1, <2>2, <2>3 DEF Log!Next, Log!Stop
<1>6. CASE LoadRefused
  <2>1. /\ phase \in {"stopped", "closed", "refused"} /\ phase' = "refused"
        /\ UNCHANGED <<journal, acked, overtaken>>
    BY <1>6 DEF LoadRefused
  <2>2. ~Live /\ ~Live'
    BY <2>1 DEF Live, ClosePhases
  <2> QED
    BY <1>c, <2>1, <2>2
<1>7. CASE Load
  <2>1. /\ phase \in {"stopped", "closed", "refused"} /\ UNCHANGED <<journal, snapshot, acked>>
        /\ LeaveBehind /\ overtaken' = (late' # <<>>)
    BY <1>7, Zenon DEF Load, Overtake
  <2>2. ~Live
    BY <2>1 DEF Live, ClosePhases
  <2>3. overtaken' => snapshot # NoSnapshot
    BY <2>1, LeftBehindFacts
  <2>4. CASE snapshot = NoSnapshot
    <3>1. ~Live'
      BY <1>7, <2>4 DEF Load, Live, ClosePhases
    <3>2. overtaken' = overtaken
      BY <1>0, <2>1, <2>3, <2>4, Zenon DEF TypeOK
    <3> QED
      BY <1>c, <2>1, <2>2, <3>1, <3>2
  <2>5. CASE snapshot # NoSnapshot
    <3>1. /\ Live' /\ committed' = snapshot
          /\ \A s \in journal : s <= snapshot.seq
      BY <1>7, <2>5 DEF Load, Live, Recoverable
    <3>2. Reflects(snapshot)
      BY <1>0, <2>5 DEF DataInv
    <3>3. CASE overtaken'
      <4>1. overtaken' = TRUE
        BY <2>1, <3>3, Zenon
      <4>2. Log!Keep
        BY <2>1, <2>2, <3>1, <3>2 DEF Log!Keep, Reflects
      <4> QED
        BY <2>1, <2>2, <3>1, <4>1, <4>2 DEF Log!Next, Log!Overtake
    <3>4. CASE ~overtaken'
      <4>1. overtaken' = overtaken
        BY <1>0, <2>1, <3>4, Zenon DEF TypeOK
      <4>2. snapshot.durable = journal
        BY <3>1, <3>2 DEF Reflects
      <4> QED
        BY <2>1, <2>2, <3>1, <4>1, <4>2 DEF Log!Next, Log!Resume
    <3> QED
      BY <3>3, <3>4
  <2> QED
    BY <2>4, <2>5
<1>8. CASE FirstSave
  <2>1. phase = "starting" /\ UNCHANGED <<journal, committed, acked, overtaken>>
        /\ phase' \in {"open", "stopped"}
    BY <1>8 DEF FirstSave
  <2>2. ~Live /\ committed.durable = {} /\ journal = {}
    BY <1>0, <2>1 DEF Live, ClosePhases, DoubtInv, Empty
  <2>3. CASE phase' = "open"
    <3>1. Live'
      BY <2>3 DEF Live
    <3> QED
      BY <2>1, <2>2, <3>1 DEF Log!Next, Log!Resume
  <2>4. CASE phase' = "stopped"
    <3>1. ~Live'
      BY <2>4 DEF Live, ClosePhases
    <3> QED
      BY <1>c, <2>1, <2>2, <3>1
  <2> QED
    BY <2>1, <2>3, <2>4
<1>9. CASE BeginClose \/ OperationsEnd \/ StopClock \/ EmissionsEnd \/ Disconnect
  <2>1. UNCHANGED <<journal, committed, acked, overtaken>> /\ Live /\ Live'
    BY <1>9 DEF BeginClose, OperationsEnd, StopClock, EmissionsEnd, Disconnect, Live, ClosePhases
  <2> QED
    BY <1>b, <2>1
<1>10. ASSUME NEW c \in Commands, Admit(c) \/ Enqueue(c) \/ Dispatched(c) \/ DispatchThrows(c)
       PROVE  [Log!Next]_(Log!vars)
  BY <1>10, <1>a DEF Admit, Enqueue, Dispatched, DispatchThrows
<1>11. ASSUME NEW e \in Emitters, Emit(e) PROVE [Log!Next]_(Log!vars)
  BY <1>11, <1>a DEF Emit
<1>12. ASSUME NEW p \in Publishers,
              BeginRefused(p) \/ Begin(p) \/ BeginFails(p) \/ ObserveAgain(p)
              \/ ObserveFails(p) \/ Throw(p)
       PROVE  [Log!Next]_(Log!vars)
  BY <1>12, <1>a DEF BeginRefused, Begin, BeginFails, ObserveAgain, ObserveFails, Throw,
                     Reject, Dismiss, Withdraw
<1>13. CASE Save \/ TimerFires \/ QuarantineSettles
  BY <1>13, <1>a DEF Save, SaveBegins, SaveRefused, SaveDone, SaveFails, SaveThrows,
                     OwnerObserves, OwnerRejected, Reject, Withdraw, TimerFires, QuarantineSettles
<1>14. CASE UNCHANGED vars
  BY <1>14, <1>a DEF vars
<1>15. ASSUME NEW i \in 1..Len(late), LateAppend(i) PROVE [Log!Next]_(Log!vars)
  <2>1. UNCHANGED <<phase, committed, acked, overtaken>>
    BY <1>15 DEF LateAppend
  <2>2. late # <<>> /\ late[i] \in SUBSET Nat
    BY <1>0 DEF TypeOK
  <2>3. PICK D \in SUBSET late[i] : journal' = journal \union D
    BY <1>0, <1>15, <2>2, WriteFacts DEF LateAppend
  <2>4. \A s \in D, t \in journal : t < s
    BY <1>0, <2>3 DEF LateInv
  <2>5. Log!Grow
    BY <2>3, <2>4 DEF Log!Grow
  <2> QED
    BY <2>1, <2>5 DEF Log!Next, Log!Doubt, Live
<1> QED
  BY <1>1, <1>2, <1>3, <1>4, <1>5, <1>6, <1>7, <1>8, <1>9, <1>10, <1>11, <1>12, <1>13, <1>14,
     <1>15 DEF Next, Publish, Close

\* Once it is lost a step still keeps what is answered and shown in the journal.
LEMMA StepsOfLostLog ==
  ASSUME IInv, [Next]_vars, overtaken
  PROVE  [Log!Next]_(Log!vars)
<1> USE PublisherFacts DEF disk, queue, saves, stop, past
<1>0. TypeOK /\ QueueInv /\ SaveInv /\ DataInv /\ DoubtInv /\ CloseInv
  BY DEF IInv
<1>1. Live' => committed'.durable \subseteq journal'
  BY DataKept DEF DataInv, Reflects
<1>2. ASSUME NEW p \in Publishers, Publish(p), ~Observe(p) PROVE [Log!Next]_(Log!vars)
  <2>1. UNCHANGED <<acked, overtaken>> /\ journal \subseteq journal'
    BY <1>2 DEF Publish, BeginRefused, Begin, BeginFails, Commit, CommitFails, Writes,
                WritesPartly, ObserveAgain, ObserveFails, Throw, Reject, Dismiss, Withdraw
  <2> QED
    BY <1>1, <2>1, KeepsLog
<1>3. ASSUME NEW p \in Publishers, Observe(p) PROVE [Log!Next]_(Log!vars)
  <2>1. /\ pc[p] = "observe" /\ UNCHANGED <<journal, phase, overtaken>>
        /\ acked' = acked \/ (p \in Commands /\ acked' = acked \union written[p])
    BY <1>3 DEF Observe, Succeed
  <2>2. CASE acked' = acked
    BY <1>1, <2>1, <2>2, KeepsLog
  <2>3. CASE p \in Commands /\ acked' = acked \union written[p]
    <3>1. Loaded /\ phase # "closed"
      BY <1>0, <2>1, <2>3, WorkIsLoaded DEF CloseInv
    <3>2. Live
      BY <3>1 DEF Loaded
    <3>3. written[p] \subseteq committed.durable
      BY <1>0 DEF DataInv
    <3> QED
      BY <1>1, <2>1, <2>3, <3>2, <3>3, KeepsLog
  <2> QED
    BY <2>1, <2>2, <2>3
<1>4. CASE \/ \E c \in Commands : Admit(c) \/ Enqueue(c) \/ Dispatched(c) \/ DispatchThrows(c)
           \/ \E e \in Emitters : Emit(e)
  <2>1. UNCHANGED <<journal, acked, overtaken>>
    BY <1>4 DEF Admit, Enqueue, Dispatched, DispatchThrows, Emit
  <2> QED
    BY <1>1, <2>1, KeepsLog
<1>5. CASE Save \/ TimerFires \/ QuarantineSettles \/ BeginClose \/ Close \/ UNCHANGED vars
  <2>1. UNCHANGED <<journal, acked, overtaken>>
    BY <1>5 DEF Save, SaveBegins, SaveRefused, SaveDone, SaveFails, SaveThrows, OwnerObserves,
                OwnerRejected, Reject, Withdraw, TimerFires, QuarantineSettles, BeginClose, Close,
                OperationsEnd, StopClock, EmissionsEnd, Disconnect, SavesEnd, FinalSave, vars
  <2> QED
    BY <1>1, <2>1, KeepsLog
<1>6. CASE Crash \/ LoadRefused \/ FirstSave \/ \E i \in 1..Len(late) : LateAppend(i)
  <2>1. UNCHANGED <<acked, overtaken>> /\ journal \subseteq journal'
    BY <1>6 DEF Crash, LoadRefused, FirstSave, LateAppend, WritesPartly
  <2> QED
    BY <1>1, <2>1, KeepsLog
<1>7. CASE Load
  <2>1. overtaken' = overtaken
    BY <1>0, <1>7, Zenon DEF Load, Overtake, TypeOK
  <2>2. UNCHANGED <<journal, acked>>
    BY <1>7 DEF Load
  <2> QED
    BY <1>1, <2>1, <2>2, KeepsLog
<1> QED
  BY <1>2, <1>3, <1>4, <1>5, <1>6, <1>7 DEF Next

\* The commit pipeline implements the append-only log of DurableLog.
THEOREM ImplementsLog == Spec => ImplementsDurableLog
<1>1. Init => Log!Init
  BY Zenon DEF Init, Log!Init, Live, ClosePhases
<1>2. IInv /\ [Next]_vars => [Log!Next]_(Log!vars)
  BY StepsOfLog, StepsOfLostLog
<1> QED
  BY <1>1, <1>2, Invariance, PTL DEF Spec, Log!Spec, ImplementsDurableLog
=============================================================================
