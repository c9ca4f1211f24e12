----------------------- MODULE KeyedOperationsProofs -----------------------
(* Theorems about KeyedOperations, for every set of keys, calls and drainers. *)
EXTENDS KeyedOperations, TLAPS

Positions(k) == 1..Len(line[k])

\* The unfinished calls of a key are exactly its line, each of them once.
LineInv ==
  /\ \A k \in Keys : \A i \in Positions(k) :
       Unfinished(line[k][i]) /\ key[line[k][i]] = k
  /\ \A c \in Calls : Unfinished(c) => \E i \in Positions(key[c]) : line[key[c]][i] = c
  /\ \A k \in Keys : \A i, j \in Positions(k) : line[k][i] = line[k][j] => i = j

\* Each call is chained on the one before it, and the map holds the last.
ChainInv ==
  /\ \A k \in Keys : \A i \in Positions(k) :
       previous[line[k][i]] = IF i = 1 THEN NoCall ELSE line[k][i-1]
  /\ \A k \in Keys : line[k] # <<>> => pending[k] = line[k][Len(line[k])]
  /\ \A k \in Keys : pending[k] # NoCall =>
       key[pending[k]] = k /\ status[pending[k]] # "idle"
  /\ \A c \in Calls : status[c] = "running" => previous[c] = NoCall

\* Behind every call a drain has to cover, an awaited promise stands in line.
DrainInv ==
  \A d \in Drainers : \A c \in earlier[d] :
    /\ Unfinished(c)
    /\ \E i, j \in Positions(key[c]) :
         i <= j /\ line[key[c]][i] = c /\ line[key[c]][j] \in awaited[d]

IndInv == TypeOK /\ LineInv /\ ChainInv /\ DrainInv

\* An empty map with no calls satisfies the invariant.
LEMMA InitEstablishes == Init => IndInv
<1> SUFFICES ASSUME Init PROVE IndInv
  OBVIOUS
<1> USE NoCallAssumption DEF Init
<1>1. TypeOK
  BY DEF TypeOK, Statuses
<1>2. LineInv
  BY DEF LineInv, Positions, Unfinished
<1>3. ChainInv
  BY DEF ChainInv, Positions
<1>4. DrainInv
  BY DEF DrainInv
<1> QED
  BY <1>1, <1>2, <1>3, <1>4 DEF IndInv

\* What Predecessor returns when the line of k is known.
LEMMA PredecessorIsLast ==
  ASSUME IndInv, NEW k \in Keys
  PROVE  /\ line[k] = <<>> => Predecessor(k) = NoCall
         /\ line[k] # <<>> => Predecessor(k) = line[k][Len(line[k])]
<1> USE NoCallAssumption DEF IndInv, TypeOK
<1>1. CASE line[k] = <<>>
  <2>1. SUFFICES ASSUME pending[k] # NoCall, Unfinished(pending[k]) PROVE FALSE
    BY <1>1 DEF Predecessor
  <2>2. pending[k] \in Calls /\ key[pending[k]] = k
    BY <2>1 DEF ChainInv
  <2>3. PICK i \in Positions(k) : line[k][i] = pending[k]
    BY <2>1, <2>2 DEF LineInv
  <2> QED
    BY <1>1, <2>3 DEF Positions
<1>2. CASE line[k] # <<>>
  <2>1. Len(line[k]) \in Positions(k) /\ line[k] \in Seq(Calls)
    BY <1>2 DEF Positions
  <2>2. pending[k] = line[k][Len(line[k])]
    BY <1>2 DEF ChainInv
  <2>3. Unfinished(pending[k]) /\ pending[k] \in Calls
    BY <2>1, <2>2 DEF LineInv, Positions
  <2> QED
    BY <1>2, <2>2, <2>3 DEF Predecessor
<1> QED
  BY <1>1, <1>2

\* An unfinished call that waits for nothing stands at the head of its line.
LEMMA UnchainedIsHead ==
  ASSUME IndInv, NEW c \in Calls, Unfinished(c), previous[c] = NoCall
  PROVE  line[key[c]] # <<>> /\ Head(line[key[c]]) = c /\ line[key[c]][1] = c
<1> USE NoCallAssumption DEF IndInv, TypeOK
<1>1. key[c] \in Keys /\ line[key[c]] \in Seq(Calls)
  OBVIOUS
<1>2. PICK i \in Positions(key[c]) : line[key[c]][i] = c
  BY DEF LineInv
<1>4. i = 1
  <2>1. SUFFICES ASSUME i # 1 PROVE FALSE
    OBVIOUS
  <2>2. previous[c] = line[key[c]][i-1]
    BY <1>1, <1>2, <2>1 DEF ChainInv
  <2>3. line[key[c]][i-1] \in Calls
    BY <1>1, <2>1 DEF Positions
  <2> QED
    BY <2>2, <2>3
<1> QED
  BY <1>1, <1>2, <1>4 DEF Positions

\* So does a running one.
LEMMA RunningIsHead ==
  ASSUME IndInv, NEW c \in Calls, status[c] = "running"
  PROVE  line[key[c]] # <<>> /\ Head(line[key[c]]) = c /\ line[key[c]][1] = c
BY UnchainedIsHead DEF IndInv, ChainInv, Unfinished

\* Two operations on one key never run at once.
LEMMA IndInvImpliesMutualExclusion == IndInv => MutualExclusion
BY RunningIsHead DEF MutualExclusion

\* A drain that waits for nothing more has nothing left to cover.
LEMMA IndInvImpliesDrainCovers == IndInv => DrainCoversEarlierCalls
BY DEF IndInv, DrainInv, DrainCoversEarlierCalls

\* A new call goes to the end of its line, chained on the last one there.
LEMMA RunPreserves ==
  ASSUME IndInv, NEW c \in Calls, NEW k \in Keys, Run(c, k)
  PROVE  IndInv'
<1> USE NoCallAssumption
<1>0. TypeOK /\ LineInv /\ ChainInv /\ DrainInv
  BY DEF IndInv
<1>1. \A j \in Keys : \A i \in Positions(j) : line[j][i] # c
  BY <1>0 DEF LineInv, Unfinished, Run
<1>2. \A b \in Calls : b # c => status'[b] = status[b] /\ key'[b] = key[b]
                                /\ previous'[b] = previous[b]
  BY <1>0 DEF TypeOK, Run
<1>3. status'[c] = "chained" /\ key'[c] = k /\ previous'[c] = Predecessor(k)
  BY <1>0 DEF TypeOK, Run
<1>4. /\ \A j \in Keys \ {k} : line'[j] = line[j]
      /\ line'[k] = Append(line[k], c)
      /\ Len(line'[k]) = Len(line[k]) + 1
      /\ \A i \in Positions(k) : line'[k][i] = line[k][i]
      /\ line'[k][Len(line[k]) + 1] = c
  BY <1>0 DEF TypeOK, Positions, Run
<1>10. \A j \in Keys : \A i \in Positions(j) :
         i \in Positions(j)' /\ line'[j][i] = line[j][i] /\ line[j][i] \in Calls
  <2> SUFFICES ASSUME NEW j \in Keys, NEW i \in Positions(j)
               PROVE  i \in Positions(j)' /\ line'[j][i] = line[j][i] /\ line[j][i] \in Calls
    OBVIOUS
  <2>1. line[j] \in Seq(Calls)
    BY <1>0 DEF TypeOK
  <2>2. CASE j = k
    BY <1>4, <2>1, <2>2 DEF Positions
  <2>3. CASE j # k
    BY <1>4, <2>1, <2>3 DEF Positions
  <2> QED
    BY <2>2, <2>3
<1>12. ASSUME NEW j \in Keys, NEW i \in Positions(j)', ~(j = k /\ i = Len(line[k]) + 1)
       PROVE  i \in Positions(j) /\ line'[j][i] = line[j][i] /\ line[j][i] \in Calls
  <2>1. line[j] \in Seq(Calls) /\ Len(line[j]) \in Nat
    BY <1>0 DEF TypeOK
  <2>2. i \in Positions(j)
    <3>1. CASE j = k
      BY <1>4, <1>12, <2>1, <3>1 DEF Positions
    <3>2. CASE j # k
      BY <1>4, <1>12, <2>1, <3>2 DEF Positions
    <3> QED
      BY <3>1, <3>2
  <2>3. line'[j][i] = line[j][i]
    BY <1>10, <2>2
  <2>4. line[j][i] \in Calls
    BY <2>1, <2>2 DEF Positions
  <2> QED
    BY <2>2, <2>3, <2>4
<1>11. status[c] = "idle"
  BY DEF Run
<1>5. Predecessor(k) \in Calls \union {NoCall}
  BY <1>0 DEF Predecessor, TypeOK
<1>6. TypeOK'
  BY <1>0, <1>5 DEF TypeOK, Statuses, Run
<1>7. LineInv'
  <2>1. \A j \in Keys : \A i \in Positions(j)' :
          Unfinished(line[j][i])' /\ key'[line'[j][i]] = j
    <3> SUFFICES ASSUME NEW j \in Keys, NEW i \in Positions(j)'
                 PROVE  Unfinished(line[j][i])' /\ key'[line'[j][i]] = j
      OBVIOUS
    <3>1. CASE j = k /\ i = Len(line[k]) + 1
      BY <1>3, <1>4, <3>1 DEF Unfinished
    <3>2. CASE ~(j = k /\ i = Len(line[k]) + 1)
      <4>1. i \in Positions(j) /\ line'[j][i] = line[j][i] /\ line[j][i] \in Calls
        BY <1>12, <3>2
      <4> QED
        BY <1>0, <1>1, <1>2, <4>1 DEF LineInv, Unfinished
    <3> QED
      BY <3>1, <3>2
  <2>2. \A b \in Calls : Unfinished(b)' =>
          \E i \in Positions(key[b])' : line'[key'[b]][i] = b
    <3> SUFFICES ASSUME NEW b \in Calls, Unfinished(b)'
                 PROVE  \E i \in Positions(key[b])' : line'[key'[b]][i] = b
      OBVIOUS
    <3>1. CASE b = c
      <4>1. Len(line[k]) + 1 \in Positions(key[b])'
        BY <1>0, <1>3, <1>4, <3>1 DEF Positions, TypeOK
      <4> QED
        BY <1>3, <1>4, <3>1, <4>1
    <3>2. CASE b # c
      <4>1. PICK i \in Positions(key[b]) : line[key[b]][i] = b
        BY <1>0, <1>2, <3>2 DEF LineInv, Unfinished
      <4>2. i \in Positions(key[b])' /\ line'[key'[b]][i] = b
        <5>1. key[b] \in Keys /\ key'[b] = key[b]
          BY <1>0, <1>2, <3>2 DEF TypeOK
        <5> QED
          BY <1>10, <4>1, <5>1 DEF Positions
      <4> QED
        BY <4>2
    <3> QED
      BY <3>1, <3>2
  <2>3. \A j \in Keys : \A i, h \in Positions(j)' : line'[j][i] = line'[j][h] => i = h
    <3> SUFFICES ASSUME NEW j \in Keys, NEW i \in Positions(j)', NEW h \in Positions(j)',
                        line'[j][i] = line'[j][h]
                 PROVE  i = h
      OBVIOUS
    <3>1. CASE j # k
      BY <1>0, <1>4, <3>1 DEF LineInv, Positions
    <3>2. CASE j = k
      <4>1. \A g \in Positions(j)' : g \in Positions(k) \/ g = Len(line[k]) + 1
        BY <1>0, <1>4, <3>2 DEF Positions, TypeOK
      <4>2. \A g \in Positions(k) : line'[k][g] = line[k][g] /\ line[k][g] # c
        BY <1>1, <1>10
      <4>3. \A f, g \in Positions(k) : line[k][f] = line[k][g] => f = g
        BY <1>0 DEF LineInv
      <4> QED
        BY <1>4, <3>2, <4>1, <4>2, <4>3
    <3> QED
      BY <3>1, <3>2
  <2> QED
    BY <2>1, <2>2, <2>3 DEF LineInv
<1>8. ChainInv'
  <2>1. \A j \in Keys : \A i \in Positions(j)' :
          previous'[line'[j][i]] = IF i = 1 THEN NoCall ELSE line'[j][i-1]
    <3> SUFFICES ASSUME NEW j \in Keys, NEW i \in Positions(j)'
                 PROVE  previous'[line'[j][i]] = IF i = 1 THEN NoCall ELSE line'[j][i-1]
      OBVIOUS
    <3>1. CASE j = k /\ i = Len(line[k]) + 1
      <4>1. CASE line[k] = <<>>
        BY <1>3, <1>4, <3>1, <4>1, PredecessorIsLast
      <4>2. CASE line[k] # <<>>
        <5>1. Len(line[k]) \in Positions(k) /\ i # 1 /\ i - 1 = Len(line[k])
          BY <1>0, <3>1, <4>2 DEF Positions, TypeOK
        <5> QED
          BY <1>3, <1>4, <3>1, <4>2, <5>1, PredecessorIsLast
      <4> QED
        BY <4>1, <4>2
    <3>2. CASE ~(j = k /\ i = Len(line[k]) + 1)
      <4>1. i \in Positions(j) /\ line'[j][i] = line[j][i] /\ line[j][i] \in Calls
        BY <1>12, <3>2
      <4>2. i # 1 => i - 1 \in Positions(j) /\ line'[j][i-1] = line[j][i-1]
        <5>1. i # 1 => i - 1 \in Positions(j)
          BY <1>0, <4>1 DEF Positions, TypeOK
        <5> QED
          BY <1>10, <5>1
      <4>3. previous'[line'[j][i]] = previous[line[j][i]]
        BY <1>1, <1>2, <4>1
      <4> QED
        BY <1>0, <4>1, <4>2, <4>3 DEF ChainInv
    <3> QED
      BY <3>1, <3>2
  <2>2. \A j \in Keys : line'[j] # <<>> => pending'[j] = line'[j][Len(line'[j])]
    BY <1>0, <1>4 DEF ChainInv, TypeOK, Run
  <2>3. \A j \in Keys : pending'[j] # NoCall =>
          key'[pending'[j]] = j /\ status'[pending'[j]] # "idle"
    <3> SUFFICES ASSUME NEW j \in Keys, pending'[j] # NoCall
                 PROVE  key'[pending'[j]] = j /\ status'[pending'[j]] # "idle"
      OBVIOUS
    <3>1. CASE j = k
      BY <1>0, <1>3, <3>1 DEF TypeOK, Run
    <3>2. CASE j # k
      <4>1. pending'[j] = pending[j] /\ pending[j] \in Calls
        BY <1>0, <3>2 DEF TypeOK, Run
      <4>2. key[pending[j]] = j /\ status[pending[j]] # "idle"
        BY <1>0, <4>1 DEF ChainInv
      <4> QED
        BY <1>2, <1>11, <4>1, <4>2
    <3> QED
      BY <3>1, <3>2
  <2>4. \A b \in Calls : status'[b] = "running" => previous'[b] = NoCall
    BY <1>0, <1>2, <1>3 DEF ChainInv
  <2> QED
    BY <2>1, <2>2, <2>3, <2>4 DEF ChainInv
<1>9. DrainInv'
  <2> SUFFICES ASSUME NEW d \in Drainers, NEW b \in earlier'[d]
               PROVE  /\ Unfinished(b)'
                      /\ \E i, j \in Positions(key[b])' :
                           i <= j /\ line'[key'[b]][i] = b /\ line'[key'[b]][j] \in awaited'[d]
    BY DEF DrainInv
  <2>1. b \in earlier[d] /\ awaited'[d] = awaited[d] /\ b \in Calls
    BY <1>0 DEF TypeOK, Run
  <2>2. Unfinished(b) /\ b # c
    BY <1>0, <2>1 DEF DrainInv, Unfinished, Run
  <2>3. PICK i, j \in Positions(key[b]) :
          i <= j /\ line[key[b]][i] = b /\ line[key[b]][j] \in awaited[d]
    BY <1>0, <2>1 DEF DrainInv
  <2>4. /\ i \in Positions(key[b])' /\ j \in Positions(key[b])'
        /\ line'[key'[b]][i] = line[key[b]][i] /\ line'[key'[b]][j] = line[key[b]][j]
    <3>1. key[b] \in Keys /\ key'[b] = key[b]
      BY <1>0, <1>2, <2>1, <2>2 DEF TypeOK
    <3> QED
      BY <1>10, <2>3, <3>1 DEF Positions
  <2> QED
    BY <1>2, <2>1, <2>2, <2>3, <2>4 DEF Unfinished
<1> QED
  BY <1>6, <1>7, <1>8, <1>9 DEF IndInv

\* An operation that starts has nothing left to wait for, so it heads its line.
LEMMA StartPreserves ==
  ASSUME IndInv, NEW c \in Calls, Start(c)
  PROVE  IndInv'
<1> USE NoCallAssumption DEF Start
<1>0. TypeOK /\ LineInv /\ ChainInv /\ DrainInv
  BY DEF IndInv
<1>1. /\ \A b \in Calls : b # c => status'[b] = status[b]
      /\ status'[c] = "running" /\ status[c] = "chained" /\ previous[c] = NoCall
  BY <1>0 DEF TypeOK
<1>2. \A b \in Calls : Unfinished(b)' <=> Unfinished(b)
  BY <1>1 DEF Unfinished
<1>3. TypeOK'
  BY <1>0 DEF TypeOK, Statuses
<1>4. \A k \in Keys : \A i \in Positions(k) : line[k][i] \in Calls
  BY <1>0 DEF TypeOK, Positions
<1>5. LineInv'
  BY <1>0, <1>2, <1>4 DEF LineInv, Positions
<1>6. \A k \in Keys : pending[k] # NoCall => status'[pending[k]] # "idle"
  BY <1>0, <1>1 DEF ChainInv, TypeOK
<1>7. ChainInv'
  BY <1>0, <1>1, <1>6 DEF ChainInv, Positions
<1>8. DrainInv'
  BY <1>0, <1>2 DEF DrainInv, Positions, TypeOK
<1> QED
  BY <1>3, <1>5, <1>7, <1>8 DEF IndInv

\* A settled call leaves the head of its line and frees the call behind it.
LEMMA SettlePreserves ==
  ASSUME IndInv, NEW c \in Calls, NEW k \in Keys, key[c] = k, Settle(c)
  PROVE  IndInv'
<1> USE NoCallAssumption
<1>0. TypeOK /\ LineInv /\ ChainInv /\ DrainInv
  BY DEF IndInv
<1>1. k \in Keys /\ line[k] \in Seq(Calls) /\ line[k] # <<>> /\ line[k][1] = c
  BY <1>0, RunningIsHead DEF TypeOK, Settle
<1>2. /\ status'[c] = "settled"
      /\ \A b \in Calls : b # c => status'[b] = status[b]
      /\ key' = key /\ pending' = pending
      /\ \A b \in Calls : previous'[b] = IF previous[b] = c THEN NoCall ELSE previous[b]
  BY <1>0 DEF TypeOK, Settle
<1>3. /\ \A j \in Keys \ {k} : line'[j] = line[j]
      /\ line'[k] = Tail(line[k])
      /\ Len(line'[k]) = Len(line[k]) - 1
      /\ \A i \in Positions(k)' : i + 1 \in Positions(k) /\ line'[k][i] = line[k][i+1]
  BY <1>0, <1>1 DEF TypeOK, Positions, Settle
<1>4. \A j \in Keys : \A i \in Positions(j) :
         line[j][i] \in Calls /\ (line[j][i] = c => j = k /\ i = 1)
  <2> SUFFICES ASSUME NEW j \in Keys, NEW i \in Positions(j)
               PROVE  line[j][i] \in Calls /\ (line[j][i] = c => j = k /\ i = 1)
    OBVIOUS
  <2>1. line[j][i] \in Calls /\ key[line[j][i]] = j
    BY <1>0 DEF TypeOK, LineInv, Positions
  <2>2. 1 \in Positions(k)
    BY <1>1 DEF Positions
  <2> QED
    BY <1>0, <1>1, <2>1, <2>2 DEF LineInv
\* Where a call of the new line stood in the old one.
<1>5. \A j \in Keys : \A i \in Positions(j)' :
         /\ j # k => i \in Positions(j) /\ line'[j][i] = line[j][i]
         /\ j = k => i + 1 \in Positions(j) /\ line'[j][i] = line[j][i+1]
         /\ line'[j][i] \in Calls \ {c}
  <2> SUFFICES ASSUME NEW j \in Keys, NEW i \in Positions(j)'
               PROVE  /\ j # k => i \in Positions(j) /\ line'[j][i] = line[j][i]
                      /\ j = k => i + 1 \in Positions(j) /\ line'[j][i] = line[j][i+1]
                      /\ line'[j][i] \in Calls \ {c}
    OBVIOUS
  <2>1. CASE j = k
    <3>1. i + 1 \in Positions(k) /\ line'[k][i] = line[k][i+1]
      BY <1>3, <2>1
    <3>2. i + 1 # 1
      BY DEF Positions
    <3> QED
      BY <1>1, <1>4, <2>1, <3>1, <3>2
  <2>2. CASE j # k
    <3>1. i \in Positions(j) /\ line'[j][i] = line[j][i]
      BY <1>3, <2>2 DEF Positions
    <3> QED
      BY <1>4, <2>2, <3>1
  <2> QED
    BY <2>1, <2>2
<1>6. TypeOK'
  <2>1. line' \in [Keys -> Seq(Calls)]
    BY <1>0, <1>1 DEF TypeOK, Settle
  <2>2. awaited' \in [Drainers -> SUBSET Calls] /\ earlier' \in [Drainers -> SUBSET Calls]
    BY <1>0 DEF TypeOK, Settle
  <2>3. previous' \in [Calls -> Calls \union {NoCall}]
    BY <1>0 DEF TypeOK, Settle
  <2> QED
    BY <1>0, <2>1, <2>2, <2>3 DEF TypeOK, Statuses, Settle
<1>7. \A b \in Calls : Unfinished(b)' <=> Unfinished(b) /\ b # c
  BY <1>2 DEF Unfinished
\* A call left in line has moved up by one, or not at all.
<1>8. \A b \in Calls \ {c} : \A i \in Positions(key[b]) : line[key[b]][i] = b =>
         LET h == IF key[b] = k THEN i - 1 ELSE i
         IN  h \in Positions(key[b])' /\ line'[key[b]][h] = b
  <2> SUFFICES ASSUME NEW b \in Calls \ {c}, NEW i \in Positions(key[b]), line[key[b]][i] = b
               PROVE  LET h == IF key[b] = k THEN i - 1 ELSE i
                      IN  h \in Positions(key[b])' /\ line'[key[b]][h] = b
    OBVIOUS
  <2>1. CASE key[b] = k
    <3>1. i # 1 /\ i - 1 \in 1..Len(line'[k])
      BY <1>1, <1>3, <2>1 DEF Positions
    <3>2. line'[k][i-1] = line[k][i]
      BY <1>3, <2>1, <3>1 DEF Positions
    <3> QED
      BY <1>2, <2>1, <3>1, <3>2 DEF Positions
  <2>2. CASE key[b] # k
    <3>1. key[b] \in Keys
      BY <1>0 DEF TypeOK
    <3> QED
      BY <1>2, <1>3, <2>2, <3>1 DEF Positions
  <2> QED
    BY <2>1, <2>2
<1>9. LineInv'
  <2>1. \A j \in Keys : \A i \in Positions(j)' :
          Unfinished(line[j][i])' /\ key'[line'[j][i]] = j
    <3> SUFFICES ASSUME NEW j \in Keys, NEW i \in Positions(j)'
                 PROVE  Unfinished(line[j][i])' /\ key'[line'[j][i]] = j
      OBVIOUS
    <3>1. \E h \in Positions(j) : line'[j][i] = line[j][h]
      BY <1>5
    <3>2. key[line'[j][i]] = j /\ Unfinished(line'[j][i]) 
      BY <1>0, <3>1 DEF LineInv, Unfinished
    <3>3. line'[j][i] \in Calls \ {c}
      BY <1>5
    <3> QED
      BY <1>2, <3>2, <3>3 DEF Unfinished
  <2>2. \A b \in Calls : Unfinished(b)' =>
          \E i \in Positions(key[b])' : line'[key'[b]][i] = b
    <3> SUFFICES ASSUME NEW b \in Calls, Unfinished(b)'
                 PROVE  \E i \in Positions(key[b])' : line'[key'[b]][i] = b
      OBVIOUS
    <3>1. Unfinished(b) /\ b # c
      BY <1>7
    <3>2. PICK i \in Positions(key[b]) : line[key[b]][i] = b
      BY <1>0, <3>1 DEF LineInv
    <3> QED
      BY <1>2, <1>8, <3>1, <3>2
  <2>3. \A j \in Keys : \A i, h \in Positions(j)' : line'[j][i] = line'[j][h] => i = h
    <3> SUFFICES ASSUME NEW j \in Keys, NEW i \in Positions(j)', NEW h \in Positions(j)',
                        line'[j][i] = line'[j][h]
                 PROVE  i = h
      OBVIOUS
    <3>1. CASE j = k
      <4>1. i + 1 \in Positions(j) /\ h + 1 \in Positions(j) /\ line[j][i+1] = line[j][h+1]
        BY <1>5, <3>1
      <4>2. i + 1 = h + 1
        BY <1>0, <4>1 DEF LineInv
      <4> QED
        BY <4>2 DEF Positions
    <3>2. CASE j # k
      <4>1. i \in Positions(j) /\ h \in Positions(j) /\ line[j][i] = line[j][h]
        BY <1>5, <3>2
      <4> QED
        BY <1>0, <4>1 DEF LineInv
    <3> QED
      BY <3>1, <3>2
  <2> QED
    BY <2>1, <2>2, <2>3 DEF LineInv
<1>10. ChainInv'
  <2>1. \A j \in Keys : \A i \in Positions(j)' :
          previous'[line'[j][i]] = IF i = 1 THEN NoCall ELSE line'[j][i-1]
    <3> SUFFICES ASSUME NEW j \in Keys, NEW i \in Positions(j)'
                 PROVE  previous'[line'[j][i]] = IF i = 1 THEN NoCall ELSE line'[j][i-1]
      OBVIOUS
    <3>0. i \in Nat /\ i >= 1 /\ (i # 1 => i - 1 \in Positions(j)')
      BY <1>3 DEF Positions
    <3>1. CASE j = k
      <4>1. i + 1 \in Positions(k) /\ line'[k][i] = line[k][i+1] /\ i + 1 # 1
        BY <1>5, <3>0, <3>1
      <4>2. previous[line[k][i+1]] = line[k][i]
        BY <1>0, <1>1, <4>1, <3>0 DEF ChainInv
      <4>3. CASE i = 1
        BY <1>1, <1>2, <1>5, <3>1, <4>1, <4>2, <4>3
      <4>4. CASE i # 1
        <5>1. line'[k][i-1] = line[k][i] /\ line[k][i] # c
          <6>1. (i - 1) + 1 = i
            BY <3>0
          <6> QED
            BY <1>5, <3>0, <3>1, <4>4, <6>1
        <5> QED
          BY <1>2, <1>5, <3>1, <4>1, <4>2, <4>4, <5>1
      <4> QED
        BY <4>3, <4>4
    <3>2. CASE j # k
      <4>1. i \in Positions(j) /\ line'[j] = line[j] /\ line[j][i] \in Calls
        BY <1>3, <1>4, <1>5, <3>2
      <4>2. previous[line[j][i]] # c
        <5>1. CASE i = 1
          BY <1>0, <4>1, <5>1 DEF ChainInv
        <5>2. CASE i # 1
          <6>1. previous[line[j][i]] = line[j][i-1]
            BY <1>0, <4>1, <5>2 DEF ChainInv
          <6>2. i - 1 \in Positions(j)
            BY <3>0, <4>1, <5>2 DEF Positions
          <6> QED
            BY <1>4, <3>2, <6>1, <6>2
        <5> QED
          BY <5>1, <5>2
      <4> QED
        BY <1>0, <1>2, <4>1, <4>2 DEF ChainInv
    <3> QED
      BY <3>1, <3>2
  <2>2. \A j \in Keys : line'[j] # <<>> => pending'[j] = line'[j][Len(line'[j])]
    <3> SUFFICES ASSUME NEW j \in Keys, line'[j] # <<>>
                 PROVE  pending'[j] = line'[j][Len(line'[j])]
      OBVIOUS
    <3>1. CASE j = k
      <4>1. Len(line'[k]) \in Positions(k)' /\ Len(line'[k]) + 1 = Len(line[k])
        <5>1. line'[k] \in Seq(Calls) /\ Len(line[k]) \in Nat
          BY <1>1, <1>6 DEF TypeOK
        <5>2. Len(line'[k]) \in Nat /\ Len(line'[k]) >= 1
          BY <3>1, <5>1
        <5> QED
          BY <1>3, <5>1, <5>2 DEF Positions
      <4>2. line'[k][Len(line'[k])] = line[k][Len(line[k])]
        BY <1>3, <4>1
      <4> QED
        BY <1>0, <1>1, <1>2, <3>1, <4>2 DEF ChainInv
    <3>2. CASE j # k
      BY <1>0, <1>2, <1>3, <3>2 DEF ChainInv
    <3> QED
      BY <3>1, <3>2
  <2>3. \A j \in Keys : pending'[j] # NoCall =>
          key'[pending'[j]] = j /\ status'[pending'[j]] # "idle"
    <3> SUFFICES ASSUME NEW j \in Keys, pending[j] # NoCall
                 PROVE  key[pending[j]] = j /\ status'[pending[j]] # "idle"
      BY <1>2
    <3>1. key[pending[j]] = j /\ status[pending[j]] # "idle" /\ pending[j] \in Calls
      BY <1>0 DEF ChainInv, TypeOK
    <3> QED
      BY <1>2, <3>1
  <2>4. \A b \in Calls : status'[b] = "running" => previous'[b] = NoCall
    BY <1>0, <1>2 DEF ChainInv
  <2> QED
    BY <2>1, <2>2, <2>3, <2>4 DEF ChainInv
<1>11. DrainInv'
  <2> SUFFICES ASSUME NEW d \in Drainers, NEW b \in earlier'[d]
               PROVE  /\ Unfinished(b)'
                      /\ \E i, j \in Positions(key[b])' :
                           i <= j /\ line'[key'[b]][i] = b /\ line'[key'[b]][j] \in awaited'[d]
    BY DEF DrainInv
  <2>1. b \in earlier[d] /\ awaited'[d] = awaited[d] \ {c} /\ b \in Calls \ {c}
    BY <1>0 DEF TypeOK, Settle
  <2>2. Unfinished(b)'
    BY <1>0, <1>7, <2>1 DEF DrainInv
  <2>3. PICK i, j \in Positions(key[b]) :
          i <= j /\ line[key[b]][i] = b /\ line[key[b]][j] \in awaited[d]
    BY <1>0, <2>1 DEF DrainInv
  <2>4. key[b] \in Keys /\ key'[b] = key[b]
    BY <1>0, <1>2, <2>1 DEF TypeOK
  <2>5. CASE key[b] = k
    <3>1. i # 1 /\ j # 1
      BY <1>1, <2>1, <2>3, <2>5 DEF Positions
    <3>2. i - 1 \in Positions(k)' /\ j - 1 \in Positions(k)' /\ i - 1 <= j - 1
      <4>1. i \in 1..Len(line[k]) /\ j \in 1..Len(line[k]) /\ i <= j
        BY <2>3, <2>5 DEF Positions
      <4>2. Len(line[k]) \in Nat /\ Len(line'[k]) = Len(line[k]) - 1
        BY <1>1, <1>3
      <4> QED
        BY <3>1, <4>1, <4>2 DEF Positions
    <3>3. line'[k][i-1] = line[k][i] /\ line'[k][j-1] = line[k][j] /\ line[k][j] # c
      <4>1. (i - 1) + 1 = i /\ (j - 1) + 1 = j
        BY DEF Positions
      <4>2. line'[k][i-1] = line[k][i] /\ line'[k][j-1] = line[k][j]
        BY <1>3, <3>2, <4>1
      <4> QED
        BY <1>1, <1>4, <2>5, <3>1, <4>2
    <3> QED
      BY <2>1, <2>2, <2>3, <2>4, <2>5, <3>2, <3>3 DEF Positions
  <2>6. CASE key[b] # k
    <3>1. line'[key[b]] = line[key[b]] /\ line[key[b]][j] # c
      BY <1>3, <1>4, <2>4, <2>6
    <3> QED
      BY <2>1, <2>2, <2>3, <2>4, <3>1 DEF Positions
  <2> QED
    BY <2>5, <2>6
<1> QED
  BY <1>6, <1>9, <1>10, <1>11 DEF IndInv

\* A release removes no entry that a younger call has taken over.
LEMMA ReleasePreserves ==
  ASSUME IndInv, NEW c \in Calls, Release(c)
  PROVE  IndInv'
<1> USE NoCallAssumption DEF Release
<1>0. TypeOK /\ LineInv /\ ChainInv /\ DrainInv
  BY DEF IndInv
<1>1. /\ \A b \in Calls : b # c => status'[b] = status[b]
      /\ status'[c] = "idle" /\ status[c] = "settled"
  BY <1>0 DEF TypeOK
<1>2. \A b \in Calls : Unfinished(b)' <=> Unfinished(b)
  BY <1>1 DEF Unfinished
<1>3. TypeOK'
  BY <1>0 DEF TypeOK, Statuses
<1>4. \A k \in Keys : \A i \in Positions(k) : line[k][i] \in Calls
  BY <1>0 DEF TypeOK, Positions
<1>5. LineInv'
  BY <1>0, <1>2, <1>4 DEF LineInv, Positions
\* The only entry that goes is one whose line is empty.
<1>6. \A k \in Keys : pending'[k] = pending[k] \/ (pending[k] = c /\ pending'[k] = NoCall)
  BY <1>0 DEF TypeOK
<1>7. \A k \in Keys : line[k] # <<>> => pending[k] # c
  <2> SUFFICES ASSUME NEW k \in Keys, line[k] # <<>> PROVE pending[k] # c
    OBVIOUS
  <2>1. Len(line[k]) \in Positions(k)
    BY <1>0 DEF TypeOK, Positions
  <2>2. Unfinished(pending[k])
    BY <1>0, <2>1 DEF ChainInv, LineInv
  <2> QED
    BY <1>1, <2>2 DEF Unfinished
<1>8. \A k \in Keys : pending'[k] # c
  <2> SUFFICES ASSUME NEW k \in Keys, pending[k] = c PROVE pending'[k] # c
    BY <1>6
  <2>1. key[c] = k
    BY <1>0 DEF ChainInv
  <2> QED
    BY <1>0, <2>1 DEF TypeOK
<1>9. ChainInv'
  <2>1. \A k \in Keys : line[k] # <<>> => pending'[k] = line[k][Len(line[k])]
    BY <1>0, <1>6, <1>7 DEF ChainInv
  <2>2. \A k \in Keys : pending'[k] # NoCall =>
          key[pending'[k]] = k /\ status'[pending'[k]] # "idle"
    BY <1>0, <1>1, <1>3, <1>6, <1>8 DEF ChainInv, TypeOK
  <2>3. \A b \in Calls : status'[b] = "running" => previous[b] = NoCall
    BY <1>0, <1>1 DEF ChainInv
  <2> QED
    BY <1>0, <2>1, <2>2, <2>3 DEF ChainInv, Positions
<1>10. DrainInv'
  BY <1>0, <1>2 DEF DrainInv, Positions, TypeOK
<1> QED
  BY <1>3, <1>5, <1>9, <1>10 DEF IndInv

\* Behind each unfinished call stands the tail its drain waits for.
LEMMA DrainPreserves ==
  ASSUME IndInv, NEW e \in Drainers, Drain(e)
  PROVE  IndInv'
<1> USE NoCallAssumption DEF Drain
<1>0. TypeOK /\ LineInv /\ ChainInv /\ DrainInv
  BY DEF IndInv
<1>1. \A k \in Keys : Predecessor(k) # NoCall => pending[k] \in Calls
  BY <1>0 DEF Predecessor, TypeOK
<1>2. TypeOK'
  <2>1. {pending[k] : k \in {j \in Keys : Predecessor(j) # NoCall}} \in SUBSET Calls
    BY <1>1
  <2> QED
    BY <1>0, <2>1 DEF TypeOK
<1>3. LineInv' /\ ChainInv'
  BY <1>0 DEF LineInv, ChainInv, Positions, Unfinished
<1>4. DrainInv'
  <2> SUFFICES ASSUME NEW d \in Drainers, NEW c \in earlier'[d]
               PROVE  /\ Unfinished(c)'
                      /\ \E i, j \in Positions(key[c])' :
                           i <= j /\ line'[key'[c]][i] = c /\ line'[key'[c]][j] \in awaited'[d]
    BY DEF DrainInv
  <2>1. CASE d # e
    <3>1. c \in earlier[d] /\ awaited'[d] = awaited[d]
      BY <1>0, <2>1 DEF TypeOK
    <3> QED
      BY <1>0, <3>1 DEF DrainInv, Positions, Unfinished
  <2>2. CASE d = e
    <3>1. c \in Calls /\ Unfinished(c)
      BY <1>0, <2>2 DEF TypeOK
    <3>2. key[c] \in Keys /\ line[key[c]] \in Seq(Calls)
      BY <1>0, <3>1 DEF TypeOK
    <3>3. PICK i \in Positions(key[c]) : line[key[c]][i] = c
      BY <1>0, <3>1 DEF LineInv
    <3> DEFINE j == Len(line[key[c]])
    <3>4. j \in Positions(key[c]) /\ i <= j /\ line[key[c]] # <<>> /\ line[key[c]][j] \in Calls
      BY <3>2, <3>3 DEF Positions
    <3>5. Predecessor(key[c]) = line[key[c]][j] /\ pending[key[c]] = line[key[c]][j]
      BY <1>0, <3>2, <3>4, PredecessorIsLast DEF ChainInv
    <3>6. line[key[c]][j] \in awaited'[d]
      BY <1>0, <2>2, <3>2, <3>4, <3>5 DEF TypeOK
    <3> QED
      BY <3>1, <3>3, <3>4, <3>6 DEF Positions, Unfinished
  <2> QED
    BY <2>1, <2>2
<1> QED
  BY <1>2, <1>3, <1>4 DEF IndInv

\* Every step keeps the invariant.
LEMMA StepPreserves == IndInv /\ [Next]_vars => IndInv'
<1> SUFFICES ASSUME IndInv, [Next]_vars PROVE IndInv'
  OBVIOUS
<1>1. CASE \E c \in Calls : Start(c)
  BY <1>1, StartPreserves
<1>2. CASE \E c \in Calls : Settle(c)
  <2>1. \A c \in Calls : key[c] \in Keys
    BY DEF IndInv, TypeOK
  <2> QED
    BY <1>2, <2>1, SettlePreserves
<1>3. CASE \E c \in Calls : Release(c)
  BY <1>3, ReleasePreserves
<1>4. CASE \E c \in Calls, k \in Keys : Run(c, k)
  BY <1>4, RunPreserves
<1>5. CASE \E d \in Drainers : Drain(d)
  BY <1>5, DrainPreserves
<1>6. CASE UNCHANGED vars
  BY <1>6 DEF vars, IndInv, TypeOK, LineInv, ChainInv, DrainInv, Positions, Unfinished
<1> QED
  BY <1>1, <1>2, <1>3, <1>4, <1>5, <1>6 DEF Next

(* Every reachable state satisfies the inductive invariant. *)
THEOREM Invariance == Spec => []IndInv
<1>1. Init => IndInv
  BY InitEstablishes
<1>2. IndInv /\ [Next]_vars => IndInv'
  BY StepPreserves
<1> QED
  BY <1>1, <1>2, PTL DEF Spec

(* The tails of the chains, the links and the lines of keyed-operations.ts stay calls
   of their identities, however calls, settlements, releases and drains follow. *)
THEOREM TypesHold == Spec => []TypeOK
<1>1. IndInv => TypeOK
  BY DEF IndInv
<1> QED
  BY <1>1, Invariance, PTL

(* Of two operations on one identity, keyed-operations.ts never runs both at
   once, whatever the number of identities and of callers. *)
THEOREM OneAtATime == Spec => []MutualExclusion
<1>1. IndInv => MutualExclusion
  BY IndInvImpliesMutualExclusion
<1> QED
  BY <1>1, Invariance, PTL

(* When `drain` returns, nothing asked for before it is still unfinished. *)
THEOREM DrainIsComplete == Spec => []DrainCoversEarlierCalls
<1>1. IndInv => DrainCoversEarlierCalls
  BY IndInvImpliesDrainCovers
<1> QED
  BY <1>1, Invariance, PTL

(* The promise chain implements the abstract first-come-first-served line: each
   step of it is a step of KeyedQueue or changes nothing there. *)
THEOREM ImplementsQueue == Spec => ServedInOrder
<1> DEFINE Serving == {c \in Calls : status[c] = "running"}
<1>1. Init => Queue!Init
  BY DEF Init, Queue!Init
<1>2. IndInv /\ [Next]_vars => [Queue!Next]_(Queue!vars)
  <2> SUFFICES ASSUME IndInv, [Next]_vars PROVE [Queue!Next]_(Queue!vars)
    OBVIOUS
  <2> USE NoCallAssumption
  <2>0. TypeOK
    BY DEF IndInv
  <2>1. ASSUME NEW c \in Calls, NEW k \in Keys, key[c] = k, Start(c) PROVE Queue!Serve(k)
    <3>1. line[key[c]] # <<>> /\ Head(line[key[c]]) = c
      BY <2>1, UnchainedIsHead DEF Start, Unfinished
    <3>2. c \notin Serving /\ Serving' = Serving \union {c}
      BY <2>0, <2>1 DEF Start, TypeOK
    <3> QED
      BY <2>1, <3>1, <3>2 DEF Queue!Serve, Start
  <2>2. ASSUME NEW c \in Calls, NEW k \in Keys, key[c] = k, Settle(c) PROVE Queue!Leave(k)
    <3>1. line[key[c]] # <<>> /\ Head(line[key[c]]) = c
      BY <2>2, RunningIsHead DEF Settle
    <3>2. c \in Serving /\ Serving' = Serving \ {c}
      BY <2>0, <2>2 DEF Settle, TypeOK
    <3> QED
      BY <2>2, <3>1, <3>2 DEF Queue!Leave, Settle
  <2>3. ASSUME NEW c \in Calls, Release(c) PROVE UNCHANGED Queue!vars
    <3>1. Serving' = Serving
      BY <2>0, <2>3 DEF Release, TypeOK
    <3> QED
      BY <2>3, <3>1 DEF Queue!vars, Release
  <2>4. ASSUME NEW c \in Calls, NEW k \in Keys, Run(c, k) PROVE Queue!Ask(k, c)
    <3>1. \A j \in Keys : \A i \in 1..Len(line[j]) : line[j][i] # c
      BY <2>4 DEF IndInv, LineInv, Positions, Unfinished, Run
    <3>2. Serving' = Serving
      BY <2>0, <2>4 DEF Run, TypeOK
    <3> QED
      BY <2>4, <3>1, <3>2 DEF Queue!Ask, Run
  <2>5. ASSUME NEW d \in Drainers, Drain(d) PROVE UNCHANGED Queue!vars
    BY <2>5 DEF Queue!vars, Drain
  <2>6. CASE UNCHANGED vars
    BY <2>6 DEF vars, Queue!vars
  <2>7. \A c \in Calls : key[c] \in Keys
    BY <2>0 DEF TypeOK
  <2>8. (\E k \in Keys : Queue!Serve(k)) => Queue!Next
    BY DEF Queue!Next
  <2>9. (\E k \in Keys : Queue!Leave(k)) => Queue!Next
    BY DEF Queue!Next
  <2>10. (\E k \in Keys : \E c \in Calls : Queue!Ask(k, c)) => Queue!Next
    BY DEF Queue!Next
  <2>11. ASSUME NEW c \in Calls, Start(c) PROVE Queue!Next
    BY <2>1, <2>7, <2>8, <2>11
  <2>12. ASSUME NEW c \in Calls, Settle(c) PROVE Queue!Next
    BY <2>2, <2>7, <2>9, <2>12
  <2>13. ASSUME NEW c \in Calls, NEW k \in Keys, Run(c, k) PROVE Queue!Next
    BY <2>4, <2>10, <2>13
  <2> QED
    BY <2>3, <2>5, <2>6, <2>11, <2>12, <2>13 DEF Next
<1> QED
  BY <1>1, <1>2, Invariance, PTL DEF Spec, ServedInOrder, Queue!Spec
=============================================================================
