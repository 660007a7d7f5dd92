---------------------------- MODULE SchedCoreProofs --------------------------
(***************************************************************************)
(* Every scheduling primitive of SchedCore preserves SchedInv.             *)
(***************************************************************************)
EXTENDS SchedCore, ListProofs

-----------------------------------------------------------------------------
(***************************************************************************)
(* Facts about the queues alone.                                           *)
(***************************************************************************)
QueueFuns == [AllQueues -> Seq(Threads)]
WchanFuns == [Threads -> AllQueues \cup {NoQueue}]

\* Linking a thread that is on no queue at the end of a queue.
LEMMA AppendAgrees ==
    ASSUME NEW tq \in QueueFuns, NEW wchan \in WchanFuns, Agree(tq, wchan),
           NEW q \in AllQueues, NEW t \in Threads, wchan[t] = NoQueue
    PROVE  Agree([tq EXCEPT ![q] = Append(@, t)], [wchan EXCEPT ![t] = q])
<1> DEFINE tn == [tq EXCEPT ![q] = Append(@, t)]
           wn == [wchan EXCEPT ![t] = q]
<1>1. \A p \in AllQueues : \A i \in 1..Len(tn[p]) : wn[tn[p][i]] = p
  BY QueueAssumption DEF Agree, AllQueues, QueueFuns, WchanFuns
<1>2. \A p \in AllQueues : \A i, j \in 1..Len(tn[p]) : tn[p][i] = tn[p][j] => i = j
  BY QueueAssumption DEF Agree, AllQueues, QueueFuns, WchanFuns
<1>3. \A u \in Threads : wn[u] # NoQueue => \E i \in 1..Len(tn[wn[u]]) : tn[wn[u]][i] = u
  BY DEF Agree, QueueFuns, WchanFuns
<1> QED BY <1>1, <1>2, <1>3 DEF Agree

\* Unlinking the first thread of a queue.
LEMMA TailAgrees ==
    ASSUME NEW tq \in QueueFuns, NEW wchan \in WchanFuns, Agree(tq, wchan),
           NEW q \in AllQueues, tq[q] # << >>
    PROVE  /\ Head(tq[q]) \in Threads
           /\ wchan[Head(tq[q])] = q
           /\ [tq EXCEPT ![q] = Tail(@)] \in QueueFuns
           /\ Agree([tq EXCEPT ![q] = Tail(@)], [wchan EXCEPT ![Head(tq[q])] = NoQueue])
<1> DEFINE t == Head(tq[q])
           tn == [tq EXCEPT ![q] = Tail(@)]
           wn == [wchan EXCEPT ![t] = NoQueue]
<1>0. /\ tq[q] \in Seq(Threads) /\ t \in Threads /\ t = tq[q][1] /\ Len(tq[q]) >= 1
      /\ Tail(tq[q]) \in Seq(Threads) /\ Len(Tail(tq[q])) = Len(tq[q]) - 1
      /\ \A i \in 1..Len(Tail(tq[q])) : Tail(tq[q])[i] = tq[q][i + 1]
  BY DEF QueueFuns
<1>a. wchan[t] = q
  BY <1>0 DEF Agree
<1>b. tn \in QueueFuns
  BY <1>0 DEF QueueFuns
<1>1. \A p \in AllQueues : \A i \in 1..Len(tn[p]) : wn[tn[p][i]] = p
  <2> SUFFICES ASSUME NEW p \in AllQueues, NEW i \in 1..Len(tn[p]) PROVE wn[tn[p][i]] = p
    OBVIOUS
  <2>1. CASE p = q
    BY <2>1, <1>0 DEF Agree, QueueFuns, WchanFuns
  <2>2. CASE p # q
    BY <2>2, <1>0, <1>a DEF Agree, QueueFuns, WchanFuns
  <2> QED BY <2>1, <2>2
<1>2. \A p \in AllQueues : \A i, j \in 1..Len(tn[p]) : tn[p][i] = tn[p][j] => i = j
  BY <1>0 DEF Agree, QueueFuns, WchanFuns
<1>3. \A u \in Threads : wn[u] # NoQueue => \E i \in 1..Len(tn[wn[u]]) : tn[wn[u]][i] = u
  <2> SUFFICES ASSUME NEW u \in Threads, wn[u] # NoQueue
               PROVE \E i \in 1..Len(tn[wn[u]]) : tn[wn[u]][i] = u
    OBVIOUS
  <2>1. u # t /\ wn[u] = wchan[u]
    BY <1>0 DEF WchanFuns
  <2>2. PICK k \in 1..Len(tq[wchan[u]]) : tq[wchan[u]][k] = u
    BY <2>1 DEF Agree
  <2>3. CASE wchan[u] = q
    <3>1. k # 1 /\ k - 1 \in 1..Len(Tail(tq[q]))
      BY <2>1, <2>2, <2>3, <1>0
    <3>2. tn[wn[u]][k - 1] = u
      BY <3>1, <2>1, <2>2, <2>3, <1>0 DEF QueueFuns
    <3> QED BY <3>1, <3>2, <2>1, <2>3, <1>0 DEF QueueFuns
  <2>4. CASE wchan[u] # q
    BY <2>1, <2>2, <2>4 DEF QueueFuns, WchanFuns
  <2> QED BY <2>3, <2>4
<1> QED BY Zenon, <1>0, <1>a, <1>b, <1>1, <1>2, <1>3 DEF Agree

\* Unlinking a thread from the middle of its queue.
LEMMA RemoveAgrees ==
    ASSUME NEW tq \in QueueFuns, NEW wchan \in WchanFuns, Agree(tq, wchan),
           NEW t \in Threads, wchan[t] # NoQueue
    PROVE  /\ [tq EXCEPT ![wchan[t]] = list_remove(@, t)] \in QueueFuns
           /\ Agree([tq EXCEPT ![wchan[t]] = list_remove(@, t)], [wchan EXCEPT ![t] = NoQueue])
<1> DEFINE q == wchan[t]
           old == tq[q]
           new == list_remove(old, t)
           tn == [tq EXCEPT ![q] = new]
           wn == [wchan EXCEPT ![t] = NoQueue]
<1>0. q \in AllQueues /\ old \in Seq(Threads)
  BY DEF QueueFuns, WchanFuns
<1>1. \E i \in 1..Len(old) : old[i] = t
  BY DEF Agree
<1> HIDE DEF q, old
<1>w. TakenOut(Threads, old, new, t)
  BY <1>0, <1>1, RemovePlaces, Zenon
<1> HIDE DEF new
<1>2. PICK k \in 1..Len(old) :
          /\ old[k] = t
          /\ \A i \in 1..Len(old) - 1 : new[i] = IF i < k THEN old[i] ELSE old[i + 1]
  BY <1>w DEF TakenOut
<1>4. /\ new \in Seq(Threads)
      /\ Len(new) = Len(old) - 1
      /\ \A i \in 1..Len(new) : new[i] = IF i < k THEN old[i] ELSE old[i + 1]
  BY <1>w, <1>2 DEF TakenOut
<1> USE DEF q, old
<1>5. tn \in QueueFuns
  BY <1>0, <1>4 DEF QueueFuns
<1>6. \A p \in AllQueues : \A i \in 1..Len(tn[p]) : wn[tn[p][i]] = p
  <2> SUFFICES ASSUME NEW p \in AllQueues, NEW i \in 1..Len(tn[p]) PROVE wn[tn[p][i]] = p
    OBVIOUS
  <2>1. CASE p = q
    <3>1. i \in 1..Len(new) /\ tn[p][i] = new[i]
      BY <2>1, <1>0 DEF QueueFuns
    <3>2. PICK j \in 1..Len(old) : new[i] = old[j] /\ j # k
      <4>1. Len(old) \in Nat /\ Len(new) = Len(old) - 1 /\ i \in 1..Len(new)
        BY <3>1, <1>4, <1>0
      <4>2. CASE i < k
        <5>1. i \in 1..Len(old) /\ i # k
          BY <4>1, <4>2, <1>2
        <5> QED BY <5>1, <4>1, <4>2, <1>4
      <4>3. CASE ~ (i < k)
        <5>1. i + 1 \in 1..Len(old) /\ i + 1 # k
          BY <4>1, <4>3, <1>2
        <5> QED BY <5>1, <4>1, <4>3, <1>4
      <4> QED BY <4>2, <4>3
    <3>3. old[j] # t /\ old[j] \in Threads /\ wchan[old[j]] = q
      BY <3>2, <1>0, <1>2 DEF Agree
    <3> QED BY <3>1, <3>2, <3>3, <2>1 DEF WchanFuns
  <2>2. CASE p # q
    BY <2>2, <1>0 DEF Agree, QueueFuns, WchanFuns
  <2> QED BY <2>1, <2>2
<1>7. \A p \in AllQueues : \A i, j \in 1..Len(tn[p]) : tn[p][i] = tn[p][j] => i = j
  <2> SUFFICES ASSUME NEW p \in AllQueues, NEW i \in 1..Len(tn[p]), NEW j \in 1..Len(tn[p]),
                      tn[p][i] = tn[p][j]
               PROVE  i = j
    OBVIOUS
  <2>1. CASE p = q
    <3>1. /\ i \in 1..Len(new) /\ j \in 1..Len(new) /\ new[i] = new[j]
      BY <2>1, <1>0 DEF QueueFuns
    <3>2. \A a, b \in 1..Len(old) : old[a] = old[b] => a = b
      BY <1>0 DEF Agree
    <3> QED BY <3>1, <3>2, <1>0, <1>2, <1>4
  <2>2. CASE p # q
    BY <2>2, <1>0 DEF Agree, QueueFuns
  <2> QED BY <2>1, <2>2
<1>8. \A u \in Threads : wn[u] # NoQueue => \E i \in 1..Len(tn[wn[u]]) : tn[wn[u]][i] = u
  <2> SUFFICES ASSUME NEW u \in Threads, wn[u] # NoQueue
               PROVE \E i \in 1..Len(tn[wn[u]]) : tn[wn[u]][i] = u
    OBVIOUS
  <2>1. u # t /\ wn[u] = wchan[u]
    BY DEF WchanFuns
  <2>2. PICK j \in 1..Len(tq[wchan[u]]) : tq[wchan[u]][j] = u
    BY <2>1 DEF Agree
  <2>3. CASE wchan[u] = q
    <3>1. j # k /\ j \in 1..Len(old)
      BY <2>1, <2>2, <2>3, <1>2
    <3>2. PICK i \in 1..Len(new) : new[i] = old[j]
      <4>1. CASE j < k
        BY <4>1, <3>1, <1>0, <1>2, <1>4
      <4>2. CASE j > k
        <5>1. j - 1 \in 1..Len(new) /\ new[j - 1] = old[j]
          BY <4>2, <3>1, <1>0, <1>2, <1>4
        <5> QED BY <5>1
      <4> QED BY <3>1, <1>0, <1>2, <4>1, <4>2
    <3> QED BY <3>2, <2>1, <2>2, <2>3, <1>0 DEF QueueFuns
  <2>4. CASE wchan[u] # q
    BY <2>1, <2>2, <2>4 DEF QueueFuns, WchanFuns
  <2> QED BY <2>3, <2>4
<1> QED BY <1>5, <1>6, <1>7, <1>8 DEF Agree, new

\* Moving a whole wait queue to the end of kt_runq.
LEMMA BroadcastAgrees ==
    ASSUME NEW tq \in QueueFuns, NEW wchan \in WchanFuns, Agree(tq, wchan), NEW q \in Queues
    PROVE  LET tn == [tq EXCEPT ![RunQ] = @ \o tq[q], ![q] = << >>]
               wn == [t \in Threads |-> IF wchan[t] = q THEN RunQ ELSE wchan[t]]
           IN  tn \in QueueFuns /\ wn \in WchanFuns /\ Agree(tn, wn)
<1> DEFINE tn == [tq EXCEPT ![RunQ] = @ \o tq[q], ![q] = << >>]
           wn == [t \in Threads |-> IF wchan[t] = q THEN RunQ ELSE wchan[t]]
           run == tq[RunQ]
           w == tq[q]
           all == run \o w
<1>0. q \in AllQueues /\ RunQ \in AllQueues /\ q # RunQ /\ run \in Seq(Threads) /\ w \in Seq(Threads)
  BY QueueAssumption DEF AllQueues, QueueFuns
<1>1. /\ all \in Seq(Threads)
      /\ \A i \in 1..Len(run) : i \in 1..Len(all) /\ all[i] = run[i]
      /\ \A i \in 1..Len(w) : Len(run) + i \in 1..Len(all) /\ all[Len(run) + i] = w[i]
      /\ \A i \in 1..Len(all) : i \in 1..Len(run) \/ \E j \in 1..Len(w) : i = Len(run) + j
  <2> HIDE DEF run, w
  <2> QED BY <1>0, ConcatPlaces, ZenonT(60)
<1>t. tn = [tq EXCEPT ![RunQ] = all, ![q] = << >>]
  OBVIOUS
<1> HIDE DEF all, tn
<1>2. /\ tn \in QueueFuns /\ tn[RunQ] = all /\ tn[q] = << >>
      /\ \A p \in AllQueues : p # RunQ /\ p # q => tn[p] = tq[p]
  BY SMTT(30), <1>0, <1>1, <1>t DEF QueueFuns
<1>3. wn \in WchanFuns
  BY <1>0 DEF WchanFuns
<1>4. \A p \in AllQueues : \A i \in 1..Len(tn[p]) : wn[tn[p][i]] = p
  <2> SUFFICES ASSUME NEW p \in AllQueues, NEW i \in 1..Len(tn[p]) PROVE wn[tn[p][i]] = p
    BY Zenon
  <2>1. CASE p = RunQ
    <3>1. CASE i \in 1..Len(run)
      <4>1. tn[p][i] = run[i] /\ run[i] \in Threads /\ wchan[run[i]] = RunQ
        BY <2>1, <3>1, <1>0, <1>1, <1>2 DEF Agree
      <4> QED BY <4>1, <2>1, <1>0
    <3>2. ASSUME NEW j \in 1..Len(w), i = Len(run) + j PROVE wn[tn[p][i]] = p
      <4>1. tn[p][i] = w[j] /\ w[j] \in Threads /\ wchan[w[j]] = q
        BY <2>1, <3>2, <1>0, <1>1, <1>2 DEF Agree
      <4> QED BY <4>1, <2>1
    <3> QED BY Zenon, <3>1, <3>2, <2>1, <1>1, <1>2
  <2>2. CASE p = q
    BY <2>2, <1>2
  <2>3. CASE p # RunQ /\ p # q
    BY <2>3, <1>0, <1>2 DEF Agree, QueueFuns
  <2> QED BY <2>1, <2>2, <2>3
<1>5. \A p \in AllQueues : \A i, j \in 1..Len(tn[p]) : tn[p][i] = tn[p][j] => i = j
  <2> SUFFICES ASSUME NEW p \in AllQueues, NEW i \in 1..Len(tn[p]), NEW j \in 1..Len(tn[p]),
                      tn[p][i] = tn[p][j]
               PROVE  i = j
    OBVIOUS
  <2>1. CASE p = RunQ
    <3>1. \A a \in 1..Len(run) : wchan[run[a]] = RunQ
      BY <1>0 DEF Agree
    <3>2. \A a \in 1..Len(w) : wchan[w[a]] = q
      BY <1>0 DEF Agree
    <3>3. \A a, b \in 1..Len(run) : run[a] = run[b] => a = b
      BY <1>0 DEF Agree
    <3>4. \A a, b \in 1..Len(w) : w[a] = w[b] => a = b
      BY <1>0 DEF Agree
    <3>5. i \in 1..Len(all) /\ j \in 1..Len(all) /\ all[i] = all[j]
      BY <2>1, <1>1, <1>2
    <3> HIDE DEF run, w
    <3>6. CASE i \in 1..Len(run) /\ j \in 1..Len(run)
      BY <3>3, <3>5, <3>6, <1>1
    <3>7. CASE i \in 1..Len(run) /\ j \notin 1..Len(run)
      <4>1. PICK b \in 1..Len(w) : j = Len(run) + b
        BY <3>5, <3>7, <1>1
      <4>2. run[i] = w[b]
        BY SMTT(30), <3>5, <3>7, <4>1, <1>1
      <4> QED BY <3>1, <3>2, <3>7, <4>2, <1>0
    <3>8. CASE i \notin 1..Len(run) /\ j \in 1..Len(run)
      <4>1. PICK a \in 1..Len(w) : i = Len(run) + a
        BY <3>5, <3>8, <1>1
      <4>2. w[a] = run[j]
        BY Zenon, <3>5, <3>8, <4>1, <1>1
      <4> QED BY <3>1, <3>2, <3>8, <4>2, <1>0
    <3>9. CASE i \notin 1..Len(run) /\ j \notin 1..Len(run)
      <4>1. PICK a \in 1..Len(w) : i = Len(run) + a
        BY <3>5, <3>9, <1>1
      <4>2. PICK b \in 1..Len(w) : j = Len(run) + b
        BY <3>5, <3>9, <1>1
      <4>3. w[a] = w[b]
        BY <3>5, <4>1, <4>2, <1>1
      <4> QED BY <3>4, <4>1, <4>2, <4>3
    <3> QED BY <3>6, <3>7, <3>8, <3>9
  <2>2. CASE p = q
    BY <2>2, <1>2
  <2>3. CASE p # RunQ /\ p # q
    BY <2>3, <1>2 DEF Agree
  <2> QED BY <2>1, <2>2, <2>3
<1>6. \A u \in Threads : wn[u] # NoQueue => \E i \in 1..Len(tn[wn[u]]) : tn[wn[u]][i] = u
  <2> SUFFICES ASSUME NEW u \in Threads, wn[u] # NoQueue
               PROVE \E i \in 1..Len(tn[wn[u]]) : tn[wn[u]][i] = u
    OBVIOUS
  <2>1. wchan[u] # NoQueue
    BY QueueAssumption DEF AllQueues
  <2>2. PICK j \in 1..Len(tq[wchan[u]]) : tq[wchan[u]][j] = u
    BY <2>1 DEF Agree
  <2>3. CASE wchan[u] = q
    <3>1. wn[u] = RunQ /\ Len(run) + j \in 1..Len(all) /\ all[Len(run) + j] = u
      BY <2>2, <2>3, <1>0, <1>1
    <3> QED BY <3>1, <1>2
  <2>4. CASE wchan[u] = RunQ
    <3>1. wn[u] = RunQ /\ j \in 1..Len(all) /\ all[j] = u
      BY <2>2, <2>4, <1>0, <1>1
    <3> QED BY <3>1, <1>2
  <2>5. CASE wchan[u] # q /\ wchan[u] # RunQ
    BY <2>1, <2>2, <2>5, <1>2 DEF WchanFuns
  <2> QED BY <2>3, <2>4, <2>5
<1> QED BY Zenon, <1>2, <1>3, <1>4, <1>5, <1>6 DEF Agree, tn
-----------------------------------------------------------------------------
(***************************************************************************)
(* The primitives.  Each proof computes the fields of the new state, takes *)
(* the agreement of the queues from the lemmas above, and is left with     *)
(* facts about functions on threads.                                       *)
(***************************************************************************)
\* The types of the fields of a scheduler state.
LEMMA FieldTypes ==
    ASSUME NEW s \in SchedStates
    PROVE  /\ s.kt_state \in [Threads -> ThreadStates]
           /\ s.kt_wchan \in WchanFuns
           /\ s.kt_cancelled \in [Threads -> BOOLEAN]
           /\ s.tq_list \in QueueFuns
           /\ s.curthr \in Threads
           /\ s.cpu \in CpuStations
           /\ s.ipl \in {IPL_LOW, IPL_HIGH}
           /\ s.original_ipl \in [Threads -> {IPL_LOW, IPL_HIGH, Unstarted}]
           /\ s.asserts \in BOOLEAN
  BY DEF SchedStates, QueueFuns, WchanFuns

\* n differs from s only in fields of threads and in the queues.
SameCpu(s, n) ==
    /\ n.curthr = s.curthr
    /\ n.cpu = s.cpu
    /\ n.ipl = s.ipl
    /\ n.original_ipl = s.original_ipl

\* What ktqueue_enqueue does to the fields.
Enqueued(s, n, q, t) ==
    /\ n \in SchedStates
    /\ n.kt_wchan = [s.kt_wchan EXCEPT ![t] = q]
    /\ n.tq_list = [s.tq_list EXCEPT ![q] = Append(@, t)]
    /\ n.kt_state = s.kt_state
    /\ n.kt_cancelled = s.kt_cancelled
    /\ SameCpu(s, n)
    /\ s.asserts /\ s.kt_wchan[t] = NoQueue => n.asserts

\* What ktqueue_enqueue does to the fields that the invariant speaks of.
LEMMA EnqueueFields ==
    ASSUME NEW s \in SchedStates, NEW t \in Threads, NEW q \in AllQueues
    PROVE  Enqueued(s, ktqueue_enqueue(s, q, t), q, t)
<1> DEFINE b == s.asserts /\ s.kt_wchan[t] = NoQueue
           tq == [s.tq_list EXCEPT ![q] = Append(@, t)]
           wchan == [s.kt_wchan EXCEPT ![t] = q]
           n == ktqueue_enqueue(s, q, t)
<1>1. b \in BOOLEAN
  BY DEF SchedStates
<1>2. tq \in [AllQueues -> Seq(Threads)] /\ wchan \in [Threads -> AllQueues \cup {NoQueue}]
  BY DEF SchedStates
<1>3. n = [s EXCEPT !.asserts = b, !.tq_list = tq, !.kt_wchan = wchan]
  BY DEF ktqueue_enqueue
<1> HIDE DEF b, tq, wchan, n
<1>4. n \in SchedStates
  BY Zenon, <1>1, <1>2, <1>3 DEF SchedStates
<1>5. /\ n.kt_wchan = wchan
      /\ n.tq_list = tq
      /\ n.kt_state = s.kt_state
      /\ n.kt_cancelled = s.kt_cancelled
      /\ SameCpu(s, n)
      /\ n.asserts = b
  BY <1>3 DEF SchedStates, SameCpu
<1>6. Enqueued(s, n, q, t)
  BY <1>4, <1>5, Zenon DEF b, tq, wchan, Enqueued
<1> QED BY <1>6 DEF n

\* What sched_make_runnable does to the fields.
MadeRunnable(s, n, t) ==
    /\ n \in SchedStates
    /\ n.kt_state = [s.kt_state EXCEPT ![t] = KT_RUN]
    /\ n.kt_wchan = [s.kt_wchan EXCEPT ![t] = RunQ]
    /\ n.tq_list = [s.tq_list EXCEPT ![RunQ] = Append(@, t)]
    /\ n.kt_cancelled = s.kt_cancelled
    /\ SameCpu(s, n)
    /\ s.asserts /\ s.kt_wchan[t] = NoQueue => n.asserts

\* What sched_make_runnable does to them.
LEMMA MakeRunnableFields ==
    ASSUME NEW s \in SchedStates, NEW t \in Threads
    PROVE  MadeRunnable(s, sched_make_runnable(s, t), t)
<1> DEFINE m == [s EXCEPT !.asserts = @ /\ s.kt_wchan[t] # RunQ, !.kt_state[t] = KT_RUN]
           n == sched_make_runnable(s, t)
<1>1. m \in SchedStates
  BY Zenon DEF SchedStates, ThreadStates
<1>2. /\ m.kt_state = [s.kt_state EXCEPT ![t] = KT_RUN]
      /\ m.kt_wchan = s.kt_wchan
      /\ m.tq_list = s.tq_list
      /\ m.kt_cancelled = s.kt_cancelled
      /\ SameCpu(s, m)
      /\ m.asserts = (s.asserts /\ s.kt_wchan[t] # RunQ)
  BY DEF SchedStates, SameCpu
<1>3. n = ktqueue_enqueue(m, RunQ, t)
  BY DEF sched_make_runnable
<1>4. RunQ \in AllQueues /\ RunQ # NoQueue
  BY QueueAssumption DEF AllQueues
<1> HIDE DEF m, n
<1>5. Enqueued(m, n, RunQ, t)
  BY <1>1, <1>3, <1>4, EnqueueFields, Zenon
<1>6. s.asserts /\ s.kt_wchan[t] = NoQueue => n.asserts
  BY <1>2, <1>4, <1>5, Zenon DEF Enqueued
<1>7. SameCpu(s, n)
  BY <1>2, <1>5 DEF Enqueued, SameCpu
<1>8. MadeRunnable(s, n, t)
  BY <1>2, <1>5, <1>6, <1>7, Zenon DEF Enqueued, MadeRunnable
<1> QED BY <1>8 DEF n
-----------------------------------------------------------------------------
(***************************************************************************)
(* The primitives preserve SchedInv.                                       *)
(***************************************************************************)
\* The queues after sched_make_runnable of a thread that was on none.
LEMMA MadeRunnableQueues ==
    ASSUME NEW s \in SchedStates, NEW n, NEW t \in Threads,
           QueueAgreement(s), s.asserts, s.kt_wchan[t] = NoQueue, MadeRunnable(s, n, t)
    PROVE  n.asserts /\ QueueAgreement(n)
<1>1. RunQ \in AllQueues
  BY DEF AllQueues
<1>2. s.tq_list \in QueueFuns /\ s.kt_wchan \in WchanFuns
  BY FieldTypes, Zenon
<1>3. Agree([s.tq_list EXCEPT ![RunQ] = Append(@, t)], [s.kt_wchan EXCEPT ![t] = RunQ])
  BY <1>1, <1>2, AppendAgrees DEF QueueAgreement
<1> QED BY <1>3, Zenon DEF MadeRunnable, QueueAgreement

\* The first sched_make_runnable of a new thread.
LEMMA StartInv ==
    ASSUME NEW s, SchedInv(s), NEW t \in Threads, t # s.curthr,
           s.kt_state[t] = KT_RUN, s.kt_wchan[t] = NoQueue
    PROVE  SchedInv(sched_make_runnable(s, t))
<1> DEFINE n == sched_make_runnable(s, t)
<1>0. s \in SchedStates
  BY DEF SchedInv
<1>1. MadeRunnable(s, n, t)
  BY <1>0, MakeRunnableFields, Zenon
<1> HIDE DEF n
<1>2. n.asserts /\ QueueAgreement(n)
  BY <1>0, <1>1, MadeRunnableQueues, Zenon DEF SchedInv
<1>3. RightQueue(n)
  BY <1>0, <1>1, QueueAssumption DEF SchedInv, RightQueue, MadeRunnable, SchedStates
<1>4. NoneLost(n)
  BY <1>0, <1>1, QueueAssumption DEF SchedInv, NoneLost, MadeRunnable, SameCpu, SchedStates
<1>5. CurrentThread(n)
  BY <1>0, <1>1, QueueAssumption DEF SchedInv, CurrentThread, MadeRunnable, SameCpu, SchedStates
<1>6. MaskedWhileDequeuing(n)
  BY <1>0, <1>1 DEF SchedInv, MaskedWhileDequeuing, MadeRunnable, SameCpu
<1>7. SchedInv(n)
  BY <1>1, <1>2, <1>3, <1>4, <1>5, <1>6, Zenon DEF SchedInv, MadeRunnable
<1> QED BY <1>7 DEF n

\* What sched_wakeup_on of a non-empty queue does to the fields, t being the
\* thread at its head.
Woken(s, n, q, t) ==
    /\ n \in SchedStates
    /\ n.kt_state = [s.kt_state EXCEPT ![t] = KT_RUN]
    /\ n.kt_wchan = [s.kt_wchan EXCEPT ![t] = RunQ]
    /\ n.tq_list = [s.tq_list EXCEPT ![q] = Tail(@), ![RunQ] = Append(@, t)]
    /\ n.kt_cancelled = s.kt_cancelled
    /\ SameCpu(s, n)
    /\ n.asserts
    /\ QueueAgreement(n)

\* What sched_wakeup_on does to them.
LEMMA WakeupFields ==
    ASSUME NEW s, SchedInv(s), NEW q \in Queues, ~ sched_queue_empty(s, q)
    PROVE  /\ Head(s.tq_list[q]) \in Threads
           /\ s.kt_wchan[Head(s.tq_list[q])] = q
           /\ Woken(s, sched_wakeup_on(s, q), q, Head(s.tq_list[q]))
<1> DEFINE t == Head(s.tq_list[q])
           b == s.asserts /\ s.kt_state[t] \in Sleeping
           tq == [s.tq_list EXCEPT ![q] = Tail(@)]
           wchan == [s.kt_wchan EXCEPT ![t] = NoQueue]
           state == [s.kt_state EXCEPT ![t] = KT_RUN]
           m == [ktqueue_dequeue(s, q) EXCEPT
                    !.asserts = @ /\ s.kt_state[t] \in Sleeping,
                    !.kt_state[t] = KT_RUN]
           n == sched_wakeup_on(s, q)
<1>0. s \in SchedStates /\ QueueAgreement(s) /\ s.asserts /\ RightQueue(s)
  BY Zenon DEF SchedInv
<1>1. s.tq_list \in QueueFuns /\ s.kt_wchan \in WchanFuns /\ q \in AllQueues /\ q # RunQ
  BY <1>0, FieldTypes, QueueAssumption DEF AllQueues
<1>2. t \in Threads /\ s.kt_wchan[t] = q /\ tq \in QueueFuns /\ Agree(tq, wchan)
  BY Zenon, <1>0, <1>1, TailAgrees DEF QueueAgreement, sched_queue_empty
<1>3. b \in BOOLEAN /\ b
  BY <1>0, <1>2 DEF RightQueue
<1>4. n = sched_make_runnable(m, t)
  BY DEF sched_wakeup_on
<1>5. m = [s EXCEPT !.tq_list = tq, !.kt_wchan = wchan, !.asserts = b, !.kt_state = state]
  BY Zenon, <1>0 DEF ktqueue_dequeue, SchedStates
<1>6. /\ wchan \in [Threads -> AllQueues \cup {NoQueue}]
      /\ state \in [Threads -> ThreadStates]
      /\ tq \in [AllQueues -> Seq(Threads)]
  BY <1>0, <1>2 DEF SchedStates, ThreadStates, QueueFuns
<1>7. wchan[t] = NoQueue
  BY <1>0, <1>2 DEF SchedStates
<1> HIDE DEF t, b, tq, wchan, state, m, n
<1>8. m \in SchedStates
  BY Zenon, <1>0, <1>3, <1>5, <1>6 DEF SchedStates
<1>9. /\ m.tq_list = tq
      /\ m.kt_wchan = wchan
      /\ m.kt_state = state
      /\ m.kt_cancelled = s.kt_cancelled
      /\ SameCpu(s, m)
      /\ m.asserts = b
  BY <1>0, <1>5 DEF SchedStates, SameCpu
<1>10. MadeRunnable(m, n, t)
  BY <1>2, <1>4, <1>8, MakeRunnableFields, Zenon
<1>11. QueueAgreement(m) /\ m.asserts /\ m.kt_wchan[t] = NoQueue
  BY <1>2, <1>3, <1>7, <1>9, Zenon DEF QueueAgreement
<1>12. n.asserts /\ QueueAgreement(n)
  BY <1>2, <1>8, <1>10, <1>11, MadeRunnableQueues, Zenon
<1>13. SameCpu(s, n)
  BY <1>9, <1>10 DEF MadeRunnable, SameCpu
<1>14. /\ n.kt_state = [s.kt_state EXCEPT ![t] = KT_RUN]
       /\ n.kt_wchan = [s.kt_wchan EXCEPT ![t] = RunQ]
  <2>1. n.kt_state = [state EXCEPT ![t] = KT_RUN] /\ n.kt_wchan = [wchan EXCEPT ![t] = RunQ]
    BY <1>9, <1>10, Zenon DEF MadeRunnable
  <2>2. s.kt_state \in [Threads -> ThreadStates] /\ s.kt_wchan \in WchanFuns
    BY <1>0, FieldTypes, Zenon
  <2>3. [state EXCEPT ![t] = KT_RUN] = [s.kt_state EXCEPT ![t] = KT_RUN]
    BY <2>2, <1>2 DEF state
  <2>4. [wchan EXCEPT ![t] = RunQ] = [s.kt_wchan EXCEPT ![t] = RunQ]
    BY <2>2, <1>2 DEF wchan, WchanFuns
  <2> QED BY <2>1, <2>3, <2>4
<1>15. n.tq_list = [s.tq_list EXCEPT ![q] = Tail(@), ![RunQ] = Append(@, t)]
  BY Zenon, <1>0, <1>1, <1>9, <1>10 DEF MadeRunnable, tq, QueueFuns, AllQueues
<1>16. Woken(s, n, q, t)
  BY <1>9, <1>10, <1>12, <1>13, <1>14, <1>15, Zenon DEF Woken, MadeRunnable
<1> QED BY <1>2, <1>16 DEF t, n

\* sched_wakeup_on, from a thread or from an interrupt handler.
LEMMA WakeupInv ==
    ASSUME NEW s, SchedInv(s), NEW q \in Queues
    PROVE  SchedInv(sched_wakeup_on(s, q)) /\ SameCpu(s, sched_wakeup_on(s, q))
<1>1. CASE sched_queue_empty(s, q)
  BY <1>1 DEF sched_wakeup_on, SameCpu
<1>2. CASE ~ sched_queue_empty(s, q)
  <2> DEFINE t == Head(s.tq_list[q])
             n == sched_wakeup_on(s, q)
  <2>0. s \in SchedStates
    BY DEF SchedInv
  <2>1. t \in Threads /\ s.kt_wchan[t] = q /\ Woken(s, n, q, t)
    BY <1>2, WakeupFields, Zenon
  <2> HIDE DEF t, n
  <2>3. RightQueue(n)
    BY <2>0, <2>1, QueueAssumption DEF SchedInv, RightQueue, Woken, SchedStates
  <2>4. NoneLost(n)
    BY <2>0, <2>1, QueueAssumption DEF SchedInv, NoneLost, Woken, SameCpu, SchedStates
  <2>5. CurrentThread(n)
    BY <2>0, <2>1, QueueAssumption DEF SchedInv, CurrentThread, Woken, SameCpu, SchedStates
  <2>6. MaskedWhileDequeuing(n)
    BY <2>0, <2>1 DEF SchedInv, MaskedWhileDequeuing, Woken, SameCpu
  <2>7. SchedInv(n) /\ SameCpu(s, n)
    BY <2>1, <2>3, <2>4, <2>5, <2>6, Zenon DEF SchedInv, Woken
  <2> QED BY <2>7 DEF n
<1> QED BY <1>1, <1>2

\* kthread_create takes a free kthread_t.
LEMMA CreateInv ==
    ASSUME NEW s, SchedInv(s), NEW t \in Threads, s.kt_state[t] = KT_NO_STATE
    PROVE  LET n == kthread_create(s, t)
           IN  SchedInv(n) /\ t # n.curthr /\ n.kt_state[t] = KT_RUN /\ n.kt_wchan[t] = NoQueue
<1> DEFINE n == kthread_create(s, t)
           state == [s.kt_state EXCEPT ![t] = KT_RUN]
           wchan == [s.kt_wchan EXCEPT ![t] = NoQueue]
           cancelled == [s.kt_cancelled EXCEPT ![t] = FALSE]
           original == [s.original_ipl EXCEPT ![t] = Unstarted]
<1>0. s \in SchedStates /\ s.asserts /\ QueueAgreement(s)
  BY Zenon DEF SchedInv
<1>1. n = [s EXCEPT !.kt_state = state, !.kt_wchan = wchan,
                    !.kt_cancelled = cancelled, !.original_ipl = original]
  BY <1>0 DEF kthread_create, SchedStates
<1>2. /\ state \in [Threads -> ThreadStates]
      /\ wchan \in [Threads -> AllQueues \cup {NoQueue}]
      /\ cancelled \in [Threads -> BOOLEAN]
      /\ original \in [Threads -> {IPL_LOW, IPL_HIGH, Unstarted}]
  BY <1>0 DEF SchedStates, ThreadStates
<1>3. s.kt_wchan[t] = NoQueue
  BY <1>0 DEF SchedInv, RightQueue, SchedStates, AllQueues, Sleeping,
         KT_NO_STATE, KT_RUN, KT_SLEEP, KT_SLEEP_CANCELLABLE
<1>4. t # s.curthr
  BY <1>0, <1>3 DEF SchedInv, CurrentThread,
         KT_NO_STATE, KT_RUN, KT_SLEEP_CANCELLABLE, KT_EXITED
<1>5. wchan = s.kt_wchan
  BY <1>0, <1>3 DEF SchedStates
<1> HIDE DEF n, state, wchan, cancelled, original
<1>6. n \in SchedStates
  BY Zenon, <1>0, <1>1, <1>2 DEF SchedStates
<1>7. /\ n.kt_state = state
      /\ n.kt_wchan = s.kt_wchan
      /\ n.tq_list = s.tq_list
      /\ n.original_ipl = original
      /\ n.curthr = s.curthr
      /\ n.cpu = s.cpu
      /\ n.ipl = s.ipl
      /\ n.asserts = s.asserts
  BY Zenon, <1>0, <1>1, <1>5 DEF SchedStates
<1>8. n.asserts /\ QueueAgreement(n)
  BY <1>0, <1>7, Zenon DEF QueueAgreement
<1>9. RightQueue(n)
  BY <1>0, <1>3, <1>7, QueueAssumption DEF SchedInv, RightQueue, SchedStates, state
<1>10. NoneLost(n)
  BY <1>0, <1>3, <1>7 DEF SchedInv, NoneLost, SchedStates, state, original
<1>11. CurrentThread(n)
  BY <1>0, <1>4, <1>7 DEF SchedInv, CurrentThread, SchedStates, state
<1>12. MaskedWhileDequeuing(n)
  BY <1>0, <1>4, <1>7 DEF SchedInv, MaskedWhileDequeuing, SchedStates, original
<1>13. SchedInv(n)
  BY <1>6, <1>8, <1>9, <1>10, <1>11, <1>12, Zenon DEF SchedInv
<1>14. t # n.curthr /\ n.kt_state[t] = KT_RUN /\ n.kt_wchan[t] = NoQueue
  BY <1>0, <1>3, <1>4, <1>7 DEF state, SchedStates
<1> QED BY <1>13, <1>14 DEF n

\* The current thread goes to sleep in state st.
LEMMA SleepInState ==
    ASSUME NEW s, SchedInv(s), s.cpu = "run", NEW q \in Queues, NEW st \in Sleeping
    PROVE  SchedInv(call_switch(
               ktqueue_enqueue([s EXCEPT !.kt_state[s.curthr] = st], q, s.curthr)))
<1> DEFINE t == s.curthr
           state == [s.kt_state EXCEPT ![t] = st]
           m == [s EXCEPT !.kt_state[t] = st]
           e == ktqueue_enqueue(m, q, t)
           n == call_switch(e)
<1>0. s \in SchedStates /\ s.asserts /\ QueueAgreement(s)
  BY Zenon DEF SchedInv
<1>1. t \in Threads /\ s.kt_wchan[t] = NoQueue
  BY <1>0 DEF SchedInv, CurrentThread, SchedStates
<1>2. m \in SchedStates
  BY Zenon, <1>0 DEF SchedStates, ThreadStates, Sleeping
<1>3. /\ m.kt_state = state
      /\ m.kt_wchan = s.kt_wchan
      /\ m.tq_list = s.tq_list
      /\ SameCpu(s, m)
      /\ m.asserts = s.asserts
  BY Zenon, <1>0 DEF SchedStates, SameCpu
<1>4. q \in AllQueues /\ q # RunQ /\ q # NoQueue
  BY QueueAssumption DEF AllQueues
<1>5. e.asserts /\ Enqueued(m, e, q, t)
  <2> HIDE DEF m
  <2>1. Enqueued(m, e, q, t)
    BY <1>1, <1>2, <1>4, EnqueueFields, Zenon
  <2> QED BY <2>1, <1>0, <1>1, <1>3, Zenon DEF Enqueued
<1>6. s.tq_list \in QueueFuns /\ s.kt_wchan \in WchanFuns
  BY <1>0, FieldTypes, Zenon
<1>7. Agree([s.tq_list EXCEPT ![q] = Append(@, t)], [s.kt_wchan EXCEPT ![t] = q])
  BY Zenon, <1>0, <1>1, <1>4, <1>6, AppendAgrees DEF QueueAgreement
<1>8. QueueAgreement(e)
  BY <1>3, <1>5, <1>7, Zenon DEF Enqueued, QueueAgreement
<1>9. n = [e EXCEPT !.cpu = "enter"]
  BY DEF call_switch
<1> HIDE DEF m, e, n, t
<1>10. n \in SchedStates
  BY Zenon, <1>5, <1>9 DEF Enqueued, SchedStates, CpuStations
<1>11. /\ n.kt_state = e.kt_state
       /\ n.kt_wchan = e.kt_wchan
       /\ n.tq_list = e.tq_list
       /\ n.original_ipl = e.original_ipl
       /\ n.curthr = e.curthr
       /\ n.cpu = "enter"
       /\ n.asserts = e.asserts
  BY Zenon, <1>5, <1>9 DEF Enqueued, SchedStates
<1>12. /\ n.kt_state = state
       /\ n.kt_wchan = [s.kt_wchan EXCEPT ![t] = q]
       /\ n.original_ipl = s.original_ipl
       /\ n.curthr = s.curthr
  BY <1>3, <1>5, <1>11, Zenon DEF Enqueued, SameCpu
<1> HIDE DEF state
<1>13. n.asserts /\ QueueAgreement(n)
  BY <1>5, <1>8, <1>11, Zenon DEF QueueAgreement
<1>14. RightQueue(n)
  BY <1>0, <1>1, <1>4, <1>12 DEF SchedInv, RightQueue, SchedStates, state
<1>15. NoneLost(n)
  BY <1>0, <1>1, <1>4, <1>12 DEF SchedInv, NoneLost, SchedStates, state, t
<1>16. CurrentThread(n)
  BY <1>0, <1>1, <1>4, <1>11, <1>12 DEF CurrentThread, SchedStates, t
<1>17. MaskedWhileDequeuing(n)
  BY <1>11 DEF MaskedWhileDequeuing
<1>18. SchedInv(n)
  BY <1>10, <1>13, <1>14, <1>15, <1>16, <1>17, Zenon DEF SchedInv
<1> QED BY <1>18 DEF n, e, m, t

\* sched_sleep_on.
LEMMA SleepInv ==
    ASSUME NEW s, SchedInv(s), s.cpu = "run", NEW q \in Queues
    PROVE  SchedInv(sched_sleep_on(s, q))
<1>1. KT_SLEEP \in Sleeping
  BY DEF Sleeping
<1> QED BY <1>1, SleepInState DEF sched_sleep_on

\* sched_cancellable_sleep_on, with its early return.
LEMMA CancellableSleepInv ==
    ASSUME NEW s, SchedInv(s), s.cpu = "run", NEW q \in Queues
    PROVE  SchedInv(sched_cancellable_sleep_on(s, q))
<1>1. KT_SLEEP_CANCELLABLE \in Sleeping
  BY DEF Sleeping
<1>2. CASE ~ cancelled_already(s)
  BY <1>1, <1>2, SleepInState DEF sched_cancellable_sleep_on
<1>3. CASE cancelled_already(s)
  <2> DEFINE t == s.curthr
             n == [s EXCEPT !.kt_state[t] = KT_SLEEP_CANCELLABLE]
  <2>0. s \in SchedStates /\ s.asserts /\ QueueAgreement(s)
    BY Zenon DEF SchedInv
  <2>1. t \in Threads /\ s.kt_wchan[t] = NoQueue
    BY <2>0 DEF SchedInv, CurrentThread, SchedStates
  <2>2. n \in SchedStates
    BY Zenon, <2>0 DEF SchedStates, ThreadStates
  <2>3. /\ n.kt_state = [s.kt_state EXCEPT ![t] = KT_SLEEP_CANCELLABLE]
        /\ n.kt_wchan = s.kt_wchan
        /\ n.tq_list = s.tq_list
        /\ SameCpu(s, n)
        /\ n.asserts = s.asserts
    BY Zenon, <2>0 DEF SchedStates, SameCpu
  <2> HIDE DEF n
  <2>4. n.asserts /\ QueueAgreement(n)
    BY <2>0, <2>3, Zenon DEF QueueAgreement
  <2>5. RightQueue(n)
    BY ZenonT(60), <2>0, <2>1, <2>3, QueueAssumption DEF SchedInv, RightQueue, SchedStates
  <2>6. NoneLost(n)
    BY <2>0, <2>1, <2>3 DEF SchedInv, NoneLost, SchedStates, SameCpu
  <2>7. CurrentThread(n)
    BY <2>0, <2>1, <2>3 DEF CurrentThread, SchedStates, SameCpu
  <2>8. MaskedWhileDequeuing(n)
    BY <2>3 DEF MaskedWhileDequeuing, SameCpu
  <2>9. SchedInv(n)
    BY <2>2, <2>4, <2>5, <2>6, <2>7, <2>8, Zenon DEF SchedInv
  <2> QED BY <1>3, <2>9 DEF sched_cancellable_sleep_on, n
<1> QED BY <1>2, <1>3

\* sched_make_runnable(curthr) and sched_switch.
LEMMA YieldInv ==
    ASSUME NEW s, SchedInv(s), s.cpu = "run"
    PROVE  SchedInv(yield(s))
<1> DEFINE t == s.curthr
           e == sched_make_runnable(s, t)
           n == yield(s)
<1>0. s \in SchedStates /\ s.asserts /\ QueueAgreement(s)
  BY Zenon DEF SchedInv
<1>1. t \in Threads /\ s.kt_wchan[t] = NoQueue
  BY <1>0 DEF SchedInv, CurrentThread, SchedStates
<1>2. MadeRunnable(s, e, t)
  BY <1>0, <1>1, MakeRunnableFields, Zenon
<1>3. n = [e EXCEPT !.cpu = "enter"]
  BY DEF yield, call_switch
<1> HIDE DEF e, n, t
<1>4. e.asserts /\ QueueAgreement(e)
  BY <1>0, <1>1, <1>2, MadeRunnableQueues, Zenon
<1>5. n \in SchedStates
  BY Zenon, <1>2, <1>3 DEF MadeRunnable, SchedStates, CpuStations
<1>6. /\ n.kt_state = e.kt_state
      /\ n.kt_wchan = e.kt_wchan
      /\ n.tq_list = e.tq_list
      /\ n.original_ipl = e.original_ipl
      /\ n.curthr = e.curthr
      /\ n.cpu = "enter"
      /\ n.asserts = e.asserts
  BY <1>2, <1>3 DEF MadeRunnable, SchedStates
<1>7. n.asserts /\ QueueAgreement(n)
  BY <1>4, <1>6, Zenon DEF QueueAgreement
<1>8. RightQueue(n)
  BY <1>0, <1>1, <1>2, <1>6, QueueAssumption DEF SchedInv, RightQueue, MadeRunnable, SchedStates
<1>9. NoneLost(n)
  BY <1>0, <1>1, <1>2, <1>6, QueueAssumption
     DEF SchedInv, NoneLost, MadeRunnable, SameCpu, SchedStates
<1>10. CurrentThread(n)
  BY <1>0, <1>1, <1>2, <1>6, QueueAssumption
     DEF CurrentThread, MadeRunnable, SameCpu, SchedStates, t
<1>11. MaskedWhileDequeuing(n)
  BY <1>6 DEF MaskedWhileDequeuing
<1>12. SchedInv(n)
  BY <1>5, <1>7, <1>8, <1>9, <1>10, <1>11, Zenon DEF SchedInv
<1> QED BY <1>12 DEF n

\* kthread_exit and the sched_switch it ends in.
LEMMA ExitInv ==
    ASSUME NEW s, SchedInv(s), s.cpu = "run"
    PROVE  SchedInv(call_switch(kthread_exit(s)))
<1> DEFINE t == s.curthr
           b == s.asserts /\ s.kt_wchan[t] = NoQueue
           state == [s.kt_state EXCEPT ![t] = KT_EXITED]
           n == call_switch(kthread_exit(s))
<1>0. s \in SchedStates /\ s.asserts /\ QueueAgreement(s)
  BY Zenon DEF SchedInv
<1>1. t \in Threads /\ s.kt_wchan[t] = NoQueue
  BY <1>0 DEF SchedInv, CurrentThread, SchedStates
<1>2. b /\ b \in BOOLEAN
  BY <1>0, <1>1
<1>3. state \in [Threads -> ThreadStates]
  BY <1>0 DEF SchedStates, ThreadStates
<1>4. n = [s EXCEPT !.kt_state = state, !.asserts = b, !.cpu = "enter"]
  BY <1>0 DEF call_switch, kthread_exit, SchedStates
<1> HIDE DEF n, b, state, t
<1>5. n \in SchedStates
  BY Zenon, <1>0, <1>2, <1>3, <1>4 DEF SchedStates, CpuStations
<1>6. /\ n.kt_state = state
      /\ n.kt_wchan = s.kt_wchan
      /\ n.tq_list = s.tq_list
      /\ n.original_ipl = s.original_ipl
      /\ n.curthr = s.curthr
      /\ n.cpu = "enter"
      /\ n.asserts = b
  BY <1>0, <1>4 DEF SchedStates
<1>7. n.asserts /\ QueueAgreement(n)
  BY <1>0, <1>2, <1>6, Zenon DEF QueueAgreement
<1>8. RightQueue(n)
  BY <1>0, <1>1, <1>6, QueueAssumption DEF SchedInv, RightQueue, SchedStates, AllQueues, state
<1>9. NoneLost(n)
  BY <1>0, <1>1, <1>6 DEF SchedInv, NoneLost, SchedStates, state, t
<1>10. CurrentThread(n)
  BY <1>0, <1>1, <1>6 DEF CurrentThread, SchedStates, state, t
<1>11. MaskedWhileDequeuing(n)
  BY <1>6 DEF MaskedWhileDequeuing
<1>12. SchedInv(n)
  BY <1>5, <1>7, <1>8, <1>9, <1>10, <1>11, Zenon DEF SchedInv
<1> QED BY <1>12 DEF n

\* kthread_destroy of an exited thread that is not the current one.
LEMMA DestroyInv ==
    ASSUME NEW s, SchedInv(s), NEW t \in Threads, t # s.curthr, s.kt_state[t] = KT_EXITED
    PROVE  SchedInv(kthread_destroy(s, t))
<1> DEFINE n == kthread_destroy(s, t)
<1>0. s \in SchedStates /\ s.asserts /\ QueueAgreement(s)
  BY Zenon DEF SchedInv
<1>1. s.kt_wchan[t] = NoQueue
  BY <1>0 DEF SchedInv, RightQueue, SchedStates, AllQueues, Sleeping,
         KT_EXITED, KT_RUN, KT_SLEEP, KT_SLEEP_CANCELLABLE
<1>2. n \in SchedStates
  BY Zenon, <1>0 DEF kthread_destroy, SchedStates, ThreadStates
<1>3. /\ n.kt_state = [s.kt_state EXCEPT ![t] = KT_NO_STATE]
      /\ n.kt_wchan = s.kt_wchan
      /\ n.tq_list = s.tq_list
      /\ SameCpu(s, n)
      /\ n.asserts = s.asserts
  BY Zenon, <1>0 DEF kthread_destroy, SchedStates, SameCpu
<1> HIDE DEF n
<1>4. n.asserts /\ QueueAgreement(n)
  BY <1>0, <1>3, Zenon DEF QueueAgreement
<1>5. RightQueue(n)
  BY <1>0, <1>1, <1>3, QueueAssumption DEF SchedInv, RightQueue, SchedStates
<1>6. NoneLost(n)
  BY <1>0, <1>1, <1>3 DEF SchedInv, NoneLost, SchedStates, SameCpu
<1>7. CurrentThread(n)
  BY <1>0, <1>1, <1>3 DEF SchedInv, CurrentThread, SchedStates, SameCpu
<1>8. MaskedWhileDequeuing(n)
  BY <1>3 DEF SchedInv, MaskedWhileDequeuing, SameCpu
<1>9. SchedInv(n)
  BY <1>2, <1>4, <1>5, <1>6, <1>7, <1>8, Zenon DEF SchedInv
<1> QED BY <1>9 DEF n

\* kthread_cancel only sets kt_cancelled.
LEMMA KthreadCancelInv ==
    ASSUME NEW s, SchedInv(s), NEW t \in Threads
    PROVE  SchedInv(kthread_cancel(s, t))
<1> DEFINE n == [s EXCEPT !.kt_cancelled[t] = TRUE]
<1>0. s \in SchedStates /\ s.asserts /\ QueueAgreement(s)
  BY Zenon DEF SchedInv
<1>1. n \in SchedStates
  BY Zenon, <1>0 DEF SchedStates
<1>2. /\ n.kt_state = s.kt_state
      /\ n.kt_wchan = s.kt_wchan
      /\ n.tq_list = s.tq_list
      /\ SameCpu(s, n)
      /\ n.asserts = s.asserts
  BY Zenon, <1>0 DEF SchedStates, SameCpu
<1> HIDE DEF n
<1>3. n.asserts /\ QueueAgreement(n)
  BY <1>0, <1>2, Zenon DEF QueueAgreement
<1>4. RightQueue(n) /\ NoneLost(n) /\ CurrentThread(n) /\ MaskedWhileDequeuing(n)
  BY <1>2 DEF SchedInv, RightQueue, NoneLost, CurrentThread, MaskedWhileDequeuing, SameCpu
<1>5. SchedInv(n)
  BY <1>1, <1>3, <1>4, Zenon DEF SchedInv
<1> QED BY <1>5 DEF kthread_cancel, n

\* sched_cancel of a thread other than the current one takes a cancellable
\* sleeper off its wait queue and makes it runnable.
LEMMA SchedCancelInv ==
    ASSUME NEW s, SchedInv(s), NEW t \in Threads, t # s.curthr
    PROVE  SchedInv(sched_cancel(s, t))
<1> DEFINE c == [s EXCEPT !.kt_cancelled[t] = TRUE]
<1>0. s \in SchedStates /\ s.asserts /\ QueueAgreement(s)
  BY Zenon DEF SchedInv
<1>1. CASE s.kt_state[t] # KT_SLEEP_CANCELLABLE
  <2>1. c \in SchedStates
    BY Zenon, <1>0 DEF SchedStates
  <2>2. /\ c.kt_state = s.kt_state
        /\ c.kt_wchan = s.kt_wchan
        /\ c.tq_list = s.tq_list
        /\ SameCpu(s, c)
        /\ c.asserts = s.asserts
    BY Zenon, <1>0 DEF SchedStates, SameCpu
  <2> HIDE DEF c
  <2>3. c.asserts /\ QueueAgreement(c)
    BY <1>0, <2>2, Zenon DEF QueueAgreement
  <2>4. RightQueue(c) /\ NoneLost(c) /\ CurrentThread(c) /\ MaskedWhileDequeuing(c)
    BY <2>2 DEF SchedInv, RightQueue, NoneLost, CurrentThread, MaskedWhileDequeuing, SameCpu
  <2>5. SchedInv(c)
    BY <2>1, <2>3, <2>4, Zenon DEF SchedInv
  <2> QED BY <1>1, <2>5 DEF sched_cancel, c
<1>2. CASE s.kt_state[t] = KT_SLEEP_CANCELLABLE
  <2> DEFINE q == s.kt_wchan[t]
             tq == [s.tq_list EXCEPT ![q] = list_remove(@, t)]
             wchan == [s.kt_wchan EXCEPT ![t] = NoQueue]
             state == [s.kt_state EXCEPT ![t] = KT_RUN]
             cancelled == [s.kt_cancelled EXCEPT ![t] = TRUE]
             m == ktqueue_remove([c EXCEPT !.kt_state[t] = KT_RUN], t)
             n == sched_make_runnable(m, t)
  <2>1. q # NoQueue /\ q \in AllQueues
    BY <1>0, <1>2 DEF SchedInv, NoneLost, SchedStates,
           KT_SLEEP_CANCELLABLE, KT_NO_STATE, KT_EXITED, KT_RUN
  <2>2. s.tq_list \in QueueFuns /\ s.kt_wchan \in WchanFuns
    BY <1>0, FieldTypes, Zenon
  <2>3. tq \in QueueFuns /\ Agree(tq, wchan)
    BY <1>0, <2>1, <2>2, RemoveAgrees DEF QueueAgreement
  <2>4. /\ wchan \in [Threads -> AllQueues \cup {NoQueue}]
        /\ state \in [Threads -> ThreadStates]
        /\ tq \in [AllQueues -> Seq(Threads)]
        /\ cancelled \in [Threads -> BOOLEAN]
    BY <1>0, <2>3 DEF SchedStates, ThreadStates, QueueFuns
  <2>5. m = [s EXCEPT !.tq_list = tq, !.kt_wchan = wchan,
                      !.kt_state = state, !.kt_cancelled = cancelled]
    BY Zenon, <1>0, <2>1 DEF ktqueue_remove, SchedStates
  <2>6. wchan[t] = NoQueue
    BY <1>0 DEF SchedStates
  <2>7. n = sched_cancel(s, t)
    BY <1>2 DEF sched_cancel
  <2> HIDE DEF c, tq, wchan, state, cancelled, m, n
  <2>8. m \in SchedStates
    BY Zenon, <1>0, <2>4, <2>5 DEF SchedStates
  <2>9. /\ m.tq_list = tq
        /\ m.kt_wchan = wchan
        /\ m.kt_state = state
        /\ SameCpu(s, m)
        /\ m.asserts = s.asserts
    BY Zenon, <1>0, <2>5 DEF SchedStates, SameCpu
  <2>10. MadeRunnable(m, n, t)
    BY <2>8, MakeRunnableFields, Zenon DEF n
  <2>11. QueueAgreement(m) /\ m.asserts /\ m.kt_wchan[t] = NoQueue
    BY <1>0, <2>3, <2>6, <2>9, Zenon DEF QueueAgreement
  <2>12. n.asserts /\ QueueAgreement(n)
    BY <2>8, <2>10, <2>11, MadeRunnableQueues, Zenon
  <2>13. SameCpu(s, n)
    BY <2>9, <2>10 DEF MadeRunnable, SameCpu
  <2>14. /\ n.kt_state = [state EXCEPT ![t] = KT_RUN]
         /\ n.kt_wchan = [wchan EXCEPT ![t] = RunQ]
    BY <2>9, <2>10, Zenon DEF MadeRunnable
  <2>15. /\ n.kt_state[t] = KT_RUN /\ n.kt_wchan[t] = RunQ
         /\ \A u \in Threads \ {t} : n.kt_state[u] = s.kt_state[u] /\ n.kt_wchan[u] = s.kt_wchan[u]
    BY <1>0, <2>4, <2>14 DEF state, wchan, SchedStates
  <2>16. RightQueue(n)
    BY <1>0, <2>15, QueueAssumption DEF SchedInv, RightQueue
  <2>17. NoneLost(n)
    BY <1>0, <2>13, <2>15, QueueAssumption DEF SchedInv, NoneLost, SameCpu
  <2>18. CurrentThread(n)
    BY <1>0, <2>13, <2>15 DEF SchedInv, CurrentThread, SameCpu, SchedStates
  <2>19. MaskedWhileDequeuing(n)
    BY <2>13 DEF SchedInv, MaskedWhileDequeuing, SameCpu
  <2>20. n \in SchedStates
    BY <2>10 DEF MadeRunnable
  <2>21. SchedInv(n)
    BY <2>12, <2>16, <2>17, <2>18, <2>19, <2>20, Zenon DEF SchedInv
  <2> QED BY <2>7, <2>21
<1> QED BY <1>1, <1>2

\* sched_broadcast_on.
LEMMA BroadcastInv ==
    ASSUME NEW s, SchedInv(s), NEW q \in Queues
    PROVE  SchedInv(sched_broadcast_on(s, q))
<1> DEFINE woken == {t \in Threads : \E i \in 1..Len(s.tq_list[q]) : s.tq_list[q][i] = t}
           b == s.asserts /\ \A t \in woken : s.kt_state[t] \in Sleeping
           tq == [s.tq_list EXCEPT ![RunQ] = @ \o s.tq_list[q], ![q] = << >>]
           wchan == [t \in Threads |-> IF t \in woken THEN RunQ ELSE s.kt_wchan[t]]
           state == [t \in Threads |-> IF t \in woken THEN KT_RUN ELSE s.kt_state[t]]
           n == sched_broadcast_on(s, q)
<1>0. s \in SchedStates /\ s.asserts /\ QueueAgreement(s) /\ RightQueue(s)
  BY Zenon DEF SchedInv
<1>1. s.tq_list \in QueueFuns /\ s.kt_wchan \in WchanFuns
  BY <1>0, FieldTypes, Zenon
<1>2. \A t \in Threads : t \in woken <=> s.kt_wchan[t] = q
  <2> SUFFICES ASSUME NEW t \in Threads PROVE t \in woken <=> s.kt_wchan[t] = q
    BY Zenon
  <2>1. q \in AllQueues /\ q # NoQueue
    BY QueueAssumption DEF AllQueues
  <2>2. ASSUME s.kt_wchan[t] = q PROVE t \in woken
    BY <1>0, <2>1, <2>2 DEF QueueAgreement, Agree
  <2>3. ASSUME t \in woken PROVE s.kt_wchan[t] = q
    BY <1>0, <2>1, <2>3 DEF QueueAgreement, Agree
  <2> QED BY <2>2, <2>3
<1>3. b /\ b \in BOOLEAN
  BY <1>0, <1>2 DEF RightQueue
<1>7. n = [s EXCEPT !.asserts = b, !.tq_list = tq, !.kt_wchan = wchan, !.kt_state = state]
  BY Zenon DEF sched_broadcast_on
<1> HIDE DEF woken, b
<1>4. wchan = [t \in Threads |-> IF s.kt_wchan[t] = q THEN RunQ ELSE s.kt_wchan[t]]
  BY <1>2
<1> HIDE DEF wchan
<1>5. tq \in QueueFuns /\ wchan \in WchanFuns /\ Agree(tq, wchan)
  BY <1>0, <1>1, <1>4, BroadcastAgrees, Zenon DEF QueueAgreement
<1>6. state \in [Threads -> ThreadStates]
  BY <1>0 DEF SchedStates, ThreadStates
<1> HIDE DEF tq, state, n
<1>8. n \in SchedStates
  BY Zenon, <1>0, <1>3, <1>5, <1>6, <1>7 DEF SchedStates, QueueFuns, WchanFuns
<1>9. /\ n.kt_state = state
      /\ n.kt_wchan = wchan
      /\ n.tq_list = tq
      /\ SameCpu(s, n)
      /\ n.asserts = b
  BY <1>0, <1>7 DEF SchedStates, SameCpu
<1>10. n.asserts /\ QueueAgreement(n)
  BY <1>3, <1>5, <1>9, Zenon DEF QueueAgreement
<1>11. \A t \in Threads :
         /\ s.kt_wchan[t] = q => n.kt_wchan[t] = RunQ /\ n.kt_state[t] = KT_RUN
         /\ s.kt_wchan[t] # q => n.kt_wchan[t] = s.kt_wchan[t] /\ n.kt_state[t] = s.kt_state[t]
  BY Zenon, <1>2, <1>4, <1>9 DEF state
<1>12. RightQueue(n)
  BY Zenon, <1>0, <1>11, QueueAssumption DEF RightQueue
<1>13. NoneLost(n)
  BY <1>0, <1>9, <1>11, QueueAssumption DEF SchedInv, NoneLost, SameCpu
<1>14. CurrentThread(n)
  BY <1>0, <1>9, <1>11, QueueAssumption DEF SchedInv, CurrentThread, SameCpu, SchedStates
<1>15. MaskedWhileDequeuing(n)
  BY <1>9 DEF SchedInv, MaskedWhileDequeuing, SameCpu
<1>16. SchedInv(n)
  BY <1>8, <1>10, <1>12, <1>13, <1>14, <1>15, Zenon DEF SchedInv
<1> QED BY <1>16 DEF n

\* A driver raises the IPL before it sleeps and puts it back afterwards.
LEMMA SetIplInv ==
    ASSUME NEW s, SchedInv(s), s.cpu = "run", NEW level \in {IPL_LOW, IPL_HIGH}
    PROVE  SchedInv([s EXCEPT !.ipl = level]) /\ [s EXCEPT !.ipl = level].cpu = "run"
<1> DEFINE n == [s EXCEPT !.ipl = level]
<1>0. s \in SchedStates /\ s.asserts /\ QueueAgreement(s)
  BY Zenon DEF SchedInv
<1>1. n \in SchedStates
  BY <1>0 DEF SchedStates
<1>2. /\ n.kt_state = s.kt_state
      /\ n.kt_wchan = s.kt_wchan
      /\ n.tq_list = s.tq_list
      /\ n.original_ipl = s.original_ipl
      /\ n.curthr = s.curthr
      /\ n.cpu = s.cpu
      /\ n.asserts = s.asserts
  BY Zenon, <1>0 DEF SchedStates
<1> HIDE DEF n
<1>3. n.asserts /\ QueueAgreement(n)
  BY <1>0, <1>2, Zenon DEF QueueAgreement
<1>4. RightQueue(n) /\ NoneLost(n) /\ CurrentThread(n) /\ MaskedWhileDequeuing(n)
  BY <1>2 DEF SchedInv, RightQueue, NoneLost, CurrentThread, MaskedWhileDequeuing
<1>5. SchedInv(n)
  BY <1>1, <1>3, <1>4, Zenon DEF SchedInv
<1> QED BY <1>2, <1>5 DEF n

\* The initial state.
LEMMA InitInv == SchedInv(SchedInit)
<1>1. SchedInit \in SchedStates
  BY FirstAssumption DEF SchedInit, SchedStates, ThreadStates, CpuStations
<1>2. SchedInit.asserts /\ QueueAgreement(SchedInit)
  BY DEF SchedInit, QueueAgreement, Agree
<1>3. RightQueue(SchedInit) /\ MaskedWhileDequeuing(SchedInit)
  BY QueueAssumption DEF SchedInit, RightQueue, MaskedWhileDequeuing
<1>4. NoneLost(SchedInit) /\ CurrentThread(SchedInit)
  BY FirstAssumption DEF SchedInit, NoneLost, CurrentThread
<1> QED BY <1>1, <1>2, <1>3, <1>4, Zenon DEF SchedInv

\* The context switch at the end of sched_switch.
LEMMA ContextSwitchInv ==
    ASSUME NEW s, SchedInv(s), s.cpu = "masked", ~ sched_queue_empty(s, RunQ)
    PROVE  SchedInv(context_switch(s))
<1> DEFINE t == Head(s.tq_list[RunQ])
           tq == [s.tq_list EXCEPT ![RunQ] = Tail(@)]
           wchan == [s.kt_wchan EXCEPT ![t] = NoQueue]
           level == IF s.original_ipl[t] = Unstarted THEN IPL_LOW ELSE s.original_ipl[s.curthr]
           n == context_switch(s)
<1>0. s \in SchedStates /\ s.asserts /\ QueueAgreement(s) /\ RightQueue(s)
  BY Zenon DEF SchedInv
<1>1. s.tq_list \in QueueFuns /\ s.kt_wchan \in WchanFuns /\ RunQ \in AllQueues
  BY <1>0, FieldTypes DEF AllQueues
<1>2. t \in Threads /\ s.kt_wchan[t] = RunQ /\ tq \in QueueFuns /\ Agree(tq, wchan)
  BY Zenon, <1>0, <1>1, TailAgrees DEF QueueAgreement, sched_queue_empty
<1>3. s.kt_state[t] = KT_RUN
  BY <1>0, <1>2 DEF RightQueue
<1>4. wchan \in [Threads -> AllQueues \cup {NoQueue}] /\ tq \in [AllQueues -> Seq(Threads)]
  BY <1>0, <1>2 DEF SchedStates, QueueFuns
<1>5. level \in {IPL_LOW, IPL_HIGH}
  BY <1>0 DEF SchedStates, SchedInv, MaskedWhileDequeuing
<1>6. n = [s EXCEPT !.tq_list = tq, !.kt_wchan = wchan,
                    !.curthr = t, !.ipl = level, !.cpu = "run"]
  BY <1>0 DEF context_switch, ktqueue_dequeue, SchedStates
<1>7. wchan[t] = NoQueue /\ \A u \in Threads \ {t} : wchan[u] = s.kt_wchan[u]
  BY <1>0, <1>2 DEF SchedStates
<1> HIDE DEF t, tq, wchan, level, n
<1>8. n \in SchedStates
  BY Zenon, <1>0, <1>2, <1>4, <1>5, <1>6 DEF SchedStates, CpuStations
<1>9. /\ n.kt_state = s.kt_state
      /\ n.kt_wchan = wchan
      /\ n.tq_list = tq
      /\ n.original_ipl = s.original_ipl
      /\ n.curthr = t
      /\ n.cpu = "run"
      /\ n.asserts = s.asserts
  BY Zenon, <1>0, <1>6 DEF SchedStates
<1>10. n.asserts /\ QueueAgreement(n)
  BY <1>0, <1>2, <1>9, Zenon DEF QueueAgreement
<1>11. RightQueue(n)
  BY Zenon, <1>0, <1>7, <1>9, QueueAssumption DEF RightQueue
<1>12. NoneLost(n)
  BY <1>0, <1>7, <1>9 DEF SchedInv, NoneLost, CurrentThread
<1>13. CurrentThread(n)
  BY <1>3, <1>7, <1>9 DEF CurrentThread
<1>14. MaskedWhileDequeuing(n)
  BY <1>9 DEF MaskedWhileDequeuing
<1>15. SchedInv(n)
  BY <1>8, <1>10, <1>11, <1>12, <1>13, <1>14, Zenon DEF SchedInv
<1> QED BY <1>15 DEF n

\* The other steps of sched_switch only move the CPU to another station.
Moved(s, n) ==
    /\ n \in SchedStates
    /\ n.kt_state = s.kt_state
    /\ n.kt_wchan = s.kt_wchan
    /\ n.tq_list = s.tq_list
    /\ n.curthr = s.curthr
    /\ n.asserts = s.asserts
    /\ \A t \in Threads \ {s.curthr} : n.original_ipl[t] = s.original_ipl[t]
    /\ n.cpu # "run"
    /\ MaskedWhileDequeuing(n)

\* A step of sched_switch that moves no thread keeps the invariant.
LEMMA MovedInv ==
    ASSUME NEW s, SchedInv(s), s.cpu # "run", NEW n, Moved(s, n)
    PROVE  SchedInv(n)
<1>1. n.asserts /\ QueueAgreement(n)
  BY Zenon DEF SchedInv, Moved, QueueAgreement
<1>2. RightQueue(n)
  BY Zenon DEF SchedInv, Moved, RightQueue
<1>3. NoneLost(n)
  BY DEF SchedInv, Moved, NoneLost
<1>4. CurrentThread(n)
  BY DEF SchedInv, Moved, CurrentThread
<1> QED BY <1>1, <1>2, <1>3, <1>4, Zenon DEF SchedInv, Moved

\* Every step of the CPU inside sched_switch.
LEMMA SwitchInv ==
    ASSUME NEW s, SchedInv(s), NEW n, SwitchStep(s, n)
    PROVE  SchedInv(n)
<1>0. s \in SchedStates /\ MaskedWhileDequeuing(s)
  BY DEF SchedInv
<1>1. CASE s.cpu = "enter" /\ n = mask_interrupts(s)
  <2>1. n \in SchedStates
    BY Zenon, <1>0, <1>1 DEF mask_interrupts, SchedStates, CpuStations
  <2>2. Moved(s, n)
    BY <1>0, <1>1, <2>1 DEF mask_interrupts, SchedStates, Moved, MaskedWhileDequeuing,
           IPL_LOW, IPL_HIGH, Unstarted
  <2> QED BY <1>1, <2>2, MovedInv
<1>2. CASE s.cpu = "masked" /\ n = runq_empty(s)
  <2>1. n \in SchedStates
    BY Zenon, <1>0, <1>2 DEF runq_empty, SchedStates, CpuStations
  <2>2. Moved(s, n)
    BY <1>0, <1>2, <2>1 DEF runq_empty, SchedStates, Moved, MaskedWhileDequeuing
  <2> QED BY <1>2, <2>2, MovedInv
<1>3. CASE s.cpu = "masked" /\ ~ sched_queue_empty(s, RunQ) /\ n = context_switch(s)
  BY <1>3, ContextSwitchInv
<1>4. CASE s.cpu = "low" /\ n = intr_wait(s)
  <2>1. n \in SchedStates
    BY SMTT(30), <1>0, <1>4 DEF intr_wait, SchedStates, CpuStations
  <2>2. Moved(s, n)
    BY Zenon, <1>0, <1>4, <2>1 DEF intr_wait, SchedStates, Moved, MaskedWhileDequeuing
  <2> QED BY <1>4, <2>2, MovedInv
<1> QED BY <1>1, <1>2, <1>3, <1>4 DEF SwitchStep

\* An interrupt whose handler leaves the CPU's own state alone.
LEMMA InterruptInv ==
    ASSUME NEW s, NEW h, SchedInv(h), SameCpu(s, h)
    PROVE  SchedInv(interrupt(s, h))
<1>1. CASE s.cpu # "halt"
  BY <1>1 DEF interrupt
<1>2. CASE s.cpu = "halt"
  <2> DEFINE n == interrupt(s, h)
  <2>1. h \in SchedStates /\ h.cpu = "halt" /\ MaskedWhileDequeuing(h)
    BY <1>2 DEF SchedInv, SameCpu
  <2>2. n \in SchedStates
    BY Zenon, <1>2, <2>1 DEF interrupt, SchedStates, CpuStations
  <2>3. Moved(h, n)
    BY <1>2, <2>1, <2>2 DEF interrupt, SchedStates, Moved, MaskedWhileDequeuing
  <2> HIDE DEF n
  <2>4. SchedInv(n)
    BY <2>1, <2>3, MovedInv
  <2> QED BY <2>4 DEF n
<1> QED BY <1>1, <1>2
-----------------------------------------------------------------------------
(***************************************************************************)
(* What the scheduling primitives do to the wait queues.                   *)
(***************************************************************************)
SameWaits(s, n) ==
    /\ \A q \in Queues : n.tq_list[q] = s.tq_list[q]
    /\ \A t \in Threads, q \in Queues : n.kt_wchan[t] = q <=> s.kt_wchan[t] = q

\* A step that leaves the wait queues alone leaves alone who is on them.
LEMMA SameListsSameWaits ==
    ASSUME NEW s, SchedInv(s), NEW n, SchedInv(n),
           \A q \in Queues : n.tq_list[q] = s.tq_list[q]
    PROVE  SameWaits(s, n)
<1>1. \A t \in Threads, q \in Queues :
          s.kt_wchan[t] = q <=> \E i \in 1..Len(s.tq_list[q]) : s.tq_list[q][i] = t
  BY QueueAssumption DEF SchedInv, QueueAgreement, Agree, AllQueues
<1>2. \A t \in Threads, q \in Queues :
          n.kt_wchan[t] = q <=> \E i \in 1..Len(n.tq_list[q]) : n.tq_list[q][i] = t
  BY QueueAssumption DEF SchedInv, QueueAgreement, Agree, AllQueues
<1> QED BY <1>1, <1>2 DEF SameWaits

\* yield links the current thread on kt_runq only.
LEMMA YieldWaits ==
    ASSUME NEW s, SchedInv(s), s.cpu = "run"
    PROVE  SameWaits(s, yield(s))
<1> DEFINE r == sched_make_runnable(s, s.curthr)
           n == yield(s)
<1>0. s \in SchedStates /\ s.curthr \in Threads
  BY DEF SchedInv, SchedStates
<1>1. SchedInv(n)
  BY YieldInv
<1>2. MadeRunnable(s, r, s.curthr)
  BY <1>0, MakeRunnableFields, Zenon
<1>3. n = [r EXCEPT !.cpu = "enter"]
  BY DEF yield, call_switch
<1> HIDE DEF n, r
<1>4. n.tq_list = [s.tq_list EXCEPT ![RunQ] = Append(@, s.curthr)]
  BY <1>2, <1>3 DEF MadeRunnable, SchedStates
<1>5. \A q \in Queues : n.tq_list[q] = s.tq_list[q]
  BY <1>0, <1>4, QueueAssumption DEF SchedStates, AllQueues
<1>6. SameWaits(s, n)
  BY <1>1, <1>5, SameListsSameWaits
<1> QED BY <1>6 DEF n

\* A new thread goes to kt_runq.
LEMMA SpawnWaits ==
    ASSUME NEW s, SchedInv(s), NEW t \in Threads, s.kt_state[t] = KT_NO_STATE
    PROVE  LET n == sched_make_runnable(kthread_create(s, t), t)
           IN  SchedInv(n) /\ SameWaits(s, n)
<1> DEFINE c == kthread_create(s, t)
           n == sched_make_runnable(c, t)
<1>0. s \in SchedStates
  BY DEF SchedInv
<1>1. SchedInv(c) /\ t # c.curthr /\ c.kt_state[t] = KT_RUN /\ c.kt_wchan[t] = NoQueue
  BY CreateInv
<1>2. c.tq_list = s.tq_list
  BY <1>0 DEF kthread_create, SchedStates
<1> HIDE DEF c
<1>3. SchedInv(n)
  BY <1>1, StartInv
<1>4. MadeRunnable(c, n, t)
  BY <1>1, MakeRunnableFields, Zenon DEF SchedInv
<1> HIDE DEF n
<1>5. \A q \in Queues : n.tq_list[q] = s.tq_list[q]
  BY <1>0, <1>2, <1>4, QueueAssumption DEF MadeRunnable, SchedStates, AllQueues
<1>6. SchedInv(n) /\ SameWaits(s, n)
  BY <1>3, <1>5, SameListsSameWaits
<1> QED BY <1>6 DEF n, c

\* kthread_cancel touches no queue.
LEMMA KthreadCancelWaits ==
    ASSUME NEW s, SchedInv(s), NEW t \in Threads
    PROVE  SameWaits(s, kthread_cancel(s, t))
<1>0. s \in SchedStates
  BY DEF SchedInv
<1>1. kthread_cancel(s, t).tq_list = s.tq_list
  BY <1>0 DEF kthread_cancel, SchedStates
<1>2. SchedInv(kthread_cancel(s, t))
  BY KthreadCancelInv
<1> QED BY <1>1, <1>2, SameListsSameWaits

\* The steps of sched_switch only take a thread from kt_runq.
LEMMA SwitchWaits ==
    ASSUME NEW s, SchedInv(s), NEW n, SwitchStep(s, n)
    PROVE  SameWaits(s, n)
<1>0. s \in SchedStates
  BY DEF SchedInv
<1>1. SchedInv(n)
  BY SwitchInv
<1>2. CASE n = context_switch(s)
  <2>1. n.tq_list = [s.tq_list EXCEPT ![RunQ] = Tail(@)]
    BY <1>0, <1>2 DEF context_switch, ktqueue_dequeue, SchedStates
  <2>2. \A q \in Queues : n.tq_list[q] = s.tq_list[q]
    BY <1>0, <2>1, QueueAssumption DEF SchedStates, AllQueues
  <2> QED BY <1>1, <2>2, SameListsSameWaits
<1>3. CASE n = mask_interrupts(s) \/ n = runq_empty(s) \/ n = intr_wait(s)
  <2>1. n.tq_list = s.tq_list
    BY <1>0, <1>3 DEF mask_interrupts, runq_empty, intr_wait, SchedStates
  <2> QED BY <1>1, <2>1, SameListsSameWaits
<1> QED BY <1>2, <1>3 DEF SwitchStep

\* An interrupt that wakes nobody.
LEMMA InterruptWaits ==
    ASSUME NEW s, SchedInv(s)
    PROVE  SchedInv(interrupt(s, s)) /\ SameWaits(s, interrupt(s, s))
<1>0. s \in SchedStates
  BY DEF SchedInv
<1>1. SchedInv(interrupt(s, s))
  BY InterruptInv DEF SameCpu
<1>2. interrupt(s, s).tq_list = s.tq_list
  BY <1>0 DEF interrupt, SchedStates
<1> QED BY <1>1, <1>2, SameListsSameWaits

\* What falling asleep on q does to the queues and to what names them.
Slept(s, n, q) ==
    /\ SchedInv(n)
    /\ n.tq_list = [s.tq_list EXCEPT ![q] = Append(@, s.curthr)]
    /\ n.kt_wchan = [s.kt_wchan EXCEPT ![s.curthr] = q]

\* The current thread goes to sleep on q in state st.
LEMMA SleepFields ==
    ASSUME NEW s, SchedInv(s), s.cpu = "run", NEW q \in Queues, NEW st \in Sleeping
    PROVE  Slept(s, call_switch(
               ktqueue_enqueue([s EXCEPT !.kt_state[s.curthr] = st], q, s.curthr)), q)
<1> DEFINE t == s.curthr
           m == [s EXCEPT !.kt_state[t] = st]
           e == ktqueue_enqueue(m, q, t)
           n == call_switch(e)
<1>0. s \in SchedStates /\ t \in Threads /\ q \in AllQueues
  BY DEF SchedInv, SchedStates, AllQueues
<1>1. SchedInv(n)
  BY SleepInState
<1>2. m \in SchedStates
  BY Zenon, <1>0 DEF SchedStates, ThreadStates, Sleeping
<1>3. m.kt_wchan = s.kt_wchan /\ m.tq_list = s.tq_list
  BY Zenon, <1>0 DEF SchedStates
<1>4. n = [e EXCEPT !.cpu = "enter"]
  BY DEF call_switch
<1> HIDE DEF m, n
<1>5. Enqueued(m, e, q, t)
  BY <1>0, <1>2, EnqueueFields, Zenon
<1> HIDE DEF e
<1>6. n.kt_wchan = e.kt_wchan /\ n.tq_list = e.tq_list
  BY <1>4, <1>5 DEF Enqueued, SchedStates
<1>7. Slept(s, n, q)
  BY <1>1, <1>3, <1>5, <1>6, Zenon DEF Enqueued, Slept
<1> QED BY <1>7 DEF n, e, m

\* sched_sleep_on, and sched_cancellable_sleep_on of a thread that was not
\* cancelled before.
LEMMA LockSleeps ==
    ASSUME NEW s, SchedInv(s), s.cpu = "run", NEW q \in Queues
    PROVE  /\ Slept(s, sched_sleep_on(s, q), q)
           /\ ~ cancelled_already(s) => Slept(s, sched_cancellable_sleep_on(s, q), q)
<1>1. KT_SLEEP \in Sleeping /\ KT_SLEEP_CANCELLABLE \in Sleeping
  BY DEF Sleeping
<1>2. Slept(s, sched_sleep_on(s, q), q)
  BY <1>1, SleepFields DEF sched_sleep_on
<1>3. ASSUME ~ cancelled_already(s)
      PROVE  Slept(s, sched_cancellable_sleep_on(s, q), q)
  BY <1>1, <1>3, SleepFields DEF sched_cancellable_sleep_on
<1> QED BY <1>2, <1>3

\* The early return of a cancelled thread.
LEMMA EarlyReturnWaits ==
    ASSUME NEW s, SchedInv(s), s.cpu = "run", NEW q \in Queues, cancelled_already(s)
    PROVE  LET n == sched_cancellable_sleep_on(s, q)
           IN  SchedInv(n) /\ SameWaits(s, n)
<1>0. s \in SchedStates
  BY DEF SchedInv
<1>1. SchedInv(sched_cancellable_sleep_on(s, q))
  BY CancellableSleepInv
<1>2. sched_cancellable_sleep_on(s, q).tq_list = s.tq_list
  BY <1>0 DEF sched_cancellable_sleep_on, SchedStates
<1> QED BY <1>1, <1>2, SameListsSameWaits

\* A KASSERT that holds changes nothing.
LEMMA TrueAssert ==
    ASSUME NEW s \in SchedStates, s.asserts, NEW p \in BOOLEAN, p
    PROVE  [s EXCEPT !.asserts = @ /\ p] = s
<1>1. (s.asserts /\ p) = s.asserts
  BY DEF SchedStates
<1> QED BY <1>1, Zenon DEF SchedStates
=============================================================================
