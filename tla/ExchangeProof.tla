---------------------------- MODULE ExchangeProof ----------------------------
(* Proofs about consecutive launches on all ranks, for every number of     *)
(* ranks, experts, queue pairs and launches, every sequence of kernels,    *)
(* every number of rows and every mixture of NVLink and RDMA.              *)
EXTENDS Exchange, Radix, SequenceTheorems, TLAPS

-----------------------------------------------------------------------------
(* Groups, words and halves.                                               *)

LEMMA Sizes ==
    /\ NumRanks \in Nat \ {0} /\ LocalExperts \in Nat \ {0} /\ QpPerRank \in Nat \ {0}
    /\ LastRound \in Nat /\ NumExperts \in Nat
    /\ NumRanks * LocalExperts = NumExperts /\ LocalExperts * NumRanks = NumExperts
  BY ExchangeAssumption DEF NumExperts

\* A group is a rank and a local expert.
LEMMA GroupDigits ==
    ASSUME NEW g \in Groups
    PROVE  /\ Peer(g) \in Ranks /\ Local(g) \in 0 .. LocalExperts - 1
           /\ g = Peer(g) * LocalExperts + Local(g)
           /\ Qp(g) \in Qps
<1>1. g \in 0 .. NumRanks * LocalExperts - 1
  BY Sizes DEF Groups
<1>2. /\ Peer(g) \in Ranks /\ Local(g) \in 0 .. LocalExperts - 1
      /\ g = Peer(g) * LocalExperts + Local(g)
  BY <1>1, Sizes, RadixDigits DEF Peer, Local, Ranks
<1>3. Local(g) % QpPerRank \in 0 .. QpPerRank - 1
  BY <1>2, Sizes
<1> QED
  BY <1>2, <1>3 DEF Qp, Qps

\* The two ends of a channel name each other.
LEMMA Ends ==
    ASSUME NEW r \in Ranks, NEW g \in Groups
    PROVE  /\ Sender(r, g) \in Groups /\ Peer(Sender(r, g)) = r
           /\ Local(Sender(r, g)) = Local(g)
           /\ Sender(Peer(g), Sender(r, g)) = g
<1>1. Local(g) \in 0 .. LocalExperts - 1 /\ g = Peer(g) * LocalExperts + Local(g)
  BY GroupDigits
<1>2. r \in Nat /\ r \in 0 .. NumRanks - 1
  BY Sizes DEF Ranks
<1>3. Sender(r, g) \in Groups
  BY <1>1, <1>2, Sizes, RadixBound DEF Groups, Sender
<1>4. Peer(Sender(r, g)) = r /\ Local(Sender(r, g)) = Local(g)
  <2> DEFINE l == Local(g)
  <2>1. l \in 0 .. LocalExperts - 1
    BY <1>1
  <2> HIDE DEF l
  <2>2. (r * LocalExperts + l) \div LocalExperts = r /\ (r * LocalExperts + l) % LocalExperts = l
    BY <2>1, <1>2, Sizes, RadixDivision
  <2>3. Sender(r, g) = r * LocalExperts + l
    BY DEF Sender, l
  <2>4. Peer(Sender(r, g)) = r /\ Local(Sender(r, g)) = l
    BY <2>2, <2>3 DEF Peer, Local
  <2> QED
    BY <2>4 DEF l
<1>5. Sender(Peer(g), Sender(r, g)) = Peer(g) * LocalExperts + Local(Sender(r, g))
  BY DEF Sender
<1> QED
  BY <1>1, <1>3, <1>4, <1>5

\* Every rank sends to every rank.
LEMMA EveryPair ==
    ASSUME NEW d \in Ranks
    PROVE  \E g \in Groups : Peer(g) = d
<1>1. 0 \in Groups
  <2>1. 0 * LocalExperts + 0 \in 0 .. NumRanks * LocalExperts - 1
    BY Sizes, RadixBound
  <2> QED
    BY <2>1, Sizes DEF Groups
<1> QED
  BY <1>1, Ends

LEMMA SendWordInRange ==
    ASSUME NEW k, NEW s \in Ranks, NEW g \in Groups
    PROVE  SendWord(k, s, g) \in Words
<1>1. Local(g) \in 0 .. LocalExperts - 1 /\ s \in 0 .. NumRanks - 1
  BY GroupDigits DEF Ranks
<1>2. Local(g) * NumRanks + s \in 0 .. LocalExperts * NumRanks - 1
  BY <1>1, Sizes, RadixBound
<1>3. s * LocalExperts + Local(g) \in 0 .. NumRanks * LocalExperts - 1
  BY <1>1, Sizes, RadixBound
<1> QED
  BY <1>2, <1>3, Sizes DEF SendWord, Words

\* A receiving group reads the word its sender writes.
LEMMA SameWord ==
    ASSUME NEW k, NEW r \in Ranks, NEW g \in Groups
    PROVE  RecvWord(k, g) = SendWord(k, Peer(g), Sender(r, g))
<1>1. Local(Sender(r, g)) = Local(g) /\ g = Peer(g) * LocalExperts + Local(g)
  BY Ends, GroupDigits
<1> QED
  BY <1>1 DEF RecvWord, SendWord

LEMMA RecvWordInRange ==
    ASSUME NEW k, NEW g \in Groups
    PROVE  RecvWord(k, g) \in Words
<1>1. Peer(g) \in Ranks /\ Sender(Peer(g), g) \in Groups
  BY GroupDigits, Ends
<1>2. RecvWord(k, g) = SendWord(k, Peer(g), Sender(Peer(g), g))
  BY <1>1, SameWord
<1> QED
  BY <1>1, <1>2, SendWordInRange

\* No two groups of all ranks write one word of a receiver in one round.
LEMMA WordUnique ==
    ASSUME NEW k, NEW s \in Ranks, NEW t \in Ranks, NEW g \in Groups, NEW h \in Groups,
           Peer(g) = Peer(h), SendWord(k, s, g) = SendWord(k, t, h)
    PROVE  s = t /\ g = h
<1>1. /\ Local(g) \in 0 .. LocalExperts - 1 /\ Local(h) \in 0 .. LocalExperts - 1
      /\ s \in 0 .. NumRanks - 1 /\ t \in 0 .. NumRanks - 1
      /\ g = Peer(g) * LocalExperts + Local(g) /\ h = Peer(h) * LocalExperts + Local(h)
  BY GroupDigits DEF Ranks
<1>2. s = t /\ Local(g) = Local(h)
  <2>1. CASE Kind(k) = "dispatch"
    <3>1. Local(g) * NumRanks + s = Local(h) * NumRanks + t
      BY <2>1 DEF SendWord
    <3> QED
      BY <3>1, <1>1, Sizes, RadixUnique, SMTT(60)
  <2>2. CASE Kind(k) # "dispatch"
    <3>1. s * LocalExperts + Local(g) = t * LocalExperts + Local(h)
      BY <2>2 DEF SendWord
    <3> QED
      BY <3>1, <1>1, Sizes, RadixUnique, SMTT(60)
  <2> QED
    BY <2>1, <2>2
<1> QED
  BY <1>1, <1>2

LEMMA BufInRange ==
    ASSUME NEW k \in Int
    PROVE  Buf(k) \in 0 .. 1 /\ CleanBuf(k) \in 0 .. 2
<1>1. k % 2 \in 0 .. 1
  OBVIOUS
<1> QED
  BY <1>1 DEF Buf, CleanBuf, Scratch

\* The two halves in turn.
LEMMA Halves ==
    ASSUME DoubleBuffered, NEW k \in Int
    PROVE  /\ CleanBuf(k) = Buf(k + 1) /\ Buf(k + 1) # Buf(k) /\ Buf(k + 2) = Buf(k)
           /\ Buf(k - 1) = Buf(k + 1)
<1>1. (k + 1) % 2 = 1 - (k % 2) /\ (k + 2) % 2 = k % 2 /\ (k - 1) % 2 = (k + 1) % 2
      /\ k % 2 \in 0 .. 1
  OBVIOUS
<1> QED
  BY <1>1 DEF Buf, CleanBuf

-----------------------------------------------------------------------------
(* Types.                                                                  *)

TypeInv == TypeOK /\ qp \in [Ranks -> [Ranks -> [Qps -> Seq(Requests)]]]

LEMMA ValueTyped ==
    ASSUME NEW k \in Rounds, NEW s \in Ranks, NEW g \in Groups
    PROVE  Count(k, s, g) \in Nat /\ SignalValue(k, s, g) \in Int
  BY ExchangeAssumption DEF SignalValue

\* A request that is posted keeps the queues queues of requests.
LEMMA PostTyped ==
    ASSUME TypeInv, NEW r \in Ranks, NEW g \in Groups, NEW m \in Requests, Post(r, g, m)
    PROVE  qp' \in [Ranks -> [Ranks -> [Qps -> Seq(Requests)]]]
<1>1. Peer(g) \in Ranks /\ Qp(g) \in Qps
  BY GroupDigits
<1>2. Append(qp[r][Peer(g)][Qp(g)], m) \in Seq(Requests)
  BY <1>1 DEF TypeInv
<1> QED
  BY <1>1, <1>2 DEF TypeInv, Post

\* The types of one step.
LEMMA TypeStep ==
    ASSUME TypeInv, [Next]_vars
    PROVE  TypeInv'
<1>r. round \in [Ranks -> 1 .. LastRound + 1]
  BY DEF TypeInv, TypeOK
<1>g. signal \in [Ranks -> [0 .. 2 -> [Words -> Int]]]
  BY DEF TypeInv, TypeOK
<1>d. data \in [Ranks -> [0 .. 1 -> [Words -> 0 .. LastRound]]]
  BY DEF TypeInv, TypeOK
<1>s. stage \in [Ranks -> [0 .. 1 -> 0 .. LastRound]]
  BY DEF TypeInv, TypeOK
<1>q. qp \in [Ranks -> [Ranks -> [Qps -> Seq(Requests)]]]
  BY DEF TypeInv
<1>0. ASSUME qp' \in [Ranks -> [Ranks -> [Qps -> Seq(Requests)]]]
      PROVE  \A r, d \in Ranks, q \in Qps :
                 \A i \in DOMAIN qp'[r][d][q] : qp'[r][d][q][i] \in Requests
  <2> SUFFICES ASSUME NEW r \in Ranks, NEW d \in Ranks, NEW q \in Qps,
                      NEW i \in DOMAIN qp'[r][d][q]
               PROVE  qp'[r][d][q][i] \in Requests
    OBVIOUS
  <2>1. qp'[r][d][q] \in Seq(Requests)
    BY <1>0
  <2> QED
    BY <2>1
<1>1. ASSUME NEW r \in Ranks, CleanNext(r) PROVE TypeInv'
  <2>1. round[r] \in Int
    BY <1>r
  <2>2. CleanBuf(round[r]) \in 0 .. 2 /\ [w \in Words |-> 0] \in [Words -> Int]
    BY <2>1, BufInRange
  <2>3. signal' \in [Ranks -> [0 .. 2 -> [Words -> Int]]] /\ cleaned' \in [Ranks -> BOOLEAN]
    BY <1>1, <2>2 DEF TypeInv, TypeOK, CleanNext
  <2> QED
    BY <1>1, <2>3, <1>0 DEF TypeInv, TypeOK, CleanNext
<1>2. ASSUME NEW r \in Ranks, NEW g \in Groups, PostRows(r, g) PROVE TypeInv'
  <2> DEFINE k == round[r]
             m == [type |-> "rows", buf |-> Buf(k), word |-> SendWord(k, r, g),
                   val |-> 0, rnd |-> k]
  <2>1. k \in Rounds /\ k \in 0 .. LastRound /\ k \in Int
    BY <1>2, Sizes DEF PostRows, Running, Rounds
  <2>2. Buf(k) \in 0 .. 1 /\ SendWord(k, r, g) \in Words /\ Peer(g) \in Ranks
    BY <2>1, BufInRange, SendWordInRange, GroupDigits
  <2>3. m \in Requests
    BY <2>1, <2>2 DEF Requests
  <2>4. qp' \in [Ranks -> [Ranks -> [Qps -> Seq(Requests)]]]
    BY <1>2, <1>q, <2>3, PostTyped DEF PostRows
  <2>5. data' \in [Ranks -> [0 .. 1 -> [Words -> 0 .. LastRound]]]
    <3> DEFINE d == Peer(g)
               b == Buf(k)
               w == SendWord(k, r, g)
    <3> HIDE DEF k, d, b, w
    <3>0. d \in Ranks /\ b \in 0 .. 1 /\ w \in Words /\ k \in 0 .. LastRound
      BY <2>1, <2>2 DEF d, b, w
    <3>1. [data EXCEPT ![d][b][w] = k]
              \in [Ranks -> [0 .. 1 -> [Words -> 0 .. LastRound]]]
      BY <1>d, <3>0
    <3> QED
      BY <1>2, <1>d, <3>1 DEF PostRows, k, d, b, w
  <2>6. stage' \in [Ranks -> [0 .. 1 -> 0 .. LastRound]]
    <3>1. [stage EXCEPT ![r][Buf(k)] = k] \in [Ranks -> [0 .. 1 -> 0 .. LastRound]]
      BY <1>s, <2>1, <2>2
    <3> QED
      BY <1>2, <1>s, <3>1 DEF PostRows
  <2> QED
    BY <1>0, <1>2, <2>4, <2>5, <2>6 DEF TypeInv, TypeOK, PostRows
<1>3. ASSUME NEW r \in Ranks, NEW g \in Groups, SendSignal(r, g) PROVE TypeInv'
  <2> DEFINE k == round[r]
             m == [type |-> "add", buf |-> Buf(k), word |-> SendWord(k, r, g),
                   val |-> SignalValue(k, r, g), rnd |-> k]
  <2>1. k \in Rounds /\ k \in Int
    BY <1>3, Sizes DEF SendSignal, Running, Rounds
  <2>2. Buf(k) \in 0 .. 1 /\ SendWord(k, r, g) \in Words /\ Peer(g) \in Ranks
        /\ SignalValue(k, r, g) \in Int
    BY <2>1, BufInRange, SendWordInRange, GroupDigits, ValueTyped
  <2>3. m \in Requests
    BY <2>1, <2>2 DEF Requests
  <2>4. qp' \in [Ranks -> [Ranks -> [Qps -> Seq(Requests)]]]
    BY <1>3, <1>q, <2>3, PostTyped DEF SendSignal
  <2>5. signal' \in [Ranks -> [0 .. 2 -> [Words -> Int]]]
    <3> DEFINE d == Peer(g)
               b == Buf(k)
               w == SendWord(k, r, g)
               v == SignalValue(k, r, g)
    <3> HIDE DEF k, d, b, w, v
    <3>1. d \in Ranks /\ b \in 0 .. 2 /\ w \in Words /\ v \in Int
      BY <2>1, <2>2 DEF d, b, w, v
    <3>2. [signal EXCEPT ![d][b][w] = v] \in [Ranks -> [0 .. 2 -> [Words -> Int]]]
      BY <1>g, <3>1
    <3> QED
      BY <1>3, <1>g, <3>2 DEF SendSignal, k, d, b, w, v
  <2> QED
    BY <1>0, <1>3, <2>4, <2>5 DEF TypeInv, TypeOK, SendSignal
<1>4. ASSUME NEW r \in Ranks, NEW d \in Ranks, NEW q \in Qps, Execute(r, d, q)
      PROVE  TypeInv'
  <2> DEFINE m == Head(qp[r][d][q])
  <2>1. qp[r][d][q] \in Seq(Requests) /\ qp[r][d][q] # << >>
    <3>1. qp[r][d][q] # << >>
      BY <1>4 DEF Execute
    <3> QED
      BY <3>1, <1>q
  <2>2. m \in Requests /\ Tail(qp[r][d][q]) \in Seq(Requests)
    BY <2>1
  <2>3. m.buf \in 0 .. 1 /\ m.buf \in 0 .. 2 /\ m.word \in Words /\ m.val \in Int
    BY <2>2 DEF Requests
  <2>4. qp' \in [Ranks -> [Ranks -> [Qps -> Seq(Requests)]]]
    BY <1>4, <1>q, <2>2 DEF Execute
  <2> DEFINE b == m.buf
             w == m.word
  <2>5. /\ b \in 0 .. 1 /\ b \in 0 .. 2 /\ w \in Words
        /\ stage[r][b] \in 0 .. LastRound
        /\ signal[d][b][w] + m.val \in Int
    <3> HIDE DEF m
    <3>1. b \in 0 .. 1 /\ b \in 0 .. 2 /\ w \in Words /\ m.val \in Int
      BY <2>3
    <3> HIDE DEF b, w
    <3> QED
      BY <3>1, <1>s, <1>g
  <2> HIDE DEF m, b, w
  <2>6. data' \in [Ranks -> [0 .. 1 -> [Words -> 0 .. LastRound]]]
    <3>1. [data EXCEPT ![d][b][w] = stage[r][b]]
              \in [Ranks -> [0 .. 1 -> [Words -> 0 .. LastRound]]]
      BY <2>5, <1>d
    <3> QED
      BY <1>4, <3>1, <1>d DEF Execute, m, b, w
  <2>7. signal' \in [Ranks -> [0 .. 2 -> [Words -> Int]]]
    <3>1. [signal EXCEPT ![d][b][w] = signal[d][b][w] + m.val]
              \in [Ranks -> [0 .. 2 -> [Words -> Int]]]
      BY <2>5, <1>g
    <3> QED
      BY <1>4, <3>1, <1>g DEF Execute, m, b, w
  <2> QED
    BY <1>0, <1>4, <2>4, <2>6, <2>7 DEF TypeInv, TypeOK, Execute, launchVars
<1>5. ASSUME NEW r \in Ranks, NEW g \in Groups, ReceiveSignal(r, g) PROVE TypeInv'
  <2>1. round[r] \in Int /\ RecvWord(round[r], g) \in Words
    BY <1>r, RecvWordInRange
  <2>2. SignalFor(r, g) \in Int
    BY <2>1, <1>g, BufInRange DEF SignalFor
  <2> QED
    BY <1>0, <1>5, <2>2 DEF TypeInv, TypeOK, ReceiveSignal, memVars
<1>6. ASSUME NEW r \in Ranks, NEW g \in Groups, GiveUp(r, g) PROVE TypeInv'
  <2>1. Peer(g) \in Ranks
    BY GroupDigits
  <2>2. active' \in [Ranks -> [Ranks -> BOOLEAN]]
    BY <1>6, <2>1 DEF TypeInv, TypeOK, GiveUp
  <2>3. /\ seen' \in [Ranks -> [Groups -> Int]]
        /\ rcv' \in [Ranks -> [Groups -> {"wait", "ready", "done"}]]
    BY <1>6 DEF TypeInv, TypeOK, GiveUp
  <2> QED
    BY <1>0, <1>6, <2>2, <2>3 DEF TypeInv, TypeOK, GiveUp, memVars
<1>7. ASSUME NEW r \in Ranks, NEW g \in Groups PROVE RoundRead(r, g) \in 0 .. LastRound + 1
  <2>1. round[r] \in Int /\ RecvWord(round[r], g) \in Words
        /\ round[r] \in 0 .. LastRound + 1
    BY <1>r, RecvWordInRange, Sizes
  <2>2. data[r][Buf(round[r])][RecvWord(round[r], g)] \in 0 .. LastRound
    BY <2>1, <1>d, BufInRange
  <2>3. 0 .. LastRound \subseteq 0 .. LastRound + 1
    BY Sizes
  <2> QED
    BY <2>1, <2>2, <2>3 DEF RoundRead
<1>8. ASSUME NEW r \in Ranks, NEW g \in Groups, CopyRows(r, g) PROVE TypeInv'
  BY <1>0, <1>7, <1>8 DEF TypeInv, TypeOK, CopyRows, memVars
<1>9. ASSUME NEW r \in Ranks, Reduce(r) PROVE TypeInv'
  BY <1>0, <1>7, <1>9 DEF TypeInv, TypeOK, Reduce, memVars
<1>10. ASSUME NEW r \in Ranks, NextLaunch(r) PROVE TypeInv'
  <2>1. round[r] + 1 \in 1 .. LastRound + 1
    BY <1>10, Sizes DEF NextLaunch, Running, Rounds
  <2> QED
    BY <1>0, <1>10, <2>1 DEF TypeInv, TypeOK, NextLaunch, memVars
<1>11. ASSUME NEW r \in Ranks, Crash(r) PROVE TypeInv'
  BY <1>0, <1>11, ExchangeAssumption DEF TypeInv, TypeOK, Crash, launchVars, memVars
<1>12. CASE UNCHANGED vars
  BY <1>0, <1>12 DEF TypeInv, TypeOK, vars, launchVars, memVars
<1> QED
  BY <1>1, <1>2, <1>3, <1>4, <1>5, <1>6, <1>8, <1>9, <1>10, <1>11, <1>12
     DEF Next, GroupStep, Finished

LEMMA TypeInit == ASSUME Init PROVE TypeInv
<1>1. signal \in [Ranks -> [0 .. 2 -> [Words -> Int]]]
  <2>1. FreshWords \subseteq Int
    BY ExchangeAssumption
  <2>2. signal \in [Ranks -> [0 .. 2 -> [Words -> FreshWords]]]
    BY DEF Init
  <2>3. [Words -> FreshWords] \subseteq [Words -> Int]
    BY <2>1
  <2> QED
    BY <2>2, <2>3
<1>2. << >> \in Seq(Requests)
  OBVIOUS
<1>3. /\ 1 \in 1 .. LastRound + 1 /\ 0 \in 0 .. LastRound + 1 /\ 0 \in 0 .. LastRound
      /\ 0 \in Int
  BY Sizes
<1>4. qp \in [Ranks -> [Ranks -> [Qps -> Seq(Requests)]]]
  BY <1>2 DEF Init
<1>5. \A r, d \in Ranks, q \in Qps : qp[r][d][q] = << >>
  BY DEF Init
<1> QED
  BY <1>1, <1>3, <1>4, <1>5 DEF Init, TypeInv, TypeOK

LEMMA TypeInvariance == Spec => []TypeInv
<1>1. Init => TypeInv
  BY TypeInit
<1>2. TypeInv /\ [Next]_vars => TypeInv'
  BY TypeStep
<1> QED
  BY <1>1, <1>2, PTL DEF Spec

\* The type invariant of the launches, the memory and the queue pairs holds of
\* every execution, timeouts and ranks that stop included.
THEOREM TypeCorrect == Spec => []TypeOK
<1>1. TypeInv => TypeOK
  BY DEF TypeInv
<1> QED
  BY <1>1, TypeInvariance, PTL

-----------------------------------------------------------------------------
(* The inductive invariant.  A channel is a sending group g of a rank s;   *)
(* its other end is the group Sender(s, g) of rank Peer(g).                *)

\* The group has posted its rows, has published its signal, of round k.
Posted(k, s, g) == round[s] > k \/ (round[s] = k /\ snd[s][g] # "post")
Sent(k, s, g)   == round[s] > k \/ (round[s] = k /\ snd[s][g] = "done")

Queue(s, g) == qp[s][Peer(g)][Qp(g)]
Is(m, type, k, w) == m.type = type /\ m.rnd = k /\ m.word = w
Queued(type, k, s, g) ==
    \E i \in DOMAIN Queue(s, g) : Is(Queue(s, g)[i], type, k, SendWord(k, s, g))

\* The signal of round k is in the receiver's memory, or was there.
Landed(k, s, g) == Sent(k, s, g) /\ ~Queued("add", k, s, g)

\* The order of the steps of one rank's launch.
LaunchOrder ==
    \A r \in Ranks, g \in Groups :
        /\ snd[r][g] = "done" => cleaned[r]
        /\ rcv[r][g] # "wait" /\ Kind(round[r]) = "dispatch" => AllSent(r)
        /\ rcv[r][g] = "done" => AllSent(r)
        /\ rcv[r][g] # "wait" => round[r] \in Rounds

\* Neither of two ranks has given up the other one.  What follows is claimed only of
\* channels between such ranks.
Linked(s, d) == active[s][d] /\ active[d][s]

\* A receiver has left a wait, or a launch, only with the signals of that round.
Consumed ==
    \A s \in Ranks, g \in Groups :
        LET d == Peer(g)
            h == Sender(s, g)
        IN Linked(s, d) =>
              /\ round[d] > 1 => Sent(round[d] - 1, s, g)
              /\ rcv[d][h] # "wait" => /\ Landed(round[d], s, g)
                                       /\ seen[d][h] = SignalValue(round[d], s, g)

\* What the i-th request of a queue stands for: a signal that was published, or rows
\* that are staged and whose signal is behind them or still to come.
Entry(s, g, Q, i) ==
    LET m == Q[i]
    IN /\ m.word = SendWord(m.rnd, s, g) /\ Posted(m.rnd, s, g)
       /\ m.type = "add" => Sent(m.rnd, s, g) /\ m.val = SignalValue(m.rnd, s, g)
       /\ m.type = "rows" =>
             /\ stage[s][m.buf] = m.rnd
             /\ Sent(m.rnd, s, g) =>
                   \E j \in DOMAIN Q : j > i /\ Is(Q[j], "add", m.rnd, m.word)

\* The requests in a queue are of rounds the receiver has not left.
QueueMeaning ==
    \A s, d \in Ranks, q \in Qps : \A i \in DOMAIN qp[s][d][q] :
        LET m == qp[s][d][q][i]
        IN Linked(s, d) =>
              /\ ~Direct(s, d) /\ m.rnd >= round[d] /\ m.buf = Buf(m.rnd)
              /\ \E g \in Groups : Peer(g) = d /\ Qp(g) = q /\ Entry(s, g, qp[s][d][q], i)

\* A signal is in a queue at most once.
AddOnce(Q) ==
    \A i, j \in DOMAIN Q :
        Q[i].type = "add" /\ Is(Q[j], "add", Q[i].rnd, Q[i].word) => i = j

AddsOnce == \A s, d \in Ranks, q \in Qps : Linked(s, d) => AddOnce(qp[s][d][q])

\* A request writes a word of a channel of its sender, whoever was given up.
OwnWord(s, d, m) ==
    /\ m.buf = Buf(m.rnd)
    /\ \E g \in Groups : Peer(g) = d /\ m.word = SendWord(m.rnd, s, g)

QueueWords ==
    \A s, d \in Ranks, q \in Qps : \A i \in DOMAIN qp[s][d][q] :
        OwnWord(s, d, qp[s][d][q][i])

\* The word of a channel is that of the signal of round k, if it has landed.
WordOf(k, s, g) ==
    signal[Peer(g)][Buf(k)][SendWord(k, s, g)] =
        IF Landed(k, s, g) THEN SignalValue(k, s, g) ELSE 0

\* The half in use has the words of this round, the other half those of the next
\* round once it is clean; before that it has those of the last round.
SignalMeaning ==
    \A s \in Ranks, g \in Groups :
        LET d == Peer(g)
            k == round[d]
        IN Linked(s, d) =>
              /\ WordOf(k, s, g)
              /\ cleaned[d] => WordOf(k + 1, s, g)
              /\ ~cleaned[d] /\ k > 1 =>
                    signal[d][Buf(k + 1)][SendWord(k - 1, s, g)] = SignalValue(k - 1, s, g)

\* Rows that were posted and are not queued are in the receiver's memory.
RowsMeaning ==
    \A s \in Ranks, g \in Groups, k \in Rounds :
        /\ Linked(s, Peer(g)) /\ k >= round[Peer(g)] /\ Posted(k, s, g)
        /\ Count(k, s, g) > 0 /\ ~Queued("rows", k, s, g)
        => data[Peer(g)][Buf(k)][SendWord(k, s, g)] = k

NoneGivenUp == \A r, s \in Ranks : active[r][s]

\* A half holds rows of its own rounds, and none from the future of a rank that has
\* not cleaned it.
DataBound ==
    NoneGivenUp => \A d \in Ranks, b \in 0 .. 1, w \in Words :
        LET k == data[d][b][w]
        IN /\ k # 0 => Buf(k) = b
           /\ k <= round[d] + 1
           /\ ~cleaned[d] => k <= round[d]

\* The round of the rows each group consumed last.
UsedMeaning ==
    \A r \in Ranks, g \in Groups :
        Linked(r, Peer(g)) =>
            used[r][g] = IF rcv[r][g] = "done" THEN round[r] ELSE round[r] - 1

Core ==
    /\ LaunchOrder /\ Consumed /\ QueueMeaning /\ AddsOnce /\ QueueWords
    /\ SignalMeaning /\ RowsMeaning /\ DataBound /\ UsedMeaning

\* A half is always used by the same kernel, as when dispatch and combine alternate.
SteadyKinds ==
    \A k, l \in 1 .. LastRound + 2 : Buf(k) = Buf(l) => Kind(k) = Kind(l)

ExchangeInv == SteadyKinds \/ NoneGivenUp => Core
-----------------------------------------------------------------------------
(* What the invariant says about two ranks.                                *)

\* The initial state of a run with zeroed buffers.
LEMMA CoreInit == ASSUME Init, FreshWords = {0} PROVE Core
<1>1. \A r \in Ranks : round[r] = 1 /\ cleaned[r] = FALSE
  BY DEF Init
<1>2. \A r \in Ranks, g \in Groups : /\ snd[r][g] = "post" /\ rcv[r][g] = "wait"
                                    /\ used[r][g] = 0
  BY DEF Init
<1>3. \A r, d \in Ranks, q \in Qps : qp[r][d][q] = << >>
  BY DEF Init
<1>4. \A d \in Ranks, b \in 0 .. 1, w \in Words : data[d][b][w] = 0
  BY DEF Init
<1>5. \A d \in Ranks, b \in 0 .. 2, w \in Words : signal[d][b][w] = 0
  <2>1. signal \in [Ranks -> [0 .. 2 -> [Words -> {0}]]]
    BY DEF Init
  <2> QED
    BY <2>1
<1>6. LaunchOrder /\ UsedMeaning
  BY <1>1, <1>2 DEF LaunchOrder, UsedMeaning
<1>7. Consumed
  BY <1>1, <1>2, GroupDigits, Ends DEF Consumed
<1>8. QueueMeaning /\ AddsOnce /\ QueueWords
  BY <1>3 DEF QueueMeaning, AddsOnce, AddOnce, QueueWords
<1>9. SignalMeaning
  <2> SUFFICES ASSUME NEW s \in Ranks, NEW g \in Groups, NEW k \in {1, 2}
               PROVE  ~Landed(k, s, g)
                      /\ signal[Peer(g)][Buf(k)][SendWord(k, s, g)] = 0
    BY <1>1, GroupDigits DEF SignalMeaning, WordOf
  <2>1. ~Sent(k, s, g)
    BY <1>1, <1>2 DEF Sent
  <2>2. Peer(g) \in Ranks /\ Buf(k) \in 0 .. 2 /\ SendWord(k, s, g) \in Words
    BY GroupDigits, BufInRange, SendWordInRange
  <2> QED
    BY <2>1, <2>2, <1>5 DEF Landed
<1>10. RowsMeaning
  <2> SUFFICES ASSUME NEW s \in Ranks, NEW g \in Groups, NEW k \in Rounds
               PROVE  ~Posted(k, s, g)
    BY DEF RowsMeaning
  <2> QED
    BY <1>1, <1>2 DEF Posted, Rounds
<1>11. DataBound
  BY <1>1, <1>4 DEF DataBound
<1> QED
  BY <1>6, <1>7, <1>8, <1>9, <1>10, <1>11 DEF Core

LEMMA LinkedBoth == ASSUME NEW s, NEW d PROVE Linked(s, d) <=> Linked(d, s)
  BY DEF Linked

LEMMA LinkedSame ==
    ASSUME active' = active
    PROVE  /\ \A s, d : Linked(s, d)' <=> Linked(s, d)
           /\ NoneGivenUp' <=> NoneGivenUp
  BY DEF Linked, NoneGivenUp

\* A rank is at most one launch ahead of another one.
LEMMA OneAhead ==
    ASSUME TypeInv, Consumed, NEW s \in Ranks, NEW d \in Ranks, Linked(s, d)
    PROVE  round[d] <= round[s] + 1
<1>1. PICK g \in Groups : Peer(g) = d
  BY EveryPair
<1>2. round[s] \in Int /\ round[d] \in Int /\ round[d] >= 1 /\ round[s] >= 1
  BY DEF TypeInv, TypeOK
<1>3. round[d] > 1 => Sent(round[d] - 1, s, g)
  BY <1>1 DEF Consumed
<1> QED
  BY <1>2, <1>3 DEF Sent

\* A rank that is behind another one has cleaned its next half.
LEMMA CleanedBehind ==
    ASSUME TypeInv, Consumed, LaunchOrder, NEW s \in Ranks, NEW d \in Ranks,
           Linked(s, d), round[s] > round[d]
    PROVE  cleaned[d]
<1>1. PICK g \in Groups : Peer(g) = s
  BY EveryPair
<1>2. round[s] \in Int /\ round[d] \in Int /\ round[d] >= 1
  BY DEF TypeInv, TypeOK
<1>3. Sent(round[s] - 1, d, g)
  BY <1>1, <1>2, LinkedBoth DEF Consumed
<1>4. snd[d][g] = "done"
  BY <1>2, <1>3 DEF Sent
<1> QED
  BY <1>4 DEF LaunchOrder

\* A receiver does not pass a sender that has a signal to send.
LEMMA NotPassed ==
    ASSUME TypeInv, Consumed, NEW s \in Ranks, NEW g \in Groups, Linked(s, Peer(g)),
           snd[s][g] # "done"
    PROVE  round[Peer(g)] <= round[s]
<1>1. Peer(g) \in Ranks
  BY GroupDigits
<1>2. round[s] \in Int /\ round[Peer(g)] \in Int /\ round[s] >= 1
  BY <1>1 DEF TypeInv, TypeOK
<1>3. round[Peer(g)] > 1 => Sent(round[Peer(g)] - 1, s, g)
  BY DEF Consumed
<1> QED
  BY <1>2, <1>3 DEF Sent

\* Two rounds a half can be used for at one time are one.
LEMMA SameHalf ==
    ASSUME DoubleBuffered, NEW n \in Int, NEW k \in {n, n + 1}, NEW l \in {n, n + 1},
           Buf(k) = Buf(l)
    PROVE  k = l
  BY Halves

\* The rounds that can be under way towards a rank.
LEMMA RoundsUnderWay ==
    ASSUME TypeInv, Consumed, LaunchOrder, NEW s \in Ranks, NEW g \in Groups,
           Linked(s, Peer(g)), NEW k \in Int, Posted(k, s, g), k >= round[Peer(g)]
    PROVE  /\ k \in {round[Peer(g)], round[Peer(g)] + 1} /\ k <= round[s]
           /\ k # round[Peer(g)] => cleaned[Peer(g)]
<1>1. Peer(g) \in Ranks
  BY GroupDigits
<1>2. round[s] \in Int /\ round[Peer(g)] \in Int
  BY <1>1 DEF TypeInv, TypeOK
<1>3. k <= round[s]
  BY <1>2 DEF Posted
<1>4. round[s] <= round[Peer(g)] + 1
  BY <1>1, OneAhead, LinkedBoth
<1>5. k # round[Peer(g)] => cleaned[Peer(g)]
  BY <1>1, <1>2, <1>3, CleanedBehind
<1> QED
  BY <1>2, <1>3, <1>4, <1>5

\* A request in a queue: its type, its round, and the channel it belongs to.
LEMMA RequestFacts ==
    ASSUME TypeInv, Consumed, LaunchOrder, QueueMeaning,
           NEW s \in Ranks, NEW d \in Ranks, NEW q \in Qps, NEW i \in DOMAIN qp[s][d][q],
           Linked(s, d)
    PROVE  LET m == qp[s][d][q][i]
           IN /\ m \in Requests /\ ~Direct(s, d) /\ m.buf = Buf(m.rnd)
              /\ m.rnd \in {round[d], round[d] + 1} /\ m.rnd <= round[s]
              /\ m.rnd # round[d] => cleaned[d]
              /\ \E g \in Groups : /\ Peer(g) = d /\ Qp(g) = q
                                   /\ Entry(s, g, qp[s][d][q], i)
<1> DEFINE m == qp[s][d][q][i]
<1>1. m \in Requests
  BY DEF TypeInv, TypeOK
<1>2. m.rnd \in Int
  BY <1>1 DEF Requests, Rounds
<1>3. /\ ~Direct(s, d) /\ m.rnd >= round[d] /\ m.buf = Buf(m.rnd)
      /\ \E g \in Groups : Peer(g) = d /\ Qp(g) = q /\ Entry(s, g, qp[s][d][q], i)
  BY DEF QueueMeaning
<1>4. PICK g \in Groups : Peer(g) = d /\ Qp(g) = q /\ Entry(s, g, qp[s][d][q], i)
  BY <1>3
<1>5. Posted(m.rnd, s, g)
  BY <1>4 DEF Entry
<1> HIDE DEF m
<1>6. /\ m.rnd \in {round[d], round[d] + 1} /\ m.rnd <= round[s]
      /\ m.rnd # round[d] => cleaned[d]
  BY <1>2, <1>3, <1>4, <1>5, RoundsUnderWay
<1> QED
  BY <1>1, <1>3, <1>6 DEF m

-----------------------------------------------------------------------------
(* The steps.                                                              *)

\* A step that posts nothing, executes nothing and starts no launch.
LEMMA SameProgress ==
    ASSUME UNCHANGED <<round, snd, qp>>, NEW k, NEW s, NEW g
    PROVE  /\ Posted(k, s, g)' <=> Posted(k, s, g)
           /\ Sent(k, s, g)' <=> Sent(k, s, g)
           /\ \A t \in {"rows", "add"} : Queued(t, k, s, g)' <=> Queued(t, k, s, g)
           /\ Landed(k, s, g)' <=> Landed(k, s, g)
  BY DEF Posted, Sent, Queued, Queue, Landed, Is

\* ... leaves what is queued alone.
LEMMA SameQueues ==
    ASSUME QueueMeaning, AddsOnce, QueueWords, UNCHANGED <<round, snd, qp, stage, active>>
    PROVE  QueueMeaning' /\ AddsOnce' /\ QueueWords'
<1>1. AddsOnce' /\ QueueWords'
  BY LinkedSame DEF AddsOnce, QueueWords
<1>2. QueueMeaning'
  BY LinkedSame, SMTT(60) DEF QueueMeaning, Entry, Posted, Sent, Is
<1> QED
  BY <1>1, <1>2

LEMMA SameRows ==
    ASSUME RowsMeaning, UNCHANGED <<round, snd, qp, data, active>>
    PROVE  RowsMeaning'
  BY SameProgress, LinkedSame DEF RowsMeaning

LEMMA SameSignals ==
    ASSUME SignalMeaning, UNCHANGED <<round, cleaned, snd, qp, signal, active>>
    PROVE  SignalMeaning'
<1>1. ASSUME NEW k, NEW s, NEW g, WordOf(k, s, g) PROVE WordOf(k, s, g)'
  BY <1>1, SameProgress DEF WordOf
<1> QED
  BY <1>1, LinkedSame DEF SignalMeaning

LEMMA CleanStep ==
    ASSUME TypeInv, Core, DoubleBuffered, NEW r \in Ranks, CleanNext(r)
    PROVE  Core'
<1>1. UNCHANGED <<round, snd, rcv, seen, used, data, stage, qp, active>>
  BY DEF CleanNext
<1>2. \A x \in Ranks : cleaned'[x] = IF x = r THEN TRUE ELSE cleaned[x]
  BY DEF CleanNext, TypeInv, TypeOK
<1>3. \A x \in Ranks : round[x] \in Int /\ round[x] >= 1
  BY DEF TypeInv, TypeOK
<1>4. \A x \in Ranks, b \in 0 .. 2, w \in Words :
          signal'[x][b][w] = IF x = r /\ b = Buf(round[r] + 1) THEN 0 ELSE signal[x][b][w]
  <2>1. signal \in [Ranks -> [0 .. 2 -> [Words -> Int]]]
    BY DEF TypeInv, TypeOK
  <2>2. CleanBuf(round[r]) = Buf(round[r] + 1)
    BY <1>3, Halves
  <2>3. signal' = [signal EXCEPT ![r][Buf(round[r] + 1)] = [w \in Words |-> 0]]
    BY <2>2 DEF CleanNext
  <2> DEFINE c == Buf(round[r] + 1)
  <2>4. c \in 0 .. 2
    BY <1>3, BufInRange
  <2> HIDE DEF c
  <2> QED
    BY <2>1, <2>3, <2>4 DEF c
<1>5. LaunchOrder'
  BY <1>1, <1>2 DEF Core, LaunchOrder, AllSent
<1>6. Consumed'
  BY <1>1, SameProgress, LinkedSame DEF Core, Consumed
<1>7. QueueMeaning' /\ AddsOnce' /\ QueueWords' /\ RowsMeaning' /\ UsedMeaning'
  BY <1>1, SameQueues, SameRows, LinkedSame DEF Core, UsedMeaning
<1>8. DataBound'
  BY <1>1, <1>2, LinkedSame DEF Core, DataBound
<1>9. SignalMeaning'
  <2> SUFFICES ASSUME NEW s \in Ranks, NEW g \in Groups, Linked(s, Peer(g))
               PROVE  LET d == Peer(g)
                          k == round[d]
                      IN /\ WordOf(k, s, g)'
                         /\ cleaned'[d] => WordOf(k + 1, s, g)'
                         /\ ~cleaned'[d] /\ k > 1 =>
                               signal'[d][Buf(k + 1)][SendWord(k - 1, s, g)]
                                   = SignalValue(k - 1, s, g)
    BY <1>1, LinkedSame DEF SignalMeaning
  <2> DEFINE d == Peer(g)
             k == round[d]
  <2>1. d \in Ranks /\ k \in Int
    BY <1>3, GroupDigits
  <2>2. /\ Buf(k) \in 0 .. 2 /\ Buf(k + 1) \in 0 .. 2 /\ Buf(k) # Buf(k + 1)
        /\ SendWord(k, s, g) \in Words /\ SendWord(k + 1, s, g) \in Words
        /\ SendWord(k - 1, s, g) \in Words
    BY <2>1, BufInRange, Halves, SendWordInRange
  <2>3. /\ WordOf(k, s, g)
        /\ cleaned[d] => WordOf(k + 1, s, g)
        /\ ~cleaned[d] /\ k > 1 =>
              signal[d][Buf(k + 1)][SendWord(k - 1, s, g)] = SignalValue(k - 1, s, g)
    BY DEF Core, SignalMeaning
  <2>4. WordOf(k, s, g)'
    <3>1. signal'[d][Buf(k)][SendWord(k, s, g)] = signal[d][Buf(k)][SendWord(k, s, g)]
      BY <1>4, <2>1, <2>2
    <3> QED
      BY <1>1, <2>3, <3>1, SameProgress DEF WordOf
  <2>5. CASE d = r
    <3>1. cleaned[d] = FALSE
      BY <2>5 DEF CleanNext, TypeInv, TypeOK
    <3>2. ~Landed(k + 1, s, g)
      <4>1. Sent(k + 1, s, g) => round[s] > k
        BY <1>3, <2>1 DEF Sent
      <4>2. round[s] > k => cleaned[d]
        BY <2>1, CleanedBehind DEF Core
      <4> QED
        BY <3>1, <4>1, <4>2 DEF Landed
    <3>3. signal'[d][Buf(k + 1)][SendWord(k + 1, s, g)] = 0
      BY <1>4, <2>1, <2>2, <2>5
    <3>4. WordOf(k + 1, s, g)'
      BY <1>1, <3>2, <3>3, SameProgress DEF WordOf
    <3>5. cleaned'[d] = TRUE
      BY <1>2, <2>1, <2>5
    <3> QED
      BY <2>4, <3>4, <3>5
  <2>6. CASE d # r
    <3>1. /\ signal'[d][Buf(k + 1)][SendWord(k + 1, s, g)]
                 = signal[d][Buf(k + 1)][SendWord(k + 1, s, g)]
          /\ signal'[d][Buf(k + 1)][SendWord(k - 1, s, g)]
                 = signal[d][Buf(k + 1)][SendWord(k - 1, s, g)]
      BY <1>4, <2>1, <2>2, <2>6
    <3>3. cleaned'[d] = cleaned[d]
      BY <1>2, <2>1, <2>6
    <3>2. cleaned[d] => WordOf(k + 1, s, g)'
      BY <1>1, <2>3, <3>1, SameProgress DEF WordOf
    <3> QED
      BY <2>3, <2>4, <3>1, <3>2, <3>3
  <2> QED
    BY <2>5, <2>6
<1> QED
  BY <1>5, <1>6, <1>7, <1>8, <1>9 DEF Core

\* Rows of a round whose signal has landed are no longer queued.
LEMMA RowsBeforeSignal ==
    ASSUME QueueMeaning, NEW s \in Ranks, NEW g \in Groups, Linked(s, Peer(g)),
           NEW k, Landed(k, s, g)
    PROVE  ~Queued("rows", k, s, g)
<1> SUFFICES ASSUME Queued("rows", k, s, g) PROVE FALSE
  OBVIOUS
<1> DEFINE Q == Queue(s, g)
<1>1. PICK i \in DOMAIN Q : Is(Q[i], "rows", k, SendWord(k, s, g))
  BY DEF Queued
<1>2. Peer(g) \in Ranks /\ Qp(g) \in Qps
  BY GroupDigits
<1>3. PICK h \in Groups : Peer(h) = Peer(g) /\ Entry(s, h, Q, i)
  BY <1>1, <1>2 DEF QueueMeaning, Queue
<1>4. SendWord(k, s, h) = SendWord(k, s, g)
  BY <1>1, <1>3 DEF Entry, Is
<1>5. h = g
  BY <1>3, <1>4, WordUnique
<1>6. Sent(k, s, g)
  BY DEF Landed
<1>7. \E j \in DOMAIN Q : Is(Q[j], "add", k, SendWord(k, s, g))
  BY <1>1, <1>3, <1>5, <1>6 DEF Entry, Is
<1> QED
  BY <1>7 DEF Queued, Landed

\* The group that waits, seen from the channel it receives on.
LEMMA Arrived ==
    ASSUME Consumed, NEW r \in Ranks, NEW h \in Groups
    PROVE  LET s == Peer(h)
               g == Sender(r, h)
           IN /\ s \in Ranks /\ g \in Groups /\ Peer(g) = r /\ Sender(s, g) = h
              /\ RecvWord(round[r], h) = SendWord(round[r], s, g)
              /\ Linked(r, s) /\ rcv[r][h] # "wait" =>
                    /\ Landed(round[r], s, g)
                    /\ seen[r][h] = SignalValue(round[r], s, g)
<1> DEFINE s == Peer(h)
           g == Sender(r, h)
<1>1. s \in Ranks /\ g \in Groups /\ Peer(g) = r /\ Sender(s, g) = h
  BY GroupDigits, Ends
<1>2. RecvWord(round[r], h) = SendWord(round[r], s, g)
  BY SameWord
<1> HIDE DEF s, g
<1>3. Linked(r, s) /\ rcv[r][h] # "wait" =>
          Landed(round[r], s, g) /\ seen[r][h] = SignalValue(round[r], s, g)
  BY <1>1, LinkedBoth DEF Consumed
<1> QED
  BY <1>1, <1>2, <1>3 DEF s, g

\* What a group reads once its wait is over is of its own launch.
LEMMA ReadsOwn ==
    ASSUME TypeInv, Core, NEW r \in Ranks, NEW h \in Groups, Linked(r, Peer(h)),
           rcv[r][h] # "wait"
    PROVE  /\ seen[r][h] = SignalValue(round[r], Peer(h), Sender(r, h))
           /\ RoundRead(r, h) = round[r]
<1> DEFINE k == round[r]
           s == Peer(h)
           g == Sender(r, h)
<1>1. /\ s \in Ranks /\ g \in Groups /\ Peer(g) = r /\ k \in Rounds /\ k \in Int
      /\ RecvWord(k, h) = SendWord(k, s, g)
      /\ Landed(k, s, g) /\ seen[r][h] = SignalValue(k, s, g)
  BY Arrived DEF Core, LaunchOrder, Rounds
<1>2. Count(k, s, g) \in Nat
  BY <1>1, ValueTyped
<1>3. RowsToRead(r, h) = Count(k, s, g)
  <2>1. CASE Kind(k) = "dispatch"
    <3>1. seen[r][h] = -Count(k, s, g) - 1
      BY <1>1, <2>1 DEF SignalValue
    <3> QED
      BY <1>2, <2>1, <3>1 DEF RowsToRead
  <2>2. CASE Kind(k) # "dispatch"
    BY <2>2 DEF RowsToRead
  <2> QED
    BY <2>1, <2>2
<1>4. ASSUME Count(k, s, g) > 0 PROVE data[r][Buf(k)][RecvWord(k, h)] = k
  <2>0. Linked(s, Peer(g))
    BY <1>1, LinkedBoth
  <2>1. ~Queued("rows", k, s, g)
    BY <1>1, <2>0, RowsBeforeSignal DEF Core
  <2>2. Sent(k, s, g)
    BY <1>1 DEF Landed
  <2>3. Posted(k, s, g)
    BY <2>2 DEF Sent, Posted
  <2>4. k >= round[Peer(g)]
    BY <1>1
  <2>5. data[Peer(g)][Buf(k)][SendWord(k, s, g)] = k
    BY <1>1, <1>4, <2>0, <2>1, <2>3, <2>4 DEF Core, RowsMeaning
  <2> QED
    BY <1>1, <2>5
<1> QED
  BY <1>1, <1>3, <1>4 DEF RoundRead

LEMMA ReceiveStep ==
    ASSUME TypeInv, Core, NEW r \in Ranks, NEW h \in Groups, ReceiveSignal(r, h)
    PROVE  Core'
<1>1. UNCHANGED <<round, cleaned, snd, used, signal, data, stage, qp, active>>
  BY DEF ReceiveSignal, memVars
<1>2. \A x \in Ranks, y \in Groups :
          /\ rcv'[x][y] = IF x = r /\ y = h THEN "ready" ELSE rcv[x][y]
          /\ seen'[x][y] = IF x = r /\ y = h THEN SignalFor(r, h) ELSE seen[x][y]
  BY DEF ReceiveSignal, TypeInv, TypeOK
<1>3. /\ rcv[r][h] = "wait" /\ MayReceive(r, h) /\ SignalFor(r, h) # 0
      /\ round[r] \in Rounds
  BY DEF ReceiveSignal, Running
<1>4. LaunchOrder'
  BY <1>1, <1>2, <1>3 DEF Core, LaunchOrder, AllSent, MayReceive
<1>5. Consumed'
  <2> SUFFICES ASSUME NEW s \in Ranks, NEW g \in Groups, Linked(s, Peer(g))
               PROVE  LET d == Peer(g)
                          y == Sender(s, g)
                      IN /\ round[d] > 1 => Sent(round[d] - 1, s, g)
                         /\ rcv'[d][y] # "wait" =>
                               /\ Landed(round[d], s, g)
                               /\ seen'[d][y] = SignalValue(round[d], s, g)
    BY <1>1, SameProgress, LinkedSame DEF Consumed
  <2> DEFINE d == Peer(g)
             y == Sender(s, g)
  <2>1. d \in Ranks /\ y \in Groups /\ Peer(y) = s /\ Sender(d, y) = g
    BY GroupDigits, Ends
  <2>2. /\ round[d] > 1 => Sent(round[d] - 1, s, g)
        /\ rcv[d][y] # "wait" => /\ Landed(round[d], s, g)
                                 /\ seen[d][y] = SignalValue(round[d], s, g)
    BY DEF Core, Consumed
  <2>3. ASSUME d = r, y = h
        PROVE  Landed(round[d], s, g) /\ seen'[d][y] = SignalValue(round[d], s, g)
    <3>1. RecvWord(round[r], h) = SendWord(round[r], s, g)
      BY <2>1, <2>3, SameWord
    <3>2. SignalFor(r, h) = signal[Peer(g)][Buf(round[d])][SendWord(round[d], s, g)]
      BY <2>3, <3>1 DEF SignalFor
    <3>3. WordOf(round[d], s, g)
      BY DEF Core, SignalMeaning
    <3>4. Landed(round[d], s, g) /\ SignalFor(r, h) = SignalValue(round[d], s, g)
      BY <1>3, <3>2, <3>3 DEF WordOf
    <3> QED
      BY <1>2, <2>1, <2>3, <3>4
  <2>4. ASSUME ~(d = r /\ y = h)
        PROVE  rcv'[d][y] = rcv[d][y] /\ seen'[d][y] = seen[d][y]
    BY <1>2, <2>1, <2>4
  <2> HIDE DEF d, y
  <2>5. rcv'[d][y] # "wait" => /\ Landed(round[d], s, g)
                               /\ seen'[d][y] = SignalValue(round[d], s, g)
    BY <2>2, <2>3, <2>4
  <2> QED
    BY <2>2, <2>5 DEF d, y
<1>6. /\ QueueMeaning' /\ AddsOnce' /\ QueueWords'
      /\ RowsMeaning' /\ SignalMeaning' /\ DataBound'
  BY <1>1, SameQueues, SameRows, SameSignals, LinkedSame DEF Core, DataBound
<1>7. UsedMeaning'
  BY <1>1, <1>2, <1>3, LinkedSame DEF Core, UsedMeaning
<1> QED
  BY <1>4, <1>5, <1>6, <1>7 DEF Core

\* A group whose signal was there consumes its rows.
LEMMA ConsumeStep ==
    ASSUME TypeInv, Core, NEW r \in Ranks, NEW S \in SUBSET Groups,
           round[r] \in Rounds, AllSent(r),
           \A h \in S : rcv[r][h] = "ready",
           UNCHANGED <<round, cleaned, snd, seen, memVars, active>>,
           \A x \in Ranks, y \in Groups :
               /\ rcv'[x][y] = IF x = r /\ y \in S THEN "done" ELSE rcv[x][y]
               /\ used'[x][y] = IF x = r /\ y \in S THEN RoundRead(r, y) ELSE used[x][y]
    PROVE  Core'
<1>1. UNCHANGED <<round, cleaned, snd, seen, signal, data, stage, qp, active>>
  BY DEF memVars
<1>2. LaunchOrder'
  BY <1>1 DEF Core, LaunchOrder, AllSent
<1>3. Consumed'
  <2>1. \A x \in Ranks, y \in Groups : rcv'[x][y] # "wait" => rcv[x][y] # "wait"
    OBVIOUS
  <2> QED
    BY <1>1, <2>1, SameProgress, LinkedSame, GroupDigits, Ends DEF Core, Consumed
<1>4. /\ QueueMeaning' /\ AddsOnce' /\ QueueWords'
      /\ RowsMeaning' /\ SignalMeaning' /\ DataBound'
  BY <1>1, SameQueues, SameRows, SameSignals, LinkedSame DEF Core, DataBound
<1>5. UsedMeaning'
  <2>1. \A y \in S : Linked(r, Peer(y)) => RoundRead(r, y) = round[r]
    BY ReadsOwn
  <2> QED
    BY <1>1, <2>1, LinkedSame DEF Core, UsedMeaning
<1> QED
  BY <1>2, <1>3, <1>4, <1>5 DEF Core

LEMMA CopyStep ==
    ASSUME TypeInv, Core, NEW r \in Ranks, NEW h \in Groups, CopyRows(r, h)
    PROVE  Core'
<1> DEFINE S == {h}
<1>1. \A x \in Ranks, y \in Groups :
          /\ rcv'[x][y] = IF x = r /\ y \in S THEN "done" ELSE rcv[x][y]
          /\ used'[x][y] = IF x = r /\ y \in S THEN RoundRead(r, y) ELSE used[x][y]
  BY DEF CopyRows, TypeInv, TypeOK
<1>2. AllSent(r)
  BY DEF CopyRows, Core, LaunchOrder
<1>3. UNCHANGED <<round, cleaned, snd, seen, memVars, active>> /\ round[r] \in Rounds
      /\ rcv[r][h] = "ready"
  BY DEF CopyRows, Running
<1>4. S \in SUBSET Groups /\ \A y \in S : rcv[r][y] = "ready"
  BY <1>3
<1> HIDE DEF S
<1> QED
  BY <1>1, <1>2, <1>3, <1>4, ConsumeStep

LEMMA ReduceStep ==
    ASSUME TypeInv, Core, NEW r \in Ranks, Reduce(r)
    PROVE  Core'
<1>1. \A x \in Ranks, y \in Groups :
          /\ rcv'[x][y] = IF x = r /\ y \in Groups THEN "done" ELSE rcv[x][y]
          /\ used'[x][y] = IF x = r /\ y \in Groups THEN RoundRead(r, y) ELSE used[x][y]
  BY DEF Reduce, TypeInv, TypeOK
<1>2. /\ AllSent(r) /\ UNCHANGED <<round, cleaned, snd, seen, memVars, active>>
      /\ round[r] \in Rounds /\ \A h \in Groups : rcv[r][h] = "ready"
  BY DEF Reduce, Running
<1> QED
  BY <1>1, <1>2, ConsumeStep

LEMMA LaunchStep ==
    ASSUME TypeInv, Core, DoubleBuffered, NEW r \in Ranks, NextLaunch(r)
    PROVE  Core'
<1>0. PICK R \in Int : R = round[r]
  BY DEF TypeInv, TypeOK
<1>1. UNCHANGED <<used, signal, data, stage, qp, active>>
      /\ \A h \in Groups : rcv[r][h] = "done"
  BY DEF NextLaunch, memVars
<1>2. \A x \in Ranks : round[x] \in Int /\ round[x] >= 1
  BY DEF TypeInv, TypeOK
<1>3. \A x \in Ranks : round'[x] = IF x = r THEN R + 1 ELSE round[x]
  BY <1>0 DEF NextLaunch, TypeInv, TypeOK
<1>4. \A x \in Ranks : cleaned'[x] = IF x = r THEN FALSE ELSE cleaned[x]
  BY DEF NextLaunch, TypeInv, TypeOK
<1>5. \A x \in Ranks, y \in Groups :
          /\ snd'[x][y] = IF x = r THEN "post" ELSE snd[x][y]
          /\ rcv'[x][y] = IF x = r THEN "wait" ELSE rcv[x][y]
          /\ seen'[x][y] = IF x = r THEN 0 ELSE seen[x][y]
  BY DEF NextLaunch, TypeInv, TypeOK
<1>6. \A g \in Groups : snd[r][g] = "done"
  BY <1>1 DEF Core, LaunchOrder, AllSent
<1>7. cleaned[r]
  <2>1. PICK g \in Groups : Peer(g) = r
    BY EveryPair
  <2> QED
    BY <1>6, <2>1 DEF Core, LaunchOrder
<1>8. ASSUME NEW k \in Int, NEW s \in Ranks, NEW g \in Groups
      PROVE  /\ Posted(k, s, g)' <=> Posted(k, s, g)
             /\ Sent(k, s, g)' <=> Sent(k, s, g)
             /\ Landed(k, s, g)' <=> Landed(k, s, g)
             /\ Queued("rows", k, s, g)' <=> Queued("rows", k, s, g)
  <2>1. (Posted(k, s, g)' <=> Posted(k, s, g)) /\ (Sent(k, s, g)' <=> Sent(k, s, g))
    BY <1>0, <1>2, <1>3, <1>5, <1>6 DEF Posted, Sent
  <2>2. \A t \in {"rows", "add"} : Queued(t, k, s, g)' <=> Queued(t, k, s, g)
    BY <1>1 DEF Queued, Queue, Is
  <2> QED
    BY <2>1, <2>2 DEF Landed
<1>9. ASSUME NEW s \in Ranks, NEW g \in Groups, Peer(g) = r, Linked(s, r)
      PROVE  Landed(R, s, g)
  <2>1. Sender(s, g) \in Groups
    BY Ends
  <2> QED
    BY <1>0, <1>1, <1>9, <2>1 DEF Core, Consumed
<1>10. LaunchOrder'
  <2> SUFFICES ASSUME NEW x \in Ranks, NEW g \in Groups
               PROVE  /\ snd'[x][g] = "done" => cleaned'[x]
                      /\ rcv'[x][g] # "wait" /\ Kind(round'[x]) = "dispatch" => AllSent(x)'
                      /\ rcv'[x][g] = "done" => AllSent(x)'
                      /\ rcv'[x][g] # "wait" => round'[x] \in Rounds
    BY DEF LaunchOrder
  <2>1. CASE x = r
    BY <1>5, <2>1
  <2>2. CASE x # r
    <3>1. round'[x] = round[x]
      BY <1>3, <2>2
    <3>2. cleaned'[x] = cleaned[x]
      BY <1>4, <2>2
    <3>3. \A y \in Groups : snd'[x][y] = snd[x][y] /\ rcv'[x][y] = rcv[x][y]
      BY <1>5, <2>2
    <3> QED
      BY <3>1, <3>2, <3>3 DEF Core, LaunchOrder, AllSent
  <2> QED
    BY <2>1, <2>2
<1>11. Consumed'
  <2> SUFFICES ASSUME NEW s \in Ranks, NEW g \in Groups, NEW d, NEW h, NEW n,
                      d = Peer(g), h = Sender(s, g), n = round'[d], Linked(s, d)
               PROVE  /\ n > 1 => Sent(n - 1, s, g)'
                      /\ rcv'[d][h] # "wait" =>
                            Landed(n, s, g)' /\ seen'[d][h] = SignalValue(n, s, g)
    BY <1>1, LinkedSame DEF Consumed
  <2>1. d \in Ranks /\ h \in Groups
    BY GroupDigits, Ends
  <2>2. CASE d = r
    <3>1. Sent(R, s, g)
      BY <1>9, <2>2 DEF Landed
    <3>2. n - 1 = R /\ rcv'[d][h] = "wait"
      BY <1>0, <1>3, <1>5, <2>1, <2>2
    <3> QED
      BY <1>8, <3>1, <3>2
  <2>3. CASE d # r
    <3>1. /\ n = round[d] /\ rcv'[d][h] = rcv[d][h] /\ seen'[d][h] = seen[d][h]
          /\ n \in Int
      BY <1>2, <1>3, <1>5, <2>1, <2>3
    <3>2. /\ n > 1 => Sent(n - 1, s, g)
          /\ rcv[d][h] # "wait" => /\ Landed(n, s, g)
                                   /\ seen[d][h] = SignalValue(n, s, g)
      BY <3>1 DEF Core, Consumed
    <3> QED
      BY <1>8, <3>1, <3>2
  <2> QED
    BY <2>2, <2>3
<1>12. AddsOnce' /\ QueueWords'
  BY <1>1, LinkedSame DEF Core, AddsOnce, QueueWords
<1>13. QueueMeaning'
  <2> SUFFICES ASSUME NEW s \in Ranks, NEW d \in Ranks, NEW q \in Qps,
                      NEW i \in DOMAIN qp[s][d][q], Linked(s, d)
               PROVE  LET m == qp[s][d][q][i]
                      IN /\ ~Direct(s, d) /\ m.rnd >= round'[d] /\ m.buf = Buf(m.rnd)
                         /\ \E g \in Groups :
                               /\ Peer(g) = d /\ Qp(g) = q
                               /\ Entry(s, g, qp[s][d][q], i)'
    BY <1>1, LinkedSame DEF QueueMeaning, Direct
  <2> DEFINE Q == qp[s][d][q]
             m == Q[i]
  <2>1. /\ m \in Requests /\ ~Direct(s, d) /\ m.buf = Buf(m.rnd)
        /\ m.rnd \in {round[d], round[d] + 1}
        /\ \E g \in Groups : Peer(g) = d /\ Qp(g) = q /\ Entry(s, g, Q, i)
    BY RequestFacts DEF Core
  <2>2. PICK g \in Groups : Peer(g) = d /\ Qp(g) = q /\ Entry(s, g, Q, i)
    BY <2>1
  <2>3. m.rnd \in Int /\ m.type \in {"rows", "add"}
    BY <2>1 DEF Requests, Rounds
  <2>4. Entry(s, g, Q, i)'
    BY <1>1, <1>8, <2>2, <2>3 DEF Entry, Is
  <2>5. ASSUME d = r PROVE m.rnd # R
    <3> SUFFICES ASSUME m.rnd = R PROVE FALSE
      OBVIOUS
    <3>1. Landed(R, s, g)
      BY <1>9, <2>2, <2>5
    <3>2. ~Queued("rows", R, s, g) /\ ~Queued("add", R, s, g)
      BY <2>2, <3>1, RowsBeforeSignal DEF Core, Landed
    <3>3. Queue(s, g) = Q
      BY <2>2 DEF Queue
    <3>4. Is(m, m.type, R, SendWord(R, s, g))
      BY <2>2 DEF Entry, Is
    <3>5. Queued(m.type, R, s, g)
      BY <3>3, <3>4 DEF Queued
    <3> QED
      BY <2>3, <3>2, <3>5
  <2>6. m.rnd >= round'[d]
    <3>1. round'[d] = IF d = r THEN R + 1 ELSE round[d]
      BY <1>3
    <3> HIDE DEF m
    <3> QED
      BY <1>0, <1>2, <2>1, <2>3, <2>5, <3>1
  <2> QED
    BY <2>1, <2>2, <2>4, <2>6
<1>14. SignalMeaning'
  <2> SUFFICES ASSUME NEW s \in Ranks, NEW g \in Groups, NEW d, NEW k,
                      d = Peer(g), k = round'[d], Linked(s, d)
               PROVE  /\ WordOf(k, s, g)'
                      /\ cleaned'[d] => WordOf(k + 1, s, g)'
                      /\ ~cleaned'[d] /\ k > 1 =>
                            signal[d][Buf(k + 1)][SendWord(k - 1, s, g)]
                                = SignalValue(k - 1, s, g)
    BY <1>1, LinkedSame DEF SignalMeaning
  <2>1. d \in Ranks
    BY GroupDigits
  <2>2. ASSUME NEW n \in Int, WordOf(n, s, g) PROVE WordOf(n, s, g)'
    BY <1>1, <1>8, <2>2 DEF WordOf
  <2>3. PICK n \in Int : n = round[d]
    BY <1>2, <2>1
  <2>4. /\ WordOf(n, s, g)
        /\ cleaned[d] => WordOf(n + 1, s, g)
        /\ ~cleaned[d] /\ n > 1 =>
              signal[d][Buf(n + 1)][SendWord(n - 1, s, g)] = SignalValue(n - 1, s, g)
    BY <2>3 DEF Core, SignalMeaning
  <2>5. CASE d = r
    <3>1. n = R /\ k = R + 1 /\ k - 1 = R
      BY <1>0, <1>3, <2>1, <2>3, <2>5
    <3>2. WordOf(k, s, g)'
      BY <1>7, <2>2, <2>4, <2>5, <3>1
    <3>3. signal[d][Buf(R)][SendWord(R, s, g)] = SignalValue(R, s, g)
      BY <1>9, <2>4, <2>5, <3>1 DEF WordOf
    <3>4. Buf(k + 1) = Buf(R)
      <4>1. Buf(R + 2) = Buf(R) /\ k + 1 = R + 2
        BY <3>1, Halves
      <4> QED
        BY <4>1
    <3>5. cleaned'[d] = FALSE
      BY <1>4, <2>1, <2>5
    <3> QED
      BY <3>1, <3>2, <3>3, <3>4, <3>5
  <2>6. CASE d # r
    <3>1. k = n
      BY <1>3, <2>1, <2>3, <2>6
    <3>2. cleaned'[d] = cleaned[d]
      BY <1>4, <2>1, <2>6
    <3>3. WordOf(n, s, g)' /\ (cleaned[d] => WordOf(n + 1, s, g)')
      BY <2>2, <2>4
    <3> QED
      BY <2>4, <3>1, <3>2, <3>3
  <2> QED
    BY <2>5, <2>6
<1>15. RowsMeaning'
  <2> SUFFICES ASSUME NEW s \in Ranks, NEW g \in Groups, NEW k \in Rounds,
                      k >= round'[Peer(g)], Posted(k, s, g)', Count(k, s, g) > 0,
                      ~Queued("rows", k, s, g)', Linked(s, Peer(g))
               PROVE  data[Peer(g)][Buf(k)][SendWord(k, s, g)] = k
    BY <1>1, LinkedSame DEF RowsMeaning
  <2>1. k \in Int /\ Peer(g) \in Ranks
    BY GroupDigits DEF Rounds
  <2>2. k >= round[Peer(g)]
    BY <1>0, <1>2, <1>3, <2>1
  <2> QED
    BY <1>8, <2>1, <2>2 DEF Core, RowsMeaning
<1>16. DataBound'
  <2> SUFFICES ASSUME NoneGivenUp, NEW d \in Ranks, NEW b \in 0 .. 1, NEW w \in Words
               PROVE  LET k == data[d][b][w]
                      IN /\ k # 0 => Buf(k) = b
                         /\ k <= round'[d] + 1
                         /\ ~cleaned'[d] => k <= round'[d]
    BY <1>1, LinkedSame DEF DataBound
  <2> DEFINE k == data[d][b][w]
  <2>1. k \in Int
    <3>1. data \in [Ranks -> [0 .. 1 -> [Words -> 0 .. LastRound]]]
      BY DEF TypeInv, TypeOK
    <3> QED
      BY <3>1
  <2>2. /\ k # 0 => Buf(k) = b
        /\ k <= round[d] + 1
        /\ ~cleaned[d] => k <= round[d]
    BY DEF Core, DataBound
  <2> HIDE DEF k
  <2>3. round'[d] = IF d = r THEN round[d] + 1 ELSE round[d]
    BY <1>0, <1>3
  <2>4. k <= round'[d] + 1
    BY <1>2, <2>1, <2>2, <2>3
  <2>5. d = r => k <= round'[d]
    BY <1>2, <2>1, <2>2, <2>3
  <2>6. d # r => (~cleaned'[d] => k <= round'[d])
    <3>1. d # r => cleaned'[d] = cleaned[d]
      BY <1>4
    <3> QED
      BY <2>2, <2>3, <3>1
  <2> QED
    BY <2>2, <2>4, <2>5, <2>6 DEF k
<1>17. UsedMeaning'
  <2>1. \A x \in Ranks, y \in Groups :
            Linked(x, Peer(y)) =>
                used[x][y] = IF rcv[x][y] = "done" THEN round[x] ELSE round[x] - 1
    BY DEF Core, UsedMeaning
  <2>2. \A x \in Ranks, y \in Groups :
            Linked(x, Peer(y)) =>
                used[x][y] = IF rcv'[x][y] = "done" THEN round'[x] ELSE round'[x] - 1
    BY <1>0, <1>1, <1>2, <1>3, <1>5, <2>1
  <2> QED
    BY <1>1, <2>2, LinkedSame DEF UsedMeaning
<1> QED
  BY <1>10, <1>11, <1>12, <1>13, <1>14, <1>15, <1>16, <1>17 DEF Core

\* Signals stay sent and stay landed.
LEMMA ConsumedKept ==
    ASSUME TypeInv, Consumed, UNCHANGED <<round, rcv, seen, active>>,
           \A k \in Int, s \in Ranks, g \in Groups :
               /\ Sent(k, s, g) => Sent(k, s, g)'
               /\ Linked(s, Peer(g)) /\ Landed(k, s, g) => Landed(k, s, g)'
    PROVE  Consumed'
<1> SUFFICES ASSUME NEW s \in Ranks, NEW g \in Groups, NEW n, n = round[Peer(g)],
                    Linked(s, Peer(g))
             PROVE  /\ n > 1 => Sent(n - 1, s, g)'
                    /\ rcv[Peer(g)][Sender(s, g)] # "wait" =>
                          /\ Landed(n, s, g)'
                          /\ seen[Peer(g)][Sender(s, g)] = SignalValue(n, s, g)
  BY LinkedSame DEF Consumed
<1>1. n \in Int
  BY GroupDigits DEF TypeInv, TypeOK
<1>2. /\ n > 1 => Sent(n - 1, s, g)
      /\ rcv[Peer(g)][Sender(s, g)] # "wait" =>
            Landed(n, s, g) /\ seen[Peer(g)][Sender(s, g)] = SignalValue(n, s, g)
  BY DEF Consumed
<1>3. n - 1 \in Int
  BY <1>1
<1> QED
  BY <1>1, <1>2, <1>3

\* When a half is always used by the same kernel, a rank writes no word of another one
\* in any round.
LEMMA OtherWords ==
    ASSUME SteadyKinds, NEW k \in 1 .. LastRound + 2, NEW l \in 1 .. LastRound + 2,
           NEW s \in Ranks, NEW t \in Ranks, NEW g \in Groups, NEW h \in Groups,
           Buf(k) = Buf(l), Peer(g) = Peer(h), s # t
    PROVE  SendWord(k, s, g) # SendWord(l, t, h)
<1>1. Kind(k) = Kind(l)
  BY DEF SteadyKinds
<1>2. SendWord(l, t, h) = SendWord(k, t, h)
  BY <1>1 DEF SendWord
<1> QED
  BY <1>2, WordUnique

\* No signal lands and no word is written, between linked ranks.
LEMMA SignalsKept ==
    ASSUME TypeInv, SignalMeaning, DoubleBuffered, UNCHANGED <<round, cleaned, active>>,
           \A s \in Ranks, g \in Groups : Linked(s, Peer(g)) =>
               /\ \A k \in Int : Landed(k, s, g)' <=> Landed(k, s, g)
               /\ \A k \in 1 .. LastRound + 2 :
                     signal'[Peer(g)][Buf(k)][SendWord(k, s, g)]
                         = signal[Peer(g)][Buf(k)][SendWord(k, s, g)]
    PROVE  SignalMeaning'
<1> SUFFICES ASSUME NEW s \in Ranks, NEW g \in Groups, NEW d, NEW n,
                    d = Peer(g), n = round[d], Linked(s, d)
             PROVE  /\ WordOf(n, s, g)'
                    /\ cleaned[d] => WordOf(n + 1, s, g)'
                    /\ ~cleaned[d] /\ n > 1 =>
                          signal'[d][Buf(n + 1)][SendWord(n - 1, s, g)]
                              = SignalValue(n - 1, s, g)
  BY LinkedSame DEF SignalMeaning
<1>1. n \in Int /\ n \in 1 .. LastRound + 1
  BY GroupDigits DEF TypeInv, TypeOK
<1>2. ASSUME NEW k \in 1 .. LastRound + 2, WordOf(k, s, g) PROVE WordOf(k, s, g)'
  BY <1>2 DEF WordOf
<1>3. /\ WordOf(n, s, g)
      /\ cleaned[d] => WordOf(n + 1, s, g)
      /\ ~cleaned[d] /\ n > 1 =>
            signal[d][Buf(n + 1)][SendWord(n - 1, s, g)] = SignalValue(n - 1, s, g)
  BY DEF SignalMeaning
<1>4. n > 1 => signal'[d][Buf(n + 1)][SendWord(n - 1, s, g)]
                   = signal[d][Buf(n + 1)][SendWord(n - 1, s, g)]
  <2>1. Buf(n - 1) = Buf(n + 1)
    BY <1>1, Halves
  <2>2. n > 1 => n - 1 \in 1 .. LastRound + 2
    BY <1>1, Sizes
  <2> QED
    BY <2>1, <2>2
<1>5. n \in 1 .. LastRound + 2 /\ n + 1 \in 1 .. LastRound + 2
  BY <1>1, Sizes
<1> QED
  BY <1>2, <1>3, <1>4, <1>5

\* No rows arrive, between linked ranks.
LEMMA RowsKept ==
    ASSUME RowsMeaning, DataBound, UNCHANGED <<round, cleaned, active>>,
           NoneGivenUp => data' = data,
           \A s \in Ranks, g \in Groups, k \in Rounds : Linked(s, Peer(g)) =>
               /\ Count(k, s, g) > 0 /\ Posted(k, s, g)' /\ ~Queued("rows", k, s, g)' =>
                     Posted(k, s, g) /\ ~Queued("rows", k, s, g)
               /\ data'[Peer(g)][Buf(k)][SendWord(k, s, g)]
                      = data[Peer(g)][Buf(k)][SendWord(k, s, g)]
    PROVE  RowsMeaning' /\ DataBound'
<1>1. DataBound'
  BY LinkedSame DEF DataBound
<1>2. RowsMeaning'
  <2> SUFFICES ASSUME NEW s \in Ranks, NEW g \in Groups, NEW k \in Rounds,
                      Linked(s, Peer(g)), k >= round[Peer(g)], Posted(k, s, g)',
                      Count(k, s, g) > 0, ~Queued("rows", k, s, g)'
               PROVE  data'[Peer(g)][Buf(k)][SendWord(k, s, g)] = k
    BY LinkedSame DEF RowsMeaning
  <2> QED
    BY DEF RowsMeaning
<1> QED
  BY <1>1, <1>2

\* A signal of round k that reaches the receiver.
LEMMA SignalWrite ==
    ASSUME TypeInv, Core, DoubleBuffered, NEW r \in Ranks, NEW g \in Groups,
           NEW k \in {round[Peer(g)], round[Peer(g)] + 1},
           k # round[Peer(g)] => cleaned[Peer(g)],
           UNCHANGED <<round, cleaned, active>>,
           \A x \in Ranks, b \in 0 .. 2, w \in Words :
               signal'[x][b][w] =
                   IF x = Peer(g) /\ b = Buf(k) /\ w = SendWord(k, r, g)
                   THEN SignalValue(k, r, g) ELSE signal[x][b][w],
           \A l \in Int, s \in Ranks, h \in Groups : Linked(s, Peer(h)) =>
               (Landed(l, s, h)' <=> Landed(l, s, h) \/ (l = k /\ s = r /\ h = g))
    PROVE  SignalMeaning'
<1> SUFFICES ASSUME NEW s \in Ranks, NEW h \in Groups, NEW d, NEW n,
                    d = Peer(h), n = round[d], Linked(s, d)
             PROVE  /\ WordOf(n, s, h)'
                    /\ cleaned[d] => WordOf(n + 1, s, h)'
                    /\ ~cleaned[d] /\ n > 1 =>
                          signal'[d][Buf(n + 1)][SendWord(n - 1, s, h)]
                              = SignalValue(n - 1, s, h)
  BY LinkedSame DEF SignalMeaning
<1>1. d \in Ranks /\ n \in Int /\ Peer(g) \in Ranks
  BY GroupDigits DEF TypeInv, TypeOK
<1>2. /\ WordOf(n, s, h)
      /\ cleaned[d] => WordOf(n + 1, s, h)
      /\ ~cleaned[d] /\ n > 1 =>
            signal[d][Buf(n + 1)][SendWord(n - 1, s, h)] = SignalValue(n - 1, s, h)
  BY DEF Core, SignalMeaning
<1>3. ASSUME NEW l \in {n, n + 1}, WordOf(l, s, h) PROVE WordOf(l, s, h)'
  <2>1. l \in Int /\ Buf(l) \in 0 .. 2 /\ SendWord(l, s, h) \in Words
    BY <1>1, <1>3, BufInRange, SendWordInRange
  <2>2. CASE l = k /\ s = r /\ h = g
    <3>1. signal'[Peer(h)][Buf(l)][SendWord(l, s, h)] = SignalValue(l, s, h)
      BY <1>1, <2>1, <2>2
    <3>2. Landed(l, s, h)'
      BY <2>1, <2>2
    <3> QED
      BY <3>1, <3>2 DEF WordOf
  <2>3. CASE ~(l = k /\ s = r /\ h = g)
    <3>1. ~(d = Peer(g) /\ Buf(l) = Buf(k) /\ SendWord(l, s, h) = SendWord(k, r, g))
      <4> SUFFICES ASSUME d = Peer(g), Buf(l) = Buf(k),
                          SendWord(l, s, h) = SendWord(k, r, g)
                   PROVE  FALSE
        OBVIOUS
      <4>1. l = k
        BY <1>1, SameHalf
      <4>2. Peer(h) = Peer(g) /\ SendWord(k, s, h) = SendWord(k, r, g)
        BY <4>1
      <4>3. s = r /\ h = g
        BY <4>2, WordUnique
      <4> QED
        BY <2>3, <4>1, <4>3
    <3>2. signal'[Peer(h)][Buf(l)][SendWord(l, s, h)]
              = signal[Peer(h)][Buf(l)][SendWord(l, s, h)]
      BY <1>1, <2>1, <3>1
    <3>3. Landed(l, s, h)' <=> Landed(l, s, h)
      BY <2>1, <2>3
    <3> QED
      BY <1>3, <3>2, <3>3 DEF WordOf
  <2> QED
    BY <2>2, <2>3
<1>4. ASSUME ~cleaned[d], n > 1
      PROVE  signal'[d][Buf(n + 1)][SendWord(n - 1, s, h)] = SignalValue(n - 1, s, h)
  <2>1. Buf(n + 1) \in 0 .. 2 /\ SendWord(n - 1, s, h) \in Words /\ Buf(n + 1) # Buf(n)
    BY <1>1, BufInRange, SendWordInRange, Halves
  <2>2. d = Peer(g) => Buf(n + 1) # Buf(k)
    BY <1>1, <1>4, <2>1
  <2>3. signal'[d][Buf(n + 1)][SendWord(n - 1, s, h)]
            = signal[d][Buf(n + 1)][SendWord(n - 1, s, h)]
    BY <1>1, <2>1, <2>2
  <2> QED
    BY <1>2, <1>4, <2>3
<1> QED
  BY <1>2, <1>3, <1>4

\* Rows of round k that reach the receiver.
LEMMA RowsWrite ==
    ASSUME TypeInv, Core, DoubleBuffered, NEW r \in Ranks, NEW g \in Groups,
           NEW k \in {round[Peer(g)], round[Peer(g)] + 1},
           k # round[Peer(g)] => cleaned[Peer(g)],
           UNCHANGED <<round, cleaned, active>>,
           \A x \in Ranks, b \in 0 .. 1, w \in Words :
               data'[x][b][w] = IF x = Peer(g) /\ b = Buf(k) /\ w = SendWord(k, r, g)
                                THEN k ELSE data[x][b][w],
           \A l \in Rounds, s \in Ranks, h \in Groups : Linked(s, Peer(h)) =>
               /\ Posted(l, s, h)' => Posted(l, s, h) \/ (l = k /\ s = r /\ h = g)
               /\ Posted(l, s, h)' /\ ~Queued("rows", l, s, h)' =>
                     ~Queued("rows", l, s, h) \/ (l = k /\ s = r /\ h = g)
    PROVE  RowsMeaning' /\ DataBound'
<1>1. RowsMeaning'
  <2> SUFFICES ASSUME NEW s \in Ranks, NEW h \in Groups, NEW l \in Rounds,
                      Linked(s, Peer(h)), l >= round[Peer(h)], Posted(l, s, h)',
                      Count(l, s, h) > 0, ~Queued("rows", l, s, h)'
               PROVE  data'[Peer(h)][Buf(l)][SendWord(l, s, h)] = l
    BY LinkedSame DEF RowsMeaning
  <2>1. l \in Int /\ Buf(l) \in 0 .. 1 /\ SendWord(l, s, h) \in Words
        /\ Peer(h) \in Ranks /\ Peer(g) \in Ranks
    BY BufInRange, SendWordInRange, GroupDigits DEF Rounds
  <2>2. CASE l = k /\ s = r /\ h = g
    BY <2>1, <2>2
  <2>3. CASE ~(l = k /\ s = r /\ h = g)
    <3>1. Posted(l, s, h) /\ ~Queued("rows", l, s, h)
      BY <2>3
    <3>2. data[Peer(h)][Buf(l)][SendWord(l, s, h)] = l
      BY <3>1 DEF Core, RowsMeaning
    <3>3. l \in {round[Peer(h)], round[Peer(h)] + 1}
      BY <2>1, <3>1, RoundsUnderWay DEF Core
    <3>4. Peer(h) = Peer(g) /\ Buf(l) = Buf(k) => l = k
      <4>1. round[Peer(g)] \in Int
        BY <2>1 DEF TypeInv, TypeOK
      <4> QED
        BY <3>3, <4>1, SameHalf
    <3> QED
      BY <2>1, <3>2, <3>4
  <2> QED
    BY <2>2, <2>3
<1>2. DataBound'
  <2> SUFFICES ASSUME NoneGivenUp, NEW d \in Ranks, NEW b \in 0 .. 1, NEW w \in Words
               PROVE  LET n == data'[d][b][w]
                      IN /\ n # 0 => Buf(n) = b
                         /\ n <= round[d] + 1
                         /\ ~cleaned[d] => n <= round[d]
    BY LinkedSame DEF DataBound
  <2>1. CASE d = Peer(g) /\ b = Buf(k) /\ w = SendWord(k, r, g)
    <3>0. round[d] \in Int
      BY DEF TypeInv, TypeOK
    <3>1. data'[d][b][w] = k /\ round[d] \in Int
      BY <2>1, <3>0
    <3>2. k <= round[d] + 1 /\ (~cleaned[d] => k <= round[d])
      BY <2>1, <3>1
    <3> QED
      BY <2>1, <3>1, <3>2
  <2>2. CASE ~(d = Peer(g) /\ b = Buf(k) /\ w = SendWord(k, r, g))
    <3>1. data'[d][b][w] = data[d][b][w]
      BY <2>2
    <3> QED
      BY <3>1 DEF Core, DataBound
  <2> QED
    BY <2>1, <2>2
<1> QED
  BY <1>1, <1>2

\* Rows of a channel between ranks one of which has given up the other.
LEMMA RowsElsewhere ==
    ASSUME TypeInv, Core, SteadyKinds \/ NoneGivenUp, NEW r \in Ranks, NEW g \in Groups,
           ~Linked(r, Peer(g)), NEW k \in Rounds, UNCHANGED <<round, cleaned, active>>,
           \A x \in Ranks, b \in 0 .. 1, w \in Words :
               \/ x = Peer(g) /\ b = Buf(k) /\ w = SendWord(k, r, g)
               \/ data'[x][b][w] = data[x][b][w],
           \A l \in Rounds, s \in Ranks, h \in Groups : Linked(s, Peer(h)) =>
               /\ Posted(l, s, h)' => Posted(l, s, h) \/ (l = k /\ s = r /\ h = g)
               /\ Posted(l, s, h)' /\ ~Queued("rows", l, s, h)' =>
                     ~Queued("rows", l, s, h) \/ (l = k /\ s = r /\ h = g)
    PROVE  RowsMeaning' /\ DataBound'
<1>1. SteadyKinds /\ ~NoneGivenUp
  BY GroupDigits DEF NoneGivenUp, Linked
<1>2. ASSUME NEW s \in Ranks, NEW h \in Groups, NEW l \in Rounds, Linked(s, Peer(h))
      PROVE  /\ ~(s = r /\ h = g)
             /\ data'[Peer(h)][Buf(l)][SendWord(l, s, h)]
                    = data[Peer(h)][Buf(l)][SendWord(l, s, h)]
  <2>1. Peer(h) = Peer(g) => s # r
    BY <1>2
  <2>2. k \in 1 .. LastRound + 2 /\ l \in 1 .. LastRound + 2 /\ l \in Int
    BY Sizes DEF Rounds
  <2>3. Peer(h) \in Ranks /\ Buf(l) \in 0 .. 1 /\ SendWord(l, s, h) \in Words
    BY <2>2, GroupDigits, BufInRange, SendWordInRange
  <2>4. ~(Peer(h) = Peer(g) /\ Buf(l) = Buf(k) /\ SendWord(l, s, h) = SendWord(k, r, g))
    BY <1>1, <2>1, <2>2, OtherWords
  <2> QED
    BY <2>1, <2>3, <2>4
<1> QED
  BY <1>1, <1>2, RowsKept DEF Core

\* ... and a signal of such a channel.
LEMMA SignalElsewhere ==
    ASSUME TypeInv, Core, DoubleBuffered, SteadyKinds \/ NoneGivenUp,
           NEW r \in Ranks, NEW g \in Groups, ~Linked(r, Peer(g)), NEW k \in Rounds,
           UNCHANGED <<round, cleaned, active>>,
           \A x \in Ranks, b \in 0 .. 2, w \in Words :
               \/ x = Peer(g) /\ b = Buf(k) /\ w = SendWord(k, r, g)
               \/ signal'[x][b][w] = signal[x][b][w],
           \A l \in Int, s \in Ranks, h \in Groups : Linked(s, Peer(h)) =>
               (Landed(l, s, h)' <=> Landed(l, s, h) \/ (l = k /\ s = r /\ h = g))
    PROVE  SignalMeaning'
<1>1. SteadyKinds
  BY GroupDigits DEF NoneGivenUp, Linked
<1>2. ASSUME NEW s \in Ranks, NEW h \in Groups, Linked(s, Peer(h)),
             NEW l \in 1 .. LastRound + 2
      PROVE  signal'[Peer(h)][Buf(l)][SendWord(l, s, h)]
                 = signal[Peer(h)][Buf(l)][SendWord(l, s, h)]
  <2>1. Peer(h) = Peer(g) => s # r
    BY <1>2
  <2>2. k \in 1 .. LastRound + 2 /\ l \in Int
    BY Sizes DEF Rounds
  <2>3. Peer(h) \in Ranks /\ Buf(l) \in 0 .. 2 /\ SendWord(l, s, h) \in Words
    BY <2>2, GroupDigits, BufInRange, SendWordInRange
  <2>4. ~(Peer(h) = Peer(g) /\ Buf(l) = Buf(k) /\ SendWord(l, s, h) = SendWord(k, r, g))
    BY <1>1, <2>1, <2>2, OtherWords
  <2> QED
    BY <2>3, <2>4
<1>3. ASSUME NEW s \in Ranks, NEW h \in Groups, Linked(s, Peer(h)), NEW l \in Int
      PROVE  Landed(l, s, h)' <=> Landed(l, s, h)
  BY <1>3
<1> QED
  BY <1>2, <1>3, SignalsKept DEF Core

\* What a posted request adds to the queues.
LEMMA Appended ==
    ASSUME TypeInv, NEW r \in Ranks, NEW g \in Groups, NEW m \in Requests, Post(r, g, m),
           NEW s \in Ranks, NEW d \in Ranks, NEW q \in Qps
    PROVE  LET Q == qp[s][d][q]
               P == qp'[s][d][q]
           IN /\ Len(Q) \in Nat /\ DOMAIN Q = 1 .. Len(Q)
              /\ \A i \in DOMAIN Q : i \in DOMAIN P /\ P[i] = Q[i]
              /\ IF s = r /\ d = Peer(g) /\ q = Qp(g)
                 THEN /\ DOMAIN P = 1 .. Len(Q) + 1 /\ P[Len(Q) + 1] = m
                 ELSE P = Q
<1>1. Peer(g) \in Ranks /\ Qp(g) \in Qps
  BY GroupDigits
<1>2. qp \in [Ranks -> [Ranks -> [Qps -> Seq(Requests)]]]
  BY DEF TypeInv
<1>3. qp' = [qp EXCEPT ![r][Peer(g)][Qp(g)] = Append(qp[r][Peer(g)][Qp(g)], m)]
  BY DEF Post
<1>4. qp[s][d][q] \in Seq(Requests)
  BY <1>2
<1>5. qp'[s][d][q] = IF s = r /\ d = Peer(g) /\ q = Qp(g)
                     THEN Append(qp[s][d][q], m) ELSE qp[s][d][q]
  BY <1>1, <1>2, <1>3
<1> DEFINE Q == qp[s][d][q]
           P == qp'[s][d][q]
           here == s = r /\ d = Peer(g) /\ q = Qp(g)
<1>6. Q \in Seq(Requests) /\ P = IF here THEN Append(Q, m) ELSE Q
  BY <1>4, <1>5
<1> HIDE DEF Q, P, here
<1>7. Len(Q) \in Nat /\ DOMAIN Q = 1 .. Len(Q)
  BY <1>6
<1>8. CASE here
  <2>1. P = Append(Q, m)
    BY <1>6, <1>8
  <2>2. /\ DOMAIN P = 1 .. Len(Q) + 1 /\ P[Len(Q) + 1] = m
        /\ \A i \in 1 .. Len(Q) : P[i] = Q[i]
    BY <1>6, <2>1
  <2>3. \A i \in DOMAIN Q : i \in DOMAIN P /\ P[i] = Q[i]
    BY <1>7, <2>2
  <2> QED
    BY <1>7, <1>8, <2>2, <2>3 DEF Q, P, here
<1>9. CASE ~here
  BY <1>6, <1>7, <1>9 DEF Q, P, here
<1> QED
  BY <1>8, <1>9

LEMMA PostQueued ==
    ASSUME TypeInv, NEW r \in Ranks, NEW g \in Groups, NEW m \in Requests, Post(r, g, m),
           m.word = SendWord(m.rnd, r, g),
           NEW t, NEW k, NEW s \in Ranks, NEW h \in Groups
    PROVE  Queued(t, k, s, h)' <=>
               Queued(t, k, s, h) \/ (t = m.type /\ k = m.rnd /\ s = r /\ h = g)
<1>1. Peer(h) \in Ranks /\ Qp(h) \in Qps
  BY GroupDigits
<1> DEFINE Q == qp[s][Peer(h)][Qp(h)]
           P == qp'[s][Peer(h)][Qp(h)]
           w == SendWord(k, s, h)
           here == s = r /\ Peer(h) = Peer(g) /\ Qp(h) = Qp(g)
<1>2. /\ Len(Q) \in Nat /\ DOMAIN Q = 1 .. Len(Q)
      /\ \A i \in DOMAIN Q : i \in DOMAIN P /\ P[i] = Q[i]
      /\ here => DOMAIN P = 1 .. Len(Q) + 1 /\ P[Len(Q) + 1] = m
      /\ ~here => P = Q
  BY <1>1, Appended
<1>3. /\ Queued(t, k, s, h) <=> \E i \in DOMAIN Q : Is(Q[i], t, k, w)
      /\ Queued(t, k, s, h)' <=> \E i \in DOMAIN P : Is(P[i], t, k, w)
  BY DEF Queued, Queue, Is
<1>4. here /\ Is(m, t, k, w) <=> t = m.type /\ k = m.rnd /\ s = r /\ h = g
  BY WordUnique DEF Is
<1> HIDE DEF Q, P, w, here
<1>5. (\E i \in DOMAIN P : Is(P[i], t, k, w)) <=>
          (\E i \in DOMAIN Q : Is(Q[i], t, k, w)) \/ (here /\ Is(m, t, k, w))
  <2>1. CASE here
    <3>1. DOMAIN P = DOMAIN Q \cup {Len(Q) + 1}
      BY <1>2, <2>1
    <3> QED
      BY <1>2, <2>1, <3>1
  <2>2. CASE ~here
    BY <1>2, <2>2
  <2> QED
    BY <2>1, <2>2
<1> QED
  BY <1>3, <1>4, <1>5

\* A queued signal has been published, and only through a queue pair.
LEMMA QueuedSent ==
    ASSUME QueueMeaning, NEW s \in Ranks, NEW g \in Groups, NEW k, Queued("add", k, s, g),
           Linked(s, Peer(g))
    PROVE  Sent(k, s, g) /\ ~Direct(s, Peer(g))
<1> DEFINE Q == Queue(s, g)
<1>1. PICK i \in DOMAIN Q : Is(Q[i], "add", k, SendWord(k, s, g))
  BY DEF Queued
<1>2. Peer(g) \in Ranks /\ Qp(g) \in Qps
  BY GroupDigits
<1>3. ~Direct(s, Peer(g)) /\ \E h \in Groups : Peer(h) = Peer(g) /\ Entry(s, h, Q, i)
  BY <1>1, <1>2 DEF QueueMeaning, Queue
<1>4. PICK h \in Groups : Peer(h) = Peer(g) /\ Entry(s, h, Q, i)
  BY <1>3
<1>5. SendWord(k, s, h) = SendWord(k, s, g)
  BY <1>1, <1>4 DEF Entry, Is
<1>6. h = g
  BY <1>4, <1>5, WordUnique
<1> QED
  BY <1>1, <1>3, <1>4, <1>6 DEF Entry, Is

LEMMA PostWords ==
    ASSUME TypeInv, QueueWords, NEW r \in Ranks, NEW g \in Groups, NEW m \in Requests,
           Post(r, g, m), m.word = SendWord(m.rnd, r, g), m.buf = Buf(m.rnd)
    PROVE  QueueWords'
<1> SUFFICES ASSUME NEW s \in Ranks, NEW d \in Ranks, NEW q \in Qps,
                    NEW i \in DOMAIN qp'[s][d][q]
             PROVE  OwnWord(s, d, qp'[s][d][q][i])
  BY DEF QueueWords, OwnWord
<1>0. PICK Q, P : Q = qp[s][d][q] /\ P = qp'[s][d][q]
  OBVIOUS
<1> DEFINE here == s = r /\ d = Peer(g) /\ q = Qp(g)
<1>1. /\ Len(Q) \in Nat /\ DOMAIN Q = 1 .. Len(Q)
      /\ \A j \in DOMAIN Q : j \in DOMAIN P /\ P[j] = Q[j]
      /\ here => DOMAIN P = 1 .. Len(Q) + 1 /\ P[Len(Q) + 1] = m
      /\ ~here => P = Q
  BY <1>0, Appended
<1>2. CASE i \in DOMAIN Q
  BY <1>0, <1>1, <1>2 DEF QueueWords
<1>3. CASE i \notin DOMAIN Q
  <2>1. here /\ P[i] = m
    <3>1. here
      BY <1>0, <1>1, <1>3
    <3>2. i \in 1 .. Len(Q) + 1 /\ i \notin 1 .. Len(Q)
      BY <1>0, <1>1, <1>3, <3>1
    <3>3. i = Len(Q) + 1
      BY <1>1, <3>2
    <3> QED
      BY <1>1, <3>1, <3>3
  <2> QED
    BY <1>0, <2>1 DEF OwnWord
<1> QED
  BY <1>2, <1>3

\* A request that is posted keeps what the queues mean.
LEMMA PostQueues ==
    ASSUME TypeInv, Core, NEW r \in Ranks, NEW g \in Groups, NEW m \in Requests,
           Post(r, g, m), UNCHANGED <<round, active>>, ~Direct(r, Peer(g)),
           m.word = SendWord(m.rnd, r, g), m.buf = Buf(m.rnd),
           Linked(r, Peer(g)) => m.rnd >= round[Peer(g)],
           \A k \in Int, s \in Ranks, h \in Groups :
               /\ Posted(k, s, h) => Posted(k, s, h)'
               /\ Sent(k, s, h) => Sent(k, s, h)'
               /\ Sent(k, s, h)' => \/ Sent(k, s, h)
                                    \/ m.type = "add" /\ k = m.rnd /\ s = r /\ h = g,
           \A s, d \in Ranks, q \in Qps : \A i \in DOMAIN qp[s][d][q] :
               LET n == qp[s][d][q][i]
               IN Linked(s, d) /\ n.type = "rows" => stage'[s][n.buf] = n.rnd,
           Posted(m.rnd, r, g)',
           m.type = "add" => /\ Sent(m.rnd, r, g)' /\ ~Sent(m.rnd, r, g)
                             /\ m.val = SignalValue(m.rnd, r, g),
           m.type = "rows" => stage'[r][m.buf] = m.rnd /\ ~Sent(m.rnd, r, g)'
    PROVE  QueueMeaning' /\ AddsOnce' /\ QueueWords'
<1>1. m.type \in {"rows", "add"} /\ m.rnd \in Int
  BY DEF Requests, Rounds
<1>2. ASSUME NEW s \in Ranks, NEW d \in Ranks, NEW q \in Qps, Linked(s, d)
      PROVE  /\ \A i \in DOMAIN qp'[s][d][q] :
                    LET n == qp'[s][d][q][i]
                    IN /\ ~Direct(s, d) /\ n.rnd >= round[d] /\ n.buf = Buf(n.rnd)
                       /\ \E h \in Groups : /\ Peer(h) = d /\ Qp(h) = q
                                            /\ Entry(s, h, qp[s][d][q], i)'
             /\ AddOnce(qp'[s][d][q])
  <2>0. PICK Q, P : Q = qp[s][d][q] /\ P = qp'[s][d][q]
    OBVIOUS
  <2> DEFINE here == s = r /\ d = Peer(g) /\ q = Qp(g)
             N == Len(Q) + 1
  <2>1. /\ Len(Q) \in Nat /\ DOMAIN Q = 1 .. Len(Q)
        /\ \A i \in DOMAIN Q : i \in DOMAIN P /\ P[i] = Q[i]
        /\ here => DOMAIN P = 1 .. Len(Q) + 1 /\ P[Len(Q) + 1] = m
        /\ ~here => P = Q
    BY <2>0, Appended
  <2>2. /\ \A i \in DOMAIN P : i \in DOMAIN Q \/ (here /\ i = N)
        /\ here => N \in DOMAIN P /\ P[N] = m /\ \A i \in DOMAIN Q : i < N
    BY <2>1
  <2> HIDE DEF here, N
  <2>3. ASSUME NEW i \in DOMAIN Q
        PROVE  /\ ~Direct(s, d) /\ P[i].rnd >= round[d] /\ P[i].buf = Buf(P[i].rnd)
               /\ \E h \in Groups : Peer(h) = d /\ Qp(h) = q /\ Entry(s, h, P, i)'
    <3>1. P[i] = Q[i] /\ Q[i] \in Requests /\ Q[i].rnd \in Int
      <4>1. Q[i] \in Requests
        BY <2>0 DEF TypeInv, TypeOK
      <4> QED
        BY <2>1, <4>1 DEF Requests, Rounds
    <3>2. /\ ~Direct(s, d) /\ Q[i].rnd >= round[d] /\ Q[i].buf = Buf(Q[i].rnd)
          /\ \E h \in Groups : Peer(h) = d /\ Qp(h) = q /\ Entry(s, h, Q, i)
      BY <1>2, <2>0 DEF Core, QueueMeaning
    <3>3. PICK h \in Groups : Peer(h) = d /\ Qp(h) = q /\ Entry(s, h, Q, i)
      BY <3>2
    <3>4. Q[i].word = SendWord(Q[i].rnd, s, h) /\ Posted(Q[i].rnd, s, h)'
      BY <3>1, <3>3 DEF Entry
    <3>5. Q[i].type = "add" => /\ Sent(Q[i].rnd, s, h)'
                               /\ Q[i].val = SignalValue(Q[i].rnd, s, h)
      BY <3>1, <3>3 DEF Entry
    <3>6. Q[i].type = "rows" => stage'[s][Q[i].buf] = Q[i].rnd
      BY <1>2, <2>0
    <3>7. ASSUME Q[i].type = "rows", Sent(Q[i].rnd, s, h)'
          PROVE  \E j \in DOMAIN P : j > i /\ Is(P[j], "add", Q[i].rnd, Q[i].word)
      <4>1. CASE Sent(Q[i].rnd, s, h)
        <5>1. PICK j \in DOMAIN Q : j > i /\ Is(Q[j], "add", Q[i].rnd, Q[i].word)
          BY <3>3, <3>7, <4>1 DEF Entry
        <5> QED
          BY <2>1, <5>1
      <4>2. CASE ~Sent(Q[i].rnd, s, h)
        <5>1. m.type = "add" /\ Q[i].rnd = m.rnd /\ s = r /\ h = g
          BY <3>1, <3>7, <4>2
        <5>2. here /\ Q[i].word = m.word
          BY <3>3, <3>4, <5>1 DEF here
        <5> QED
          BY <2>1, <2>2, <5>1, <5>2 DEF Is
      <4> QED
        BY <4>1, <4>2
    <3>8. Entry(s, h, P, i)'
      BY <2>0, <3>1, <3>4, <3>5, <3>6, <3>7 DEF Entry
    <3> QED
      BY <3>1, <3>2, <3>3, <3>8
  <2>4. ASSUME here
        PROVE  /\ ~Direct(s, d) /\ P[N].rnd >= round[d] /\ P[N].buf = Buf(P[N].rnd)
               /\ \E h \in Groups : Peer(h) = d /\ Qp(h) = q /\ Entry(s, h, P, N)'
    <3>1. s = r /\ d = Peer(g) /\ q = Qp(g) /\ P[N] = m
      BY <2>2, <2>4 DEF here
    <3>2. Entry(s, g, P, N)'
      BY <1>1, <2>0, <3>1 DEF Entry
    <3> QED
      BY <1>2, <3>1, <3>2
  <2>5. ASSUME here, m.type = "add", NEW i \in DOMAIN Q
        PROVE  ~Is(Q[i], "add", m.rnd, m.word)
    <3>1. Queue(r, g) = Q
      BY <2>0, <2>5 DEF here, Queue
    <3>2. Is(Q[i], "add", m.rnd, m.word) => Queued("add", m.rnd, r, g)
      BY <3>1 DEF Queued
    <3> QED
      BY <1>2, <2>5, <3>2, QueuedSent DEF Core, here
  <2>6. ASSUME NEW i \in DOMAIN P, NEW j \in DOMAIN P,
               P[i].type = "add", Is(P[j], "add", P[i].rnd, P[i].word)
        PROVE  i = j
    <3>1. CASE i \in DOMAIN Q /\ j \in DOMAIN Q
      <4>1. Q[i].type = "add" /\ Is(Q[j], "add", Q[i].rnd, Q[i].word)
        BY <2>1, <2>6, <3>1
      <4> QED
        BY <1>2, <2>0, <3>1, <4>1 DEF Core, AddsOnce, AddOnce
    <3>2. CASE here /\ i = N /\ j \in DOMAIN Q
      BY <2>1, <2>2, <2>5, <2>6, <3>2
    <3>3. CASE here /\ j = N /\ i \in DOMAIN Q
      <4>1. m.type = "add" /\ Is(Q[i], "add", m.rnd, m.word)
        BY <2>1, <2>2, <2>6, <3>3 DEF Is
      <4> QED
        BY <2>5, <3>3, <4>1
    <3> QED
      BY <2>2, <3>1, <3>2, <3>3
  <2>7. AddOnce(P)
    BY <2>6 DEF AddOnce
  <2>8. \A i \in DOMAIN P :
            /\ ~Direct(s, d) /\ P[i].rnd >= round[d] /\ P[i].buf = Buf(P[i].rnd)
            /\ \E h \in Groups : Peer(h) = d /\ Qp(h) = q /\ Entry(s, h, P, i)'
    BY <2>2, <2>3, <2>4
  <2>9. \A i, h : Entry(s, h, P, i)' <=> Entry(s, h, qp[s][d][q], i)'
    BY <2>0 DEF Entry
  <2> QED
    BY <2>0, <2>7, <2>8, <2>9
<1>3. QueueMeaning'
  BY <1>2, LinkedSame DEF QueueMeaning, Direct
<1>4. AddsOnce'
  <2>1. \A s, d \in Ranks, q \in Qps : Linked(s, d) => AddOnce(qp'[s][d][q])
    BY <1>2
  <2> QED
    BY <2>1, LinkedSame DEF AddsOnce
<1>5. QueueWords'
  BY PostWords DEF Core
<1> QED
  BY <1>3, <1>4, <1>5

\* The round a group sends in is one the receiver can take.
LEMMA SendingRound ==
    ASSUME TypeInv, Core, NEW r \in Ranks, NEW g \in Groups, snd[r][g] # "done",
           Linked(r, Peer(g))
    PROVE  /\ round[r] \in {round[Peer(g)], round[Peer(g)] + 1}
           /\ round[r] # round[Peer(g)] => cleaned[Peer(g)]
<1>1. Peer(g) \in Ranks
  BY GroupDigits
<1>2. round[r] \in Int /\ round[Peer(g)] \in Int
  BY <1>1 DEF TypeInv, TypeOK
<1>3. round[Peer(g)] <= round[r]
  BY NotPassed DEF Core
<1>4. round[r] <= round[Peer(g)] + 1
  BY <1>1, OneAhead, LinkedBoth DEF Core
<1>5. round[r] # round[Peer(g)] => cleaned[Peer(g)]
  BY <1>1, <1>2, <1>3, CleanedBehind DEF Core
<1> QED
  BY <1>2, <1>3, <1>4, <1>5

LEMMA PostStep ==
    ASSUME TypeInv, Core, DoubleBuffered, SteadyKinds \/ NoneGivenUp,
           NEW r \in Ranks, NEW g \in Groups, PostRows(r, g)
    PROVE  Core'
<1>1. UNCHANGED <<round, cleaned, rcv, seen, used, signal, active>> /\ snd[r][g] = "post"
  BY DEF PostRows
<1>2. PICK k \in Rounds : k = round[r]
  BY DEF PostRows, Running
<1>3. PICK d \in Ranks : d = Peer(g)
  BY GroupDigits
<1>4. PICK b \in 0 .. 1 : b = Buf(k)
  BY BufInRange DEF Rounds
<1>5. PICK w \in Words : w = SendWord(k, r, g)
  BY SendWordInRange
<1>6. /\ k \in Int
      /\ Linked(r, d) =>
            k \in {round[d], round[d] + 1} /\ (k # round[d] => cleaned[d])
  BY <1>1, <1>2, <1>3, SendingRound DEF Rounds
<1>7. PICK m \in Requests :
          m = [type |-> "rows", buf |-> b, word |-> w, val |-> 0, rnd |-> k]
  <2>1. [type |-> "rows", buf |-> b, word |-> w, val |-> 0, rnd |-> k] \in Requests
    BY DEF Requests
  <2> QED
    BY <2>1
<1> DEFINE any == Count(k, r, g) > 0
<1>8. /\ IF any /\ (Kind(k) = "dispatch" \/ ~Direct(r, d))
         THEN stage' = [stage EXCEPT ![r][b] = k] ELSE UNCHANGED stage
      /\ IF any /\ Direct(r, d)
         THEN data' = [data EXCEPT ![d][b][w] = k] ELSE UNCHANGED data
      /\ IF any /\ ~Direct(r, d)
         THEN Post(r, g, m) ELSE UNCHANGED qp
  BY <1>2, <1>3, <1>4, <1>5, <1>7 DEF PostRows
<1> HIDE DEF any
<1>9. \A x \in Ranks, y \in Groups :
          snd'[x][y] = IF x = r /\ y = g THEN "signal" ELSE snd[x][y]
  BY DEF PostRows, TypeInv, TypeOK
<1>10. \A l \in Int, s \in Ranks, h \in Groups :
           /\ Posted(l, s, h)' <=> Posted(l, s, h) \/ (l = k /\ s = r /\ h = g)
           /\ Sent(l, s, h)' <=> Sent(l, s, h)
  BY <1>1, <1>2, <1>9 DEF Posted, Sent
<1>11. ~Sent(k, r, g)
  BY <1>1, <1>2, <1>6 DEF Sent
<1>12. LaunchOrder' /\ UsedMeaning'
  <2>1. \A x \in Ranks, y \in Groups : snd'[x][y] = "done" <=> snd[x][y] = "done"
    BY <1>1, <1>9
  <2>2. \A x \in Ranks : AllSent(x)' <=> AllSent(x)
    BY <2>1 DEF AllSent
  <2> QED
    BY <1>1, <2>1, <2>2, LinkedSame DEF Core, LaunchOrder, UsedMeaning
<1>13. \A l \in Rounds, s \in Ranks, h \in Groups : \A t \in {"rows", "add"} :
           Queued(t, l, s, h)' <=>
               \/ Queued(t, l, s, h)
               \/ any /\ ~Direct(r, d) /\ t = "rows" /\ l = k /\ s = r /\ h = g
  <2>1. CASE any /\ ~Direct(r, d)
    <3>1. Post(r, g, m) /\ m.word = SendWord(m.rnd, r, g) /\ m.type = "rows" /\ m.rnd = k
      BY <1>5, <1>7, <1>8, <2>1
    <3> QED
      BY <2>1, <3>1, PostQueued
  <2>2. CASE ~(any /\ ~Direct(r, d))
    <3>1. qp' = qp
      BY <1>8, <2>2
    <3> QED
      BY <2>2, <3>1 DEF Queued, Queue, Is
  <2> QED
    BY <2>1, <2>2
<1>14. \A l \in Int, s \in Ranks, h \in Groups : Landed(l, s, h)' <=> Landed(l, s, h)
  <2>1. ASSUME NEW l \in Int, NEW s \in Ranks, NEW h \in Groups
        PROVE  Queued("add", l, s, h)' <=> Queued("add", l, s, h)
    <3>1. CASE any /\ ~Direct(r, d)
      <4>2. Post(r, g, m) /\ m.word = SendWord(m.rnd, r, g) /\ m.type = "rows"
        BY <1>5, <1>7, <1>8, <3>1
      <4>3. Queued("add", l, s, h)' <=>
               \/ Queued("add", l, s, h)
               \/ "add" = m.type /\ l = m.rnd /\ s = r /\ h = g
        BY <4>2, PostQueued
      <4> QED
        BY <4>2, <4>3
    <3>2. CASE ~(any /\ ~Direct(r, d))
      <4>1. qp' = qp
        BY <1>8, <3>2
      <4> QED
        BY <4>1 DEF Queued, Queue, Is
    <3> QED
      BY <3>1, <3>2
  <2> QED
    BY <1>10, <2>1 DEF Landed
<1>15. Consumed'
  BY <1>1, <1>10, <1>14, ConsumedKept DEF Core
<1>16. SignalMeaning'
  BY <1>1, <1>14, SignalsKept DEF Core
<1>17. RowsMeaning' /\ DataBound'
  <2>1. CASE any /\ Direct(r, d)
    <3>1. data \in [Ranks -> [0 .. 1 -> [Words -> 0 .. LastRound]]]
      BY DEF TypeInv, TypeOK
    <3>2. \A x \in Ranks, y \in 0 .. 1, z \in Words :
              data'[x][y][z] = IF x = d /\ y = b /\ z = w THEN k ELSE data[x][y][z]
      BY <1>8, <2>1, <3>1
    <3>3. \A x \in Ranks, y \in 0 .. 1, z \in Words :
              data'[x][y][z] = IF x = Peer(g) /\ y = Buf(k) /\ z = SendWord(k, r, g)
                               THEN k ELSE data[x][y][z]
      BY <3>2, <1>3, <1>4, <1>5
    <3>4. \A l \in Rounds, s \in Ranks, h \in Groups : Linked(s, Peer(h)) =>
             /\ Posted(l, s, h)' => Posted(l, s, h) \/ (l = k /\ s = r /\ h = g)
             /\ Posted(l, s, h)' /\ ~Queued("rows", l, s, h)' =>
                   ~Queued("rows", l, s, h) \/ (l = k /\ s = r /\ h = g)
      BY <1>10, <1>13 DEF Rounds
    <3>5. CASE Linked(r, d)
      <4>1. k \in {round[Peer(g)], round[Peer(g)] + 1}
            /\ (k # round[Peer(g)] => cleaned[Peer(g)])
        BY <1>3, <1>6, <3>5
      <4>2. UNCHANGED <<round, cleaned, active>>
        BY <1>1
      <4> QED
        BY <3>3, <3>4, <4>1, <4>2, RowsWrite
    <3>6. CASE ~Linked(r, d)
      <4>1. UNCHANGED <<round, cleaned, active>> /\ ~Linked(r, Peer(g))
        BY <1>1, <1>3, <3>6
      <4>2. \A x \in Ranks, y \in 0 .. 1, z \in Words :
                \/ x = Peer(g) /\ y = Buf(k) /\ z = SendWord(k, r, g)
                \/ data'[x][y][z] = data[x][y][z]
        BY <3>3
      <4> QED
        BY <3>4, <4>1, <4>2, RowsElsewhere
    <3> QED
      BY <3>5, <3>6
  <2>2. CASE ~(any /\ Direct(r, d))
    <3>1. data' = data
      BY <1>8, <2>2
    <3>2. ASSUME NEW s \in Ranks, NEW h \in Groups, NEW l \in Rounds,
                 Count(l, s, h) > 0, Posted(l, s, h)', ~Queued("rows", l, s, h)'
          PROVE  Posted(l, s, h) /\ ~Queued("rows", l, s, h)
      <4>1. l \in Int
        BY DEF Rounds
      <4>2. ~(l = k /\ s = r /\ h = g)
        BY <1>13, <2>2, <3>2 DEF any
      <4> QED
        BY <1>10, <1>13, <3>2, <4>1, <4>2
    <3> QED
      BY <1>1, <3>1, <3>2, RowsKept DEF Core
  <2> QED
    BY <2>1, <2>2
<1>18. ASSUME NEW s \in Ranks, NEW x \in Ranks, NEW q \in Qps,
              NEW i \in DOMAIN qp[s][x][q], NEW n, n = qp[s][x][q][i], n.type = "rows",
              Linked(s, x)
       PROVE  stage'[s][n.buf] = n.rnd
  <2>1. /\ n \in Requests /\ n.buf = Buf(n.rnd) /\ n.rnd >= round[x] /\ n.rnd <= round[s]
        /\ stage[s][n.buf] = n.rnd
    <3>1. LET e == qp[s][x][q][i]
          IN /\ e \in Requests /\ e.buf = Buf(e.rnd)
             /\ e.rnd \in {round[x], round[x] + 1} /\ e.rnd <= round[s]
             /\ \E h \in Groups : /\ Peer(h) = x /\ Qp(h) = q
                                  /\ Entry(s, h, qp[s][x][q], i)
      BY <1>18, RequestFacts DEF Core
    <3>2. round[x] \in Int
      BY DEF TypeInv, TypeOK
    <3>3. stage[s][n.buf] = n.rnd
      BY <1>18, <3>1 DEF Entry
    <3> QED
      BY <1>18, <3>1, <3>2, <3>3
  <2>2. n.buf \in 0 .. 1 /\ n.rnd \in Int
    BY <2>1 DEF Requests, Rounds
  <2>3. stage \in [Ranks -> [0 .. 1 -> 0 .. LastRound]]
    BY DEF TypeInv, TypeOK
  <2>4. stage'[s][n.buf] = stage[s][n.buf] \/ (s = r /\ n.buf = b /\ stage'[s][n.buf] = k)
    <3>1. stage' = stage \/ stage' = [stage EXCEPT ![r][b] = k]
      BY <1>8
    <3> QED
      BY <2>2, <2>3, <3>1
  <2>5. ASSUME s = r, n.buf = b PROVE n.rnd = k
    <3>1. PICK t \in Int : t = k - 1
      BY <1>6
    <3>2. round[x] \in Int /\ k <= round[x] + 1
      <4>1. round[x] \in Int
        BY DEF TypeInv, TypeOK
      <4>2. round[r] <= round[x] + 1
        BY <1>18, <2>5, OneAhead, LinkedBoth DEF Core
      <4> QED
        BY <1>2, <4>1, <4>2
    <3>3. k \in {t, t + 1} /\ n.rnd \in {t, t + 1}
      BY <1>2, <1>6, <2>1, <2>2, <2>5, <3>1, <3>2
    <3>4. Buf(k) = Buf(n.rnd)
      BY <1>4, <2>1, <2>5
    <3> QED
      BY <3>1, <3>3, <3>4, SameHalf
  <2> QED
    BY <2>1, <2>4, <2>5
<1>19. QueueMeaning' /\ AddsOnce' /\ QueueWords'
  <2>1. CASE any /\ ~Direct(r, d)
    <3>2. /\ Post(r, g, m) /\ m.word = SendWord(m.rnd, r, g) /\ m.type = "rows"
          /\ m.rnd = k /\ m.buf = Buf(m.rnd) /\ m.buf = b
      BY <1>4, <1>5, <1>7, <1>8, <2>1
    <3>3. stage'[r][b] = k
      <4>1. stage \in [Ranks -> [0 .. 1 -> 0 .. LastRound]]
        BY DEF TypeInv, TypeOK
      <4> QED
        BY <1>8, <2>1, <4>1
    <3>4. Posted(m.rnd, r, g)' /\ ~Sent(m.rnd, r, g)'
      BY <1>6, <1>10, <1>11, <3>2
    <3>5. /\ Linked(r, Peer(g)) => m.rnd >= round[Peer(g)]
          /\ ~Direct(r, Peer(g)) /\ UNCHANGED <<round, active>>
      <4>1. round[d] \in Int
        BY DEF TypeInv, TypeOK
      <4>2. Linked(r, Peer(g)) => m.rnd >= round[Peer(g)]
        BY <1>3, <1>6, <3>2, <4>1
      <4> QED
        BY <1>1, <1>3, <2>1, <4>2
    <3>6. \A l \in Int, s \in Ranks, h \in Groups :
               /\ Posted(l, s, h) => Posted(l, s, h)'
               /\ Sent(l, s, h) => Sent(l, s, h)'
               /\ Sent(l, s, h)' => \/ Sent(l, s, h)
                                    \/ m.type = "add" /\ l = m.rnd /\ s = r /\ h = g
      BY <1>10
    <3>7. \A s, x \in Ranks, q \in Qps : \A i \in DOMAIN qp[s][x][q] :
              LET n == qp[s][x][q][i]
              IN Linked(s, x) /\ n.type = "rows" => stage'[s][n.buf] = n.rnd
      BY <1>18
    <3> QED
      BY <3>2, <3>3, <3>4, <3>5, <3>6, <3>7, PostQueues
  <2>2. CASE ~(any /\ ~Direct(r, d))
    <3>1. qp' = qp
      BY <1>8, <2>2
    <3>2. AddsOnce' /\ QueueWords'
      BY <1>1, <3>1, LinkedSame DEF Core, AddsOnce, QueueWords
    <3>3. QueueMeaning'
      <4> SUFFICES ASSUME NEW s \in Ranks, NEW x \in Ranks, NEW q \in Qps,
                          NEW i \in DOMAIN qp[s][x][q], Linked(s, x)
                   PROVE  LET n == qp[s][x][q][i]
                          IN /\ ~Direct(s, x) /\ n.rnd >= round[x] /\ n.buf = Buf(n.rnd)
                             /\ \E h \in Groups : /\ Peer(h) = x /\ Qp(h) = q
                                                  /\ Entry(s, h, qp[s][x][q], i)'
        BY <1>1, <3>1, LinkedSame DEF QueueMeaning, Direct
      <4>1. PICK Q : Q = qp[s][x][q]
        OBVIOUS
      <4>2. /\ ~Direct(s, x) /\ Q[i].rnd >= round[x] /\ Q[i].buf = Buf(Q[i].rnd)
            /\ \E h \in Groups : Peer(h) = x /\ Qp(h) = q /\ Entry(s, h, Q, i)
        BY <4>1 DEF Core, QueueMeaning
      <4>3. PICK h \in Groups : Peer(h) = x /\ Qp(h) = q /\ Entry(s, h, Q, i)
        BY <4>2
      <4>4. Q[i] \in Requests
        BY <4>1 DEF TypeInv, TypeOK
      <4>5. Q[i].rnd \in Int
        BY <4>4 DEF Requests, Rounds
      <4>6. Q[i].type = "rows" => stage'[s][Q[i].buf] = Q[i].rnd
        BY <1>18, <4>1
      <4>7. Entry(s, h, Q, i)'
        BY <1>10, <4>3, <4>5, <4>6 DEF Entry
      <4>8. Entry(s, h, qp[s][x][q], i)'
        BY <3>1, <4>1, <4>7 DEF Entry
      <4> QED
        BY <4>1, <4>2, <4>3, <4>8
    <3> QED
      BY <3>2, <3>3
  <2> QED
    BY <2>1, <2>2
<1> QED
  BY <1>12, <1>15, <1>16, <1>17, <1>19 DEF Core

LEMMA SendStep ==
    ASSUME TypeInv, Core, DoubleBuffered, SteadyKinds \/ NoneGivenUp,
           NEW r \in Ranks, NEW g \in Groups, SendSignal(r, g)
    PROVE  Core'
<1>1. /\ UNCHANGED <<round, cleaned, rcv, seen, used, data, stage, active>>
      /\ snd[r][g] = "signal" /\ cleaned[r]
  BY DEF SendSignal, MayPublish
<1>2. PICK k \in Rounds : k = round[r]
  BY DEF SendSignal, Running
<1>3. PICK d \in Ranks : d = Peer(g)
  BY GroupDigits
<1>4. PICK b \in 0 .. 1 : b = Buf(k)
  BY BufInRange DEF Rounds
<1>5. PICK w \in Words : w = SendWord(k, r, g)
  BY SendWordInRange
<1>6. PICK v \in Int : v = SignalValue(k, r, g)
  BY ValueTyped
<1>7. /\ k \in Int
      /\ Linked(r, d) =>
            k \in {round[d], round[d] + 1} /\ (k # round[d] => cleaned[d])
  BY <1>1, <1>2, <1>3, SendingRound DEF Rounds
<1>8. PICK m \in Requests :
          m = [type |-> "add", buf |-> b, word |-> w, val |-> v, rnd |-> k]
  <2>1. [type |-> "add", buf |-> b, word |-> w, val |-> v, rnd |-> k] \in Requests
    BY DEF Requests
  <2> QED
    BY <2>1
<1>9. IF Direct(r, d)
      THEN signal' = [signal EXCEPT ![d][b][w] = v] /\ UNCHANGED qp
      ELSE Post(r, g, m) /\ UNCHANGED signal
  BY <1>2, <1>3, <1>4, <1>5, <1>6, <1>8 DEF SendSignal
<1>10. \A x \in Ranks, y \in Groups :
           snd'[x][y] = IF x = r /\ y = g THEN "done" ELSE snd[x][y]
  BY DEF SendSignal, TypeInv, TypeOK
<1>11. \A l \in Int, s \in Ranks, h \in Groups :
           /\ Posted(l, s, h)' <=> Posted(l, s, h)
           /\ Sent(l, s, h)' <=> Sent(l, s, h) \/ (l = k /\ s = r /\ h = g)
  BY <1>1, <1>2, <1>10 DEF Posted, Sent
<1>12. ~Sent(k, r, g) /\ Posted(k, r, g)
  BY <1>1, <1>2, <1>7 DEF Sent, Posted
<1>13. LaunchOrder' /\ UsedMeaning'
  <2>1. \A x \in Ranks, y \in Groups :
            /\ snd[x][y] = "done" => snd'[x][y] = "done"
            /\ snd'[x][y] = "done" => snd[x][y] = "done" \/ (x = r /\ y = g)
    BY <1>10
  <2>2. \A x \in Ranks : AllSent(x) => AllSent(x)'
    BY <2>1 DEF AllSent
  <2> QED
    BY <1>1, <2>1, <2>2, LinkedSame DEF Core, LaunchOrder, UsedMeaning
<1>14. m.type = "add" /\ m.rnd = k /\ m.word = SendWord(k, r, g) /\ m.buf = Buf(k)
       /\ m.val = SignalValue(k, r, g)
  BY <1>4, <1>5, <1>6, <1>8
<1>15. ASSUME NEW t, NEW l, NEW s \in Ranks, NEW h \in Groups
       PROVE  Queued(t, l, s, h)' <=>
                  \/ Queued(t, l, s, h)
                  \/ ~Direct(r, d) /\ t = "add" /\ l = k /\ s = r /\ h = g
  <2>1. CASE Direct(r, d)
    BY <1>9, <2>1 DEF Queued, Queue, Is
  <2>2. CASE ~Direct(r, d)
    <3>1. Post(r, g, m) /\ m.word = SendWord(m.rnd, r, g)
      BY <1>9, <1>14, <2>2
    <3>2. Queued(t, l, s, h)' <=>
              Queued(t, l, s, h) \/ (t = m.type /\ l = m.rnd /\ s = r /\ h = g)
      BY <3>1, PostQueued
    <3> QED
      BY <1>14, <2>2, <3>2
  <2> QED
    BY <2>1, <2>2
<1>16. \A l \in Int, s \in Ranks, h \in Groups : Linked(s, Peer(h)) =>
           (Landed(l, s, h)' <=>
               Landed(l, s, h) \/ (Direct(r, d) /\ l = k /\ s = r /\ h = g))
  <2>1. Linked(r, Peer(g)) /\ Direct(r, d) => ~Queued("add", k, r, g)
    BY <1>3, QueuedSent DEF Core
  <2> QED
    BY <1>11, <1>12, <1>15, <2>1 DEF Landed
<1>17. Consumed'
  BY <1>1, <1>11, <1>16, ConsumedKept DEF Core
<1>18. RowsMeaning' /\ DataBound'
  <2>1. \A s \in Ranks, h \in Groups, l \in Rounds :
            /\ Posted(l, s, h)' => Posted(l, s, h)
            /\ ~Queued("rows", l, s, h)' => ~Queued("rows", l, s, h)
    BY <1>11, <1>15 DEF Rounds
  <2> QED
    BY <1>1, <2>1, RowsKept DEF Core
<1>20. CASE Direct(r, d)
  <2>1. SignalMeaning'
    <3>0. b \in 0 .. 2
      OBVIOUS
    <3>1. signal \in [Ranks -> [0 .. 2 -> [Words -> Int]]]
      BY DEF TypeInv, TypeOK
    <3>2. \A x \in Ranks, y \in 0 .. 2, z \in Words :
              signal'[x][y][z] = IF x = d /\ y = b /\ z = w THEN v ELSE signal[x][y][z]
      BY <1>9, <1>20, <3>0, <3>1
    <3>3. \A x \in Ranks, y \in 0 .. 2, z \in Words :
              signal'[x][y][z] = IF x = Peer(g) /\ y = Buf(k) /\ z = SendWord(k, r, g)
                                 THEN SignalValue(k, r, g) ELSE signal[x][y][z]
      BY <3>2, <1>3, <1>4, <1>5, <1>6
    <3>4. \A l \in Int, s \in Ranks, h \in Groups : Linked(s, Peer(h)) =>
              (Landed(l, s, h)' <=> Landed(l, s, h) \/ (l = k /\ s = r /\ h = g))
      BY <1>16, <1>20
    <3>5. UNCHANGED <<round, cleaned, active>>
      BY <1>1
    <3>6. CASE Linked(r, d)
      <4>1. k \in {round[Peer(g)], round[Peer(g)] + 1}
            /\ (k # round[Peer(g)] => cleaned[Peer(g)])
        BY <1>3, <1>7, <3>6
      <4> QED
        BY <3>3, <3>4, <3>5, <4>1, SignalWrite
    <3>7. CASE ~Linked(r, d)
      <4>1. \A x \in Ranks, y \in 0 .. 2, z \in Words :
                \/ x = Peer(g) /\ y = Buf(k) /\ z = SendWord(k, r, g)
                \/ signal'[x][y][z] = signal[x][y][z]
        BY <3>3
      <4> QED
        BY <1>3, <3>4, <3>5, <3>7, <4>1, SignalElsewhere
    <3> QED
      BY <3>6, <3>7
  <2>2. AddsOnce' /\ QueueWords' /\ qp' = qp
    BY <1>1, <1>9, <1>20, LinkedSame DEF Core, AddsOnce, QueueWords
  <2>3. QueueMeaning'
    <3> SUFFICES ASSUME NEW s \in Ranks, NEW x \in Ranks, NEW q \in Qps,
                        NEW i \in DOMAIN qp[s][x][q], Linked(s, x)
                 PROVE  LET n == qp[s][x][q][i]
                        IN /\ ~Direct(s, x) /\ n.rnd >= round[x] /\ n.buf = Buf(n.rnd)
                           /\ \E h \in Groups : /\ Peer(h) = x /\ Qp(h) = q
                                                /\ Entry(s, h, qp[s][x][q], i)'
      BY <1>1, <2>2, LinkedSame DEF QueueMeaning, Direct
    <3>1. PICK Q : Q = qp[s][x][q]
      OBVIOUS
    <3>2. /\ ~Direct(s, x) /\ Q[i].rnd >= round[x] /\ Q[i].buf = Buf(Q[i].rnd)
          /\ \E h \in Groups : Peer(h) = x /\ Qp(h) = q /\ Entry(s, h, Q, i)
      BY <3>1 DEF Core, QueueMeaning
    <3>3. PICK h \in Groups : Peer(h) = x /\ Qp(h) = q /\ Entry(s, h, Q, i)
      BY <3>2
    <3>4. Q[i] \in Requests
      BY <3>1 DEF TypeInv, TypeOK
    <3>5. Q[i].rnd \in Int
      BY <3>4 DEF Requests, Rounds
    <3>6. Sent(Q[i].rnd, s, h)' <=> Sent(Q[i].rnd, s, h)
      BY <1>3, <1>11, <1>20, <3>2, <3>3, <3>5
    <3>7. Entry(s, h, Q, i)'
      BY <1>1, <1>11, <3>3, <3>5, <3>6 DEF Entry
    <3>8. Entry(s, h, qp[s][x][q], i)'
      BY <2>2, <3>1, <3>7 DEF Entry
    <3> QED
      BY <3>1, <3>2, <3>3, <3>8
  <2> QED
    BY <1>13, <1>17, <1>18, <2>1, <2>2, <2>3 DEF Core
<1>21. CASE ~Direct(r, d)
  <2>1. SignalMeaning'
    BY <1>1, <1>9, <1>16, <1>21, SignalsKept DEF Core
  <2>2. QueueMeaning' /\ AddsOnce' /\ QueueWords'
    <3>1. /\ Post(r, g, m) /\ m.word = SendWord(m.rnd, r, g) /\ m.buf = Buf(m.rnd)
          /\ ~Direct(r, Peer(g)) /\ UNCHANGED <<round, active>>
      BY <1>1, <1>3, <1>9, <1>14, <1>21
    <3>2. Linked(r, Peer(g)) => m.rnd >= round[Peer(g)]
      <4>1. round[d] \in Int
        BY DEF TypeInv, TypeOK
      <4> QED
        BY <1>3, <1>7, <1>14, <4>1
    <3>3. /\ Posted(m.rnd, r, g)' /\ Sent(m.rnd, r, g)' /\ ~Sent(m.rnd, r, g)
          /\ m.val = SignalValue(m.rnd, r, g) /\ m.type = "add"
      BY <1>7, <1>11, <1>12, <1>14
    <3>4. \A l \in Int, s \in Ranks, h \in Groups :
               /\ Posted(l, s, h) => Posted(l, s, h)'
               /\ Sent(l, s, h) => Sent(l, s, h)'
               /\ Sent(l, s, h)' => \/ Sent(l, s, h)
                                    \/ m.type = "add" /\ l = m.rnd /\ s = r /\ h = g
      BY <1>11, <1>14
    <3>5. \A s, x \in Ranks, q \in Qps : \A i \in DOMAIN qp[s][x][q] :
              LET n == qp[s][x][q][i]
              IN Linked(s, x) /\ n.type = "rows" => stage'[s][n.buf] = n.rnd
      BY <1>1 DEF Core, QueueMeaning, Entry
    <3> QED
      BY <3>1, <3>2, <3>3, <3>4, <3>5, PostQueues
  <2> QED
    BY <1>13, <1>17, <1>18, <2>1, <2>2 DEF Core
<1> QED
  BY <1>20, <1>21

\* The NIC executes the first request of a queue.
LEMMA ExecuteWords ==
    ASSUME TypeInv, QueueWords, NEW r \in Ranks, NEW d \in Ranks, NEW q \in Qps,
           Execute(r, d, q)
    PROVE  QueueWords'
<1>1. qp \in [Ranks -> [Ranks -> [Qps -> Seq(Requests)]]]
  BY DEF TypeInv
<1>2. PICK Q \in Seq(Requests) : Q = qp[r][d][q] /\ Q # << >>
  <2>1. qp[r][d][q] # << >>
    BY DEF Execute
  <2> QED
    BY <1>1, <2>1
<1> SUFFICES ASSUME NEW s \in Ranks, NEW x \in Ranks, NEW y \in Qps,
                    NEW i \in DOMAIN qp'[s][x][y]
             PROVE  OwnWord(s, x, qp'[s][x][y][i])
  BY DEF QueueWords, OwnWord
<1>3. PICK T : T = Tail(Q)
  OBVIOUS
<1>4. /\ DOMAIN T = 1 .. Len(Q) - 1 /\ Len(Q) \in Nat /\ DOMAIN Q = 1 .. Len(Q)
      /\ \A k \in 1 .. Len(Q) - 1 : T[k] = Q[k + 1]
  BY <1>2, <1>3
<1>5. qp' = [qp EXCEPT ![r][d][q] = T]
  BY <1>2, <1>3 DEF Execute
<1>6. CASE s = r /\ x = d /\ y = q
  <2>1. qp'[s][x][y] = T
    BY <1>1, <1>5, <1>6
  <2>2. i + 1 \in DOMAIN Q /\ T[i] = Q[i + 1]
    BY <1>4, <2>1
  <2> QED
    BY <1>2, <1>6, <2>1, <2>2 DEF QueueWords
<1>7. CASE ~(s = r /\ x = d /\ y = q)
  <2>1. qp'[s][x][y] = qp[s][x][y]
    BY <1>1, <1>5, <1>7
  <2> QED
    BY <2>1 DEF QueueWords
<1> QED
  BY <1>6, <1>7

\* A request between ranks one of which has given up the other.
LEMMA ExecuteElsewhere ==
    ASSUME TypeInv, Core, DoubleBuffered, SteadyKinds \/ NoneGivenUp,
           NEW r \in Ranks, NEW d \in Ranks, NEW q \in Qps, Execute(r, d, q), ~Linked(r, d)
    PROVE  Core'
<1>1. UNCHANGED <<round, cleaned, snd, rcv, seen, used, stage, active>>
  BY DEF Execute, launchVars
<1>2. qp \in [Ranks -> [Ranks -> [Qps -> Seq(Requests)]]]
  BY DEF TypeInv
<1>3. PICK Q \in Seq(Requests) : Q = qp[r][d][q] /\ Q # << >>
  <2>1. qp[r][d][q] # << >>
    BY DEF Execute
  <2> QED
    BY <1>2, <2>1
<1>4. PICK m \in Requests : m = Head(Q)
  BY <1>3
<1>5. 1 \in DOMAIN Q /\ Q[1] = m
  BY <1>3, <1>4
<1>6. OwnWord(r, d, m)
  BY <1>3, <1>5 DEF Core, QueueWords
<1>7. PICK g \in Groups : Peer(g) = d /\ m.word = SendWord(m.rnd, r, g)
  BY <1>6 DEF OwnWord
<1>8. PICK k \in Rounds : k = m.rnd
  BY DEF Requests
<1>9. PICK b \in 0 .. 1 : b = m.buf
  BY DEF Requests
<1>10. PICK w \in Words : w = m.word
  BY DEF Requests
<1>11. b = Buf(k) /\ w = SendWord(k, r, g)
  BY <1>6, <1>7, <1>8, <1>9, <1>10 DEF OwnWord
<1>12. \A s, x \in Ranks, y \in Qps : Linked(s, x) => qp'[s][x][y] = qp[s][x][y]
  <2>1. PICK T : T = Tail(Q)
    OBVIOUS
  <2>2. qp' = [qp EXCEPT ![r][d][q] = T]
    BY <1>3, <2>1 DEF Execute
  <2> QED
    BY <1>2, <2>2
<1>13. \A x \in Ranks, y \in 0 .. 1, z \in Words :
           \/ x = Peer(g) /\ y = Buf(k) /\ z = SendWord(k, r, g)
           \/ data'[x][y][z] = data[x][y][z]
  <2>1. data \in [Ranks -> [0 .. 1 -> [Words -> 0 .. LastRound]]]
    BY DEF TypeInv, TypeOK
  <2> PICK v : v = stage[r][b]
    OBVIOUS
  <2>2. data' = data \/ data' = [data EXCEPT ![d][b][w] = v]
    BY <1>3, <1>4, <1>9, <1>10 DEF Execute
  <2>3. \A x \in Ranks, y \in 0 .. 1, z \in Words :
            (x = d /\ y = b /\ z = w) \/ data'[x][y][z] = data[x][y][z]
    <3>1. CASE data' = data
      BY <3>1
    <3>2. CASE data' = [data EXCEPT ![d][b][w] = v]
      BY <2>1, <3>2
    <3> QED
      BY <2>2, <3>1, <3>2
  <2> QED
    BY <1>7, <1>11, <2>3
<1>14. \A x \in Ranks, y \in 0 .. 2, z \in Words :
           \/ x = Peer(g) /\ y = Buf(k) /\ z = SendWord(k, r, g)
           \/ signal'[x][y][z] = signal[x][y][z]
  <2>1. signal \in [Ranks -> [0 .. 2 -> [Words -> Int]]]
    BY DEF TypeInv, TypeOK
  <2>2. PICK v : v = signal[d][b][w] + m.val
    OBVIOUS
  <2>3. signal' = signal \/ signal' = [signal EXCEPT ![d][b][w] = v]
    BY <1>3, <1>4, <1>9, <1>10, <2>2 DEF Execute
  <2>4. \A x \in Ranks, y \in 0 .. 2, z \in Words :
            (x = d /\ y = b /\ z = w) \/ signal'[x][y][z] = signal[x][y][z]
    <3>1. CASE signal' = signal
      BY <3>1
    <3>2. CASE signal' = [signal EXCEPT ![d][b][w] = v]
      BY <2>1, <3>2
    <3> QED
      BY <2>3, <3>1, <3>2
  <2> QED
    BY <1>7, <1>11, <2>4
<1>15. \A l \in Int, s \in Ranks, h \in Groups :
           (Posted(l, s, h)' <=> Posted(l, s, h)) /\ (Sent(l, s, h)' <=> Sent(l, s, h))
  BY <1>1 DEF Posted, Sent
<1>16. ASSUME NEW t, NEW l, NEW s \in Ranks, NEW h \in Groups, Linked(s, Peer(h))
       PROVE  Queued(t, l, s, h)' <=> Queued(t, l, s, h)
  <2>1. qp'[s][Peer(h)][Qp(h)] = qp[s][Peer(h)][Qp(h)]
    BY <1>12, <1>16, GroupDigits
  <2> QED
    BY <2>1 DEF Queued, Queue, Is
<1>17. \A l \in Int, s \in Ranks, h \in Groups : Linked(s, Peer(h)) =>
           (Landed(l, s, h)' <=> Landed(l, s, h))
  BY <1>15, <1>16 DEF Landed
<1>18. LaunchOrder' /\ UsedMeaning'
  BY <1>1, LinkedSame DEF Core, LaunchOrder, UsedMeaning, AllSent
<1>19. Consumed'
  BY <1>1, <1>15, <1>17, ConsumedKept DEF Core
<1>20. AddsOnce' /\ QueueWords'
  <2>1. AddsOnce'
    BY <1>1, <1>12, LinkedSame DEF Core, AddsOnce
  <2> QED
    BY <2>1, ExecuteWords DEF Core
<1>21. QueueMeaning'
  <2> SUFFICES ASSUME NEW s \in Ranks, NEW x \in Ranks, NEW y \in Qps, Linked(s, x),
                      NEW i \in DOMAIN qp[s][x][y]
               PROVE  LET n == qp[s][x][y][i]
                      IN /\ ~Direct(s, x) /\ n.rnd >= round[x] /\ n.buf = Buf(n.rnd)
                         /\ \E h \in Groups : /\ Peer(h) = x /\ Qp(h) = y
                                              /\ Entry(s, h, qp[s][x][y], i)'
    BY <1>1, <1>12, LinkedSame DEF QueueMeaning, Direct
  <2>1. PICK O : O = qp[s][x][y] /\ O = qp'[s][x][y]
    BY <1>12
  <2>2. /\ ~Direct(s, x) /\ O[i].rnd >= round[x] /\ O[i].buf = Buf(O[i].rnd)
        /\ \E h \in Groups : Peer(h) = x /\ Qp(h) = y /\ Entry(s, h, O, i)
    <3>1. LET n == qp[s][x][y][i]
          IN /\ ~Direct(s, x) /\ n.rnd >= round[x] /\ n.buf = Buf(n.rnd)
             /\ \E h \in Groups : Peer(h) = x /\ Qp(h) = y /\ Entry(s, h, qp[s][x][y], i)
      BY DEF Core, QueueMeaning
    <3> QED
      BY <2>1, <3>1
  <2>3. PICK h \in Groups : Peer(h) = x /\ Qp(h) = y /\ Entry(s, h, O, i)
    BY <2>2
  <2>4. O[i] \in Requests
    BY <2>1 DEF TypeInv, TypeOK
  <2>5. O[i].rnd \in Int
    BY <2>4 DEF Requests, Rounds
  <2>6. Entry(s, h, O, i)'
    BY <1>1, <1>15, <2>3, <2>5 DEF Entry
  <2>7. Entry(s, h, qp[s][x][y], i)'
    BY <2>1, <2>6 DEF Entry
  <2> QED
    BY <2>1, <2>2, <2>3, <2>7
<1>22. ~Linked(r, Peer(g)) /\ UNCHANGED <<round, cleaned, active>>
  BY <1>1, <1>7
<1>23. RowsMeaning' /\ DataBound'
  <2>1. \A l \in Rounds, s \in Ranks, h \in Groups : Linked(s, Peer(h)) =>
            /\ Posted(l, s, h)' => Posted(l, s, h) \/ (l = k /\ s = r /\ h = g)
            /\ Posted(l, s, h)' /\ ~Queued("rows", l, s, h)' =>
                  ~Queued("rows", l, s, h) \/ (l = k /\ s = r /\ h = g)
    BY <1>15, <1>16 DEF Rounds
  <2> QED
    BY <1>13, <1>22, <2>1, RowsElsewhere
<1>24. SignalMeaning'
  <2>1. \A l \in Int, s \in Ranks, h \in Groups : Linked(s, Peer(h)) =>
            (Landed(l, s, h)' <=> Landed(l, s, h) \/ (l = k /\ s = r /\ h = g))
    BY <1>17, <1>22
  <2>2. UNCHANGED <<round, cleaned, active>> /\ ~Linked(r, Peer(g))
    BY <1>22
  <2> HIDE DEF Core, SignalMeaning
  <2> QED
    BY <1>14, <2>1, <2>2, SignalElsewhere, SMTT(60)
<1> QED
  BY <1>18, <1>19, <1>20, <1>21, <1>23, <1>24 DEF Core

LEMMA ExecuteStep ==
    ASSUME TypeInv, Core, DoubleBuffered, SteadyKinds \/ NoneGivenUp,
           NEW r \in Ranks, NEW d \in Ranks, NEW q \in Qps, Execute(r, d, q)
    PROVE  Core'
<1> SUFFICES ASSUME Linked(r, d) PROVE Core'
  BY ExecuteElsewhere
<1>1. UNCHANGED <<round, cleaned, snd, rcv, seen, used, stage, active>>
  BY DEF Execute, launchVars
<1>2. PICK Q \in Seq(Requests) : Q = qp[r][d][q] /\ Q # << >>
  <2>1. qp \in [Ranks -> [Ranks -> [Qps -> Seq(Requests)]]]
    BY DEF TypeInv
  <2>2. qp[r][d][q] # << >>
    BY DEF Execute
  <2> QED
    BY <2>1, <2>2
<1>3. PICK m \in Requests : m = Head(Q)
  BY <1>2
<1>4. /\ 1 \in DOMAIN Q /\ Q[1] = m /\ Len(Q) \in Nat /\ DOMAIN Q = 1 .. Len(Q)
      /\ DOMAIN Tail(Q) = 1 .. Len(Q) - 1
      /\ \A i \in 1 .. Len(Q) - 1 : Tail(Q)[i] = Q[i + 1]
  BY <1>2, <1>3
<1>5. /\ ~Direct(r, d) /\ m.buf = Buf(m.rnd)
      /\ m.rnd \in {round[d], round[d] + 1}
      /\ m.rnd # round[d] => cleaned[d]
      /\ \E g \in Groups : Peer(g) = d /\ Qp(g) = q /\ Entry(r, g, Q, 1)
  BY <1>2, <1>4, RequestFacts DEF Core
<1>6. PICK g \in Groups : Peer(g) = d /\ Qp(g) = q /\ Entry(r, g, Q, 1)
  BY <1>5
<1>7. PICK k \in Rounds : k = m.rnd
  BY DEF Requests
<1>8. PICK b \in 0 .. 1 : b = m.buf
  BY DEF Requests
<1>9. PICK w \in Words : w = m.word
  BY DEF Requests
<1>10. k \in Int /\ m.type \in {"rows", "add"} /\ m.val \in Int
  BY DEF Requests, Rounds
<1>11. /\ w = SendWord(k, r, g) /\ b = Buf(k)
       /\ m.type = "add" => Sent(k, r, g) /\ m.val = SignalValue(k, r, g)
       /\ m.type = "rows" => stage[r][b] = k
  BY <1>4, <1>5, <1>6, <1>7, <1>8, <1>9 DEF Entry
<1>12. /\ qp' = [qp EXCEPT ![r][d][q] = Tail(Q)]
       /\ IF m.type = "rows"
          THEN data' = [data EXCEPT ![d][b][w] = stage[r][b]] /\ UNCHANGED signal
          ELSE signal' = [signal EXCEPT ![d][b][w] = signal[d][b][w] + m.val]
               /\ UNCHANGED data
  BY <1>2, <1>3, <1>8, <1>9 DEF Execute
<1>13. \A s, x \in Ranks, y \in Qps :
           qp'[s][x][y] = IF s = r /\ x = d /\ y = q THEN Tail(Q) ELSE qp[s][x][y]
  <2>1. qp \in [Ranks -> [Ranks -> [Qps -> Seq(Requests)]]]
    BY DEF TypeInv
  <2>2. PICK T : T = Tail(Q)
    OBVIOUS
  <2>3. qp' = [qp EXCEPT ![r][d][q] = T]
    BY <1>12, <2>2
  <2>4. \A s, x \in Ranks, y \in Qps :
            qp'[s][x][y] = IF s = r /\ x = d /\ y = q THEN T ELSE qp[s][x][y]
    BY <2>1, <2>3
  <2> QED
    BY <2>2, <2>4
<1>14. \A l \in Int, s \in Ranks, h \in Groups :
           /\ Posted(l, s, h)' <=> Posted(l, s, h)
           /\ Sent(l, s, h)' <=> Sent(l, s, h)
  BY <1>1 DEF Posted, Sent
<1>15. ASSUME NEW t, NEW l, NEW s \in Ranks, NEW h \in Groups
       PROVE  /\ Queued(t, l, s, h)' => Queued(t, l, s, h)
              /\ Queued(t, l, s, h) =>
                    \/ Queued(t, l, s, h)'
                    \/ t = m.type /\ l = k /\ s = r /\ h = g
  <2>1. Peer(h) \in Ranks /\ Qp(h) \in Qps
    BY GroupDigits
  <2>2. PICK u : u = SendWord(l, s, h)
    OBVIOUS
  <2>3. CASE s = r /\ Peer(h) = d /\ Qp(h) = q
    <3>1. /\ Queued(t, l, s, h) <=> \E i \in DOMAIN Q : Is(Q[i], t, l, u)
          /\ Queued(t, l, s, h)' <=> \E i \in DOMAIN Tail(Q) : Is(Tail(Q)[i], t, l, u)
      <4>1. PICK T : T = Tail(Q)
        OBVIOUS
      <4>2. qp[s][Peer(h)][Qp(h)] = Q /\ qp'[s][Peer(h)][Qp(h)] = T
        BY <1>2, <1>13, <2>1, <2>3, <4>1
      <4>3. /\ Queued(t, l, s, h) <=> \E i \in DOMAIN Q : Is(Q[i], t, l, u)
            /\ Queued(t, l, s, h)' <=> \E i \in DOMAIN T : Is(T[i], t, l, u)
        BY <2>2, <4>2 DEF Queued, Queue, Is
      <4> QED
        BY <4>1, <4>3
    <3>2. (\E i \in DOMAIN Tail(Q) : Is(Tail(Q)[i], t, l, u)) =>
              \E i \in DOMAIN Q : Is(Q[i], t, l, u)
      <4> SUFFICES ASSUME NEW i \in DOMAIN Tail(Q), Is(Tail(Q)[i], t, l, u)
                   PROVE  \E j \in DOMAIN Q : Is(Q[j], t, l, u)
        OBVIOUS
      <4>1. i + 1 \in DOMAIN Q /\ Tail(Q)[i] = Q[i + 1]
        BY <1>4
      <4> QED
        BY <4>1
    <3>3. ASSUME NEW i \in DOMAIN Q, Is(Q[i], t, l, u)
          PROVE  \/ \E j \in DOMAIN Tail(Q) : Is(Tail(Q)[j], t, l, u)
                 \/ t = m.type /\ l = k /\ s = r /\ h = g
      <4>1. CASE i = 1
        <5>1. t = m.type /\ l = k /\ SendWord(k, r, h) = SendWord(k, r, g)
          BY <1>4, <1>7, <1>9, <1>11, <2>2, <2>3, <3>3, <4>1 DEF Is
        <5>2. h = g
          BY <1>6, <2>3, <5>1, WordUnique
        <5> QED
          BY <2>3, <5>1, <5>2
      <4>2. CASE i # 1
        <5>1. i - 1 \in DOMAIN Tail(Q) /\ i - 1 + 1 = i
          BY <1>4, <4>2
        <5>2. Tail(Q)[i - 1] = Q[i]
          BY <1>4, <5>1
        <5> QED
          BY <3>3, <5>1, <5>2
      <4> QED
        BY <4>1, <4>2
    <3> QED
      BY <3>1, <3>2, <3>3
  <2>4. CASE ~(s = r /\ Peer(h) = d /\ Qp(h) = q)
    <3>1. qp'[s][Peer(h)][Qp(h)] = qp[s][Peer(h)][Qp(h)]
      BY <1>13, <2>1, <2>4
    <3> QED
      BY <3>1 DEF Queued, Queue, Is
  <2> QED
    BY <2>3, <2>4
<1>16. AddsOnce' /\ QueueWords'
  <2>1. AddOnce(Q)
    BY <1>2 DEF Core, AddsOnce
  <2>2. AddOnce(Tail(Q))
    <3> SUFFICES ASSUME NEW i \in DOMAIN Tail(Q), NEW j \in DOMAIN Tail(Q),
                        Tail(Q)[i].type = "add",
                        Is(Tail(Q)[j], "add", Tail(Q)[i].rnd, Tail(Q)[i].word)
                 PROVE  i = j
      BY DEF AddOnce
    <3>1. /\ i + 1 \in DOMAIN Q /\ j + 1 \in DOMAIN Q /\ i \in Int /\ j \in Int
          /\ Tail(Q)[i] = Q[i + 1] /\ Tail(Q)[j] = Q[j + 1]
      BY <1>4
    <3>2. i + 1 = j + 1
      BY <2>1, <3>1 DEF AddOnce
    <3> QED
      BY <3>1, <3>2
  <2>3. \A s, x \in Ranks, y \in Qps : Linked(s, x) => AddOnce(qp'[s][x][y])
    BY <1>13, <2>2 DEF Core, AddsOnce
  <2>4. AddsOnce'
    BY <1>1, <2>3, LinkedSame DEF AddsOnce
  <2> QED
    BY <2>4, ExecuteWords DEF Core
<1>17. ASSUME NEW s \in Ranks, NEW x \in Ranks, NEW y \in Qps, Linked(s, x)
       PROVE  \A i \in DOMAIN qp'[s][x][y] :
                  LET n == qp'[s][x][y][i]
                  IN /\ ~Direct(s, x) /\ n.rnd >= round[x] /\ n.buf = Buf(n.rnd)
                     /\ \E h \in Groups : /\ Peer(h) = x /\ Qp(h) = y
                                          /\ Entry(s, h, qp[s][x][y], i)'
  <2>1. PICK O, P : O = qp[s][x][y] /\ P = qp'[s][x][y]
    OBVIOUS
  <2>2. ASSUME NEW i \in DOMAIN O
        PROVE  /\ ~Direct(s, x) /\ O[i].rnd >= round[x] /\ O[i].buf = Buf(O[i].rnd)
               /\ O[i].rnd \in Int
               /\ \E h \in Groups : Peer(h) = x /\ Qp(h) = y /\ Entry(s, h, O, i)
    <3>1. O[i] \in Requests
      BY <2>1 DEF TypeInv, TypeOK
    <3>2. O[i].rnd \in Int
      BY <3>1 DEF Requests, Rounds
    <3> QED
      BY <1>17, <2>1, <3>2 DEF Core, QueueMeaning
  <2>3. ASSUME NEW i \in DOMAIN P
        PROVE  /\ ~Direct(s, x) /\ P[i].rnd >= round[x] /\ P[i].buf = Buf(P[i].rnd)
               /\ \E h \in Groups : Peer(h) = x /\ Qp(h) = y /\ Entry(s, h, P, i)'
    <3>1. CASE s = r /\ x = d /\ y = q
      <4>1. O = Q /\ P = Tail(Q)
        BY <1>2, <1>13, <2>1, <3>1
      <4>2. /\ i \in 1 .. Len(Q) - 1 /\ i + 1 \in DOMAIN O /\ P[i] = O[i + 1] /\ i \in Int
            /\ DOMAIN P = 1 .. Len(Q) - 1 /\ DOMAIN O = 1 .. Len(Q) /\ Len(Q) \in Nat
        BY <1>4, <2>3, <4>1
      <4>3. PICK h \in Groups : Peer(h) = x /\ Qp(h) = y /\ Entry(s, h, O, i + 1)
        BY <2>2, <4>2
      <4>4. ASSUME P[i].type = "rows", Sent(P[i].rnd, s, h)
            PROVE  \E j \in DOMAIN P : j > i /\ Is(P[j], "add", P[i].rnd, P[i].word)
        <5>1. PICK j \in DOMAIN O : j > i + 1 /\ Is(O[j], "add", O[i + 1].rnd, O[i + 1].word)
          BY <4>2, <4>3, <4>4 DEF Entry
        <5>2. j - 1 \in DOMAIN P /\ j - 1 > i /\ j - 1 + 1 = j
          BY <4>2, <5>1
        <5>3. P[j - 1] = O[j]
          BY <1>4, <4>1, <4>2, <5>2
        <5> QED
          BY <4>2, <5>1, <5>2, <5>3
      <4>5. P[i].rnd \in Int
        BY <2>2, <4>2
      <4>6. /\ P[i].word = SendWord(P[i].rnd, s, h) /\ Posted(P[i].rnd, s, h)
            /\ P[i].type = "add" => /\ Sent(P[i].rnd, s, h)
                                    /\ P[i].val = SignalValue(P[i].rnd, s, h)
            /\ P[i].type = "rows" => stage[s][P[i].buf] = P[i].rnd
        BY <4>2, <4>3 DEF Entry
      <4>7. Entry(s, h, P, i)'
        BY <1>1, <1>14, <4>4, <4>5, <4>6 DEF Entry
      <4> QED
        BY <2>2, <4>2, <4>3, <4>7
    <3>2. CASE ~(s = r /\ x = d /\ y = q)
      <4>1. O = P
        BY <1>13, <2>1, <3>2
      <4>2. PICK h \in Groups : Peer(h) = x /\ Qp(h) = y /\ Entry(s, h, P, i)
        BY <2>2, <4>1
      <4>3. Entry(s, h, P, i)'
        BY <1>1, <1>14, <2>2, <4>1, <4>2 DEF Entry
      <4> QED
        BY <2>2, <4>1, <4>2, <4>3
    <3> QED
      BY <3>1, <3>2
  <2>4. \A i, h : Entry(s, h, P, i)' <=> Entry(s, h, qp[s][x][y], i)'
    BY <2>1 DEF Entry
  <2> QED
    BY <2>1, <2>3, <2>4
<1>18. QueueMeaning'
  BY <1>1, <1>17, LinkedSame DEF QueueMeaning, Direct
<1>19. LaunchOrder' /\ UsedMeaning'
  BY <1>1, LinkedSame DEF Core, LaunchOrder, UsedMeaning, AllSent
<1>20. Consumed'
  <2>1. \A l \in Int, s \in Ranks, h \in Groups : Landed(l, s, h) => Landed(l, s, h)'
    BY <1>14, <1>15 DEF Landed
  <2> QED
    BY <1>1, <1>14, <2>1, ConsumedKept DEF Core
<1>21. CASE m.type = "rows"
  <2>1. \A l \in Int, s \in Ranks, h \in Groups : Landed(l, s, h)' <=> Landed(l, s, h)
    BY <1>14, <1>15, <1>21 DEF Landed
  <2>2. SignalMeaning'
    BY <1>1, <1>12, <1>21, <2>1, SignalsKept DEF Core
  <2>3. \A x \in Ranks, y \in 0 .. 1, z \in Words :
            data'[x][y][z] = IF x = d /\ y = b /\ z = w THEN k ELSE data[x][y][z]
    <3>1. data \in [Ranks -> [0 .. 1 -> [Words -> 0 .. LastRound]]]
      BY DEF TypeInv, TypeOK
    <3>2. data' = [data EXCEPT ![d][b][w] = k]
      BY <1>11, <1>12, <1>21
    <3> QED
      BY <3>1, <3>2
  <2>4. \A x \in Ranks, y \in 0 .. 1, z \in Words :
            data'[x][y][z] = IF x = Peer(g) /\ y = Buf(k) /\ z = SendWord(k, r, g)
                             THEN k ELSE data[x][y][z]
    BY <1>6, <1>11, <2>3
  <2>5. \A l \in Rounds, s \in Ranks, h \in Groups : Linked(s, Peer(h)) =>
           /\ Posted(l, s, h)' => Posted(l, s, h) \/ (l = k /\ s = r /\ h = g)
           /\ Posted(l, s, h)' /\ ~Queued("rows", l, s, h)' =>
                 ~Queued("rows", l, s, h) \/ (l = k /\ s = r /\ h = g)
    BY <1>14, <1>15 DEF Rounds
  <2>6. RowsMeaning' /\ DataBound'
    BY <1>1, <1>5, <1>6, <1>7, <2>4, <2>5, RowsWrite
  <2> QED
    BY <1>16, <1>18, <1>19, <1>20, <2>2, <2>6 DEF Core
<1>22. CASE m.type = "add"
  <2>1. ~Queued("add", k, r, g)'
    <3> SUFFICES ASSUME Queued("add", k, r, g)' PROVE FALSE
      OBVIOUS
    <3>1. qp'[r][Peer(g)][Qp(g)] = Tail(Q)
      BY <1>6, <1>13
    <3>2. PICK i \in DOMAIN Tail(Q) : Is(Tail(Q)[i], "add", k, w)
      BY <1>11, <3>1 DEF Queued, Queue, Is
    <3>3. i + 1 \in DOMAIN Q /\ Tail(Q)[i] = Q[i + 1] /\ i + 1 # 1
      BY <1>4
    <3>4. AddOnce(Q)
      BY <1>2 DEF Core, AddsOnce
    <3>5. Q[1].type = "add" /\ Is(Q[i + 1], "add", Q[1].rnd, Q[1].word)
      BY <1>4, <1>7, <1>9, <1>22, <3>2, <3>3
    <3> QED
      BY <1>4, <3>3, <3>4, <3>5 DEF AddOnce
  <2>2. Queued("add", k, r, g) /\ Sent(k, r, g)
    <3>1. Queue(r, g) = Q
      BY <1>2, <1>6 DEF Queue
    <3>2. Is(Q[1], "add", k, SendWord(k, r, g))
      BY <1>4, <1>7, <1>9, <1>11, <1>22 DEF Is
    <3> QED
      BY <1>4, <1>11, <1>22, <3>1, <3>2 DEF Queued
  <2>3. \A l \in Int, s \in Ranks, h \in Groups : Linked(s, Peer(h)) =>
            (Landed(l, s, h)' <=> Landed(l, s, h) \/ (l = k /\ s = r /\ h = g))
    BY <1>14, <1>15, <2>1, <2>2 DEF Landed
  <2>4. signal[d][b][w] = 0
    <3>1. WordOf(k, r, g)
      BY <1>5, <1>6, <1>7 DEF Core, SignalMeaning
    <3> QED
      BY <1>6, <1>11, <2>2, <3>1 DEF WordOf, Landed
  <2>5. \A x \in Ranks, y \in 0 .. 2, z \in Words :
            signal'[x][y][z] = IF x = d /\ y = b /\ z = w THEN m.val ELSE signal[x][y][z]
    <3>1. signal \in [Ranks -> [0 .. 2 -> [Words -> Int]]]
      BY DEF TypeInv, TypeOK
    <3>2. PICK v \in Int : v = m.val
      BY <1>10
    <3>3. signal' = [signal EXCEPT ![d][b][w] = v] /\ b \in 0 .. 2
      BY <1>12, <1>22, <2>4, <3>2
    <3> QED
      BY <3>1, <3>2, <3>3
  <2>6. \A x \in Ranks, y \in 0 .. 2, z \in Words :
            signal'[x][y][z] = IF x = Peer(g) /\ y = Buf(k) /\ z = SendWord(k, r, g)
                               THEN SignalValue(k, r, g) ELSE signal[x][y][z]
    BY <1>6, <1>11, <1>22, <2>5
  <2>7. SignalMeaning'
    BY <1>1, <1>5, <1>6, <1>7, <2>3, <2>6, SignalWrite, SMTT(60)
  <2>8. data' = data
    BY <1>12, <1>22
  <2>9. RowsMeaning' /\ DataBound'
    <3>1. \A s \in Ranks, h \in Groups, l \in Rounds :
              /\ Posted(l, s, h)' => Posted(l, s, h)
              /\ ~Queued("rows", l, s, h)' => ~Queued("rows", l, s, h)
      BY <1>14, <1>15, <1>22 DEF Rounds
    <3> QED
      BY <1>1, <2>8, <3>1, RowsKept DEF Core
  <2> QED
    BY <1>16, <1>18, <1>19, <1>20, <2>7, <2>9 DEF Core
<1> QED
  BY <1>10, <1>21, <1>22

-----------------------------------------------------------------------------
(* The theorems.                                                           *)

\* A group gives up its wait: its channel is no longer between linked ranks.
LEMMA GiveUpStep ==
    ASSUME TypeInv, Core, NEW r \in Ranks, NEW h \in Groups, GiveUp(r, h)
    PROVE  Core'
<1>1. UNCHANGED <<round, cleaned, snd, used, signal, data, stage, qp>>
  BY DEF GiveUp, memVars
<1>2. \A x \in Ranks, y \in Groups :
          /\ rcv'[x][y] = IF x = r /\ y = h THEN "ready" ELSE rcv[x][y]
          /\ seen'[x][y] = IF x = r /\ y = h THEN -1 ELSE seen[x][y]
  BY DEF GiveUp, TypeInv, TypeOK
<1>3. rcv[r][h] = "wait" /\ MayReceive(r, h) /\ round[r] \in Rounds
  BY DEF GiveUp, Running
<1>4. Peer(h) \in Ranks
  BY GroupDigits
<1>5. /\ \A s, d \in Ranks : active'[s][d] => active[s][d]
      /\ ~active'[r][Peer(h)]
  <2>1. active \in [Ranks -> [Ranks -> BOOLEAN]]
    BY DEF TypeInv, TypeOK
  <2>2. active' = [active EXCEPT ![r][Peer(h)] = FALSE]
    BY DEF GiveUp
  <2> QED
    BY <1>4, <2>1, <2>2
<1>6. /\ \A s, d \in Ranks : Linked(s, d)' => Linked(s, d)
      /\ ~Linked(r, Peer(h))' /\ ~Linked(Peer(h), r)' /\ ~NoneGivenUp'
  BY <1>4, <1>5 DEF Linked, NoneGivenUp
<1>7. \A k, s, g : /\ Posted(k, s, g)' <=> Posted(k, s, g)
                   /\ Sent(k, s, g)' <=> Sent(k, s, g)
                   /\ Landed(k, s, g)' <=> Landed(k, s, g)
                   /\ Queued("rows", k, s, g)' <=> Queued("rows", k, s, g)
  BY <1>1, SameProgress
<1>8. LaunchOrder'
  BY <1>1, <1>2, <1>3 DEF Core, LaunchOrder, AllSent, MayReceive
<1>9. Consumed'
  <2> SUFFICES ASSUME NEW s \in Ranks, NEW g \in Groups, Linked(s, Peer(g))'
               PROVE  LET d == Peer(g)
                          y == Sender(s, g)
                      IN /\ round[d] > 1 => Sent(round[d] - 1, s, g)
                         /\ rcv'[d][y] # "wait" =>
                               /\ Landed(round[d], s, g)
                               /\ seen'[d][y] = SignalValue(round[d], s, g)
    BY <1>1, <1>7 DEF Consumed
  <2>1. PICK d \in Ranks : d = Peer(g)
    BY GroupDigits
  <2>2. PICK y \in Groups : y = Sender(s, g) /\ Peer(y) = s
    BY Ends
  <2>3. /\ round[d] > 1 => Sent(round[d] - 1, s, g)
        /\ rcv[d][y] # "wait" => /\ Landed(round[d], s, g)
                                 /\ seen[d][y] = SignalValue(round[d], s, g)
    BY <1>6, <2>1, <2>2 DEF Core, Consumed
  <2>4. ~(d = r /\ y = h)
    BY <1>6, <2>1, <2>2
  <2>5. rcv'[d][y] = rcv[d][y] /\ seen'[d][y] = seen[d][y]
    BY <1>2, <2>4
  <2> QED
    BY <2>1, <2>2, <2>3, <2>5
<1>10. AddsOnce' /\ QueueWords'
  BY <1>1, <1>6 DEF Core, AddsOnce, QueueWords
<1>11. QueueMeaning'
  <2> SUFFICES ASSUME NEW s \in Ranks, NEW x \in Ranks, NEW y \in Qps, Linked(s, x),
                      NEW i \in DOMAIN qp[s][x][y]
               PROVE  LET n == qp[s][x][y][i]
                      IN /\ ~Direct(s, x) /\ n.rnd >= round[x] /\ n.buf = Buf(n.rnd)
                         /\ \E g \in Groups : /\ Peer(g) = x /\ Qp(g) = y
                                              /\ Entry(s, g, qp[s][x][y], i)'
    BY <1>1, <1>6 DEF QueueMeaning, Direct
  <2>1. ASSUME NEW g \in Groups, Entry(s, g, qp[s][x][y], i)
        PROVE  Entry(s, g, qp[s][x][y], i)'
    BY <1>1, <1>7, <2>1 DEF Entry
  <2> QED
    BY <2>1 DEF Core, QueueMeaning
<1>12. RowsMeaning'
  BY <1>1, <1>6, <1>7, GroupDigits DEF Core, RowsMeaning
<1>13. SignalMeaning'
  <2>1. ASSUME NEW k, NEW s, NEW g, WordOf(k, s, g) PROVE WordOf(k, s, g)'
    BY <1>1, <1>7, <2>1 DEF WordOf
  <2> QED
    BY <1>1, <1>6, <2>1, GroupDigits DEF Core, SignalMeaning
<1>14. DataBound'
  BY <1>6 DEF DataBound
<1>15. UsedMeaning'
  BY <1>1, <1>2, <1>3, <1>6, GroupDigits DEF Core, UsedMeaning
<1> QED
  BY <1>8, <1>9, <1>10, <1>11, <1>12, <1>13, <1>14, <1>15 DEF Core

LEMMA CoreStep ==
    ASSUME DoubleBuffered, TypeInv, Core, SteadyKinds \/ NoneGivenUp, [Next]_vars
    PROVE  Core'
<1>2. CASE UNCHANGED <<launchVars, memVars>>
  <2>1. UNCHANGED <<round, cleaned, snd, rcv, seen, used, signal, data, stage, qp, active>>
    BY <1>2 DEF launchVars, memVars
  <2>2. Consumed'
    BY <2>1, SameProgress, LinkedSame DEF Core, Consumed
  <2>3. QueueMeaning' /\ AddsOnce' /\ QueueWords' /\ RowsMeaning' /\ SignalMeaning'
    BY <2>1, SameQueues, SameRows, SameSignals DEF Core
  <2>4. LaunchOrder' /\ DataBound' /\ UsedMeaning'
    BY <2>1, LinkedSame DEF Core, LaunchOrder, AllSent, DataBound, UsedMeaning
  <2> QED
    BY <2>2, <2>3, <2>4 DEF Core
<1>3. ASSUME NEW r \in Ranks, Crash(r) PROVE Core'
  BY <1>2, <1>3 DEF Crash
<1>4. CASE UNCHANGED vars
  BY <1>2, <1>4 DEF vars
<1> QED
  BY <1>3, <1>4, CleanStep, PostStep, SendStep, ExecuteStep, ReceiveStep, GiveUpStep,
     CopyStep, ReduceStep, LaunchStep DEF Next, GroupStep, Finished

\* A wait that was given up stays on record.
LEMMA GivenUpStays ==
    ASSUME TypeInv, [Next]_vars, NoneGivenUp'
    PROVE  NoneGivenUp
<1>1. ASSUME NEW r \in Ranks, NEW g \in Groups, GiveUp(r, g) PROVE NoneGivenUp
  <2>1. active' = [active EXCEPT ![r][Peer(g)] = FALSE] /\ Peer(g) \in Ranks
    BY <1>1, GroupDigits DEF GiveUp
  <2>2. active \in [Ranks -> [Ranks -> BOOLEAN]]
    BY DEF TypeInv, TypeOK
  <2>3. active'[r][Peer(g)] = FALSE
    BY <2>1, <2>2
  <2> QED
    BY <2>1, <2>3 DEF NoneGivenUp
<1>2. CASE active' = active
  BY <1>2 DEF NoneGivenUp
<1>3. ASSUME NEW r \in Ranks, CleanNext(r) \/ Reduce(r) \/ NextLaunch(r) \/ Crash(r)
      PROVE  active' = active
  BY <1>3 DEF CleanNext, Reduce, NextLaunch, Crash, launchVars
<1>4. ASSUME NEW r \in Ranks, NEW g \in Groups,
             PostRows(r, g) \/ SendSignal(r, g) \/ ReceiveSignal(r, g) \/ CopyRows(r, g)
      PROVE  active' = active
  BY <1>4 DEF PostRows, SendSignal, ReceiveSignal, CopyRows
<1>5. ASSUME NEW r \in Ranks, NEW d \in Ranks, NEW q \in Qps, Execute(r, d, q)
      PROVE  active' = active
  BY <1>5 DEF Execute, launchVars
<1>6. CASE UNCHANGED vars
  BY <1>2, <1>6 DEF vars, launchVars
<1> QED
  BY <1>1, <1>2, <1>3, <1>4, <1>5, <1>6 DEF Next, GroupStep, Finished

\* The inductive invariant of the exchange: for a caller that alternates the two halves
\* of zeroed buffers, whatever the links and the order in which the NICs execute, and
\* whether or not ranks stop.  If a half is always used by the same kernel it says of
\* every two ranks that have not given up each other what their words, regions and queues
\* hold; for any sequence of kernels, as long as no wait is given up at all.
THEOREM ExchangeCorrect ==
    ASSUME DoubleBuffered, FreshWords = {0}
    PROVE  Spec => []ExchangeInv
<1>1. Init => TypeInv /\ ExchangeInv
  BY TypeInit, CoreInit DEF ExchangeInv
<1>2. TypeInv /\ ExchangeInv /\ [Next]_vars => (TypeInv /\ ExchangeInv)'
  <2> SUFFICES ASSUME TypeInv, ExchangeInv, [Next]_vars PROVE TypeInv' /\ ExchangeInv'
    OBVIOUS
  <2>1. TypeInv'
    BY TypeStep
  <2>2. SteadyKinds' <=> SteadyKinds
    BY DEF SteadyKinds
  <2>3. ASSUME SteadyKinds \/ NoneGivenUp' PROVE Core'
    BY <2>3, GivenUpStays, CoreStep DEF ExchangeInv
  <2> QED
    BY <2>1, <2>2, <2>3 DEF ExchangeInv
<1> QED
  BY <1>1, <1>2, PTL DEF Spec

\* With timeouts and ranks that stop: between ranks that have not given up each other
\* the rows a group is about to read are of its own launch, whatever was given up
\* elsewhere, if a half is always used by the same kernel.
THEOREM FreshCorrect ==
    ASSUME DoubleBuffered, FreshWords = {0}, SteadyKinds
    PROVE  Spec => []FreshBetweenActive
<1>1. TypeInv /\ ExchangeInv => FreshBetweenActive
  <2> SUFFICES ASSUME TypeInv, ExchangeInv, NEW r \in Ranks, NEW g \in Groups,
                      active[r][Peer(g)], active[Peer(g)][r], rcv[r][g] = "ready"
               PROVE  /\ seen[r][g] = SignalValue(round[r], Peer(g), Sender(r, g))
                      /\ RoundRead(r, g) = round[r]
    BY DEF FreshBetweenActive
  <2>1. Core /\ Linked(r, Peer(g)) /\ rcv[r][g] # "wait"
    BY DEF ExchangeInv, Linked
  <2> QED
    BY <2>1, ReadsOwn
<1> QED
  BY <1>1, TypeInvariance, ExchangeCorrect, PTL

\* Without timeouts no wait is given up.
LEMMA NobodyGivesUp ==
    ASSUME ~Timeouts, TypeInv, NoneGivenUp, [Next]_vars
    PROVE  NoneGivenUp'
<1>1. ASSUME NEW r \in Ranks, NEW g \in Groups, GiveUp(r, g) PROVE FALSE
  <2>1. Peer(g) \in Ranks
    BY GroupDigits
  <2> QED
    BY <1>1, <2>1 DEF GiveUp, WaitOver, NoneGivenUp
<1>2. CASE active' = active
  BY <1>2 DEF NoneGivenUp
<1>3. ASSUME NEW r \in Ranks, CleanNext(r) \/ Reduce(r) \/ NextLaunch(r) \/ Crash(r)
      PROVE  active' = active
  BY <1>3 DEF CleanNext, Reduce, NextLaunch, Crash, launchVars
<1>4. ASSUME NEW r \in Ranks, NEW g \in Groups,
             PostRows(r, g) \/ SendSignal(r, g) \/ ReceiveSignal(r, g) \/ CopyRows(r, g)
      PROVE  active' = active
  BY <1>4 DEF PostRows, SendSignal, ReceiveSignal, CopyRows
<1>5. ASSUME NEW r \in Ranks, NEW d \in Ranks, NEW q \in Qps, Execute(r, d, q)
      PROVE  active' = active
  BY <1>5 DEF Execute, launchVars
<1>6. CASE UNCHANGED vars
  BY <1>2, <1>6 DEF vars, launchVars
<1> QED
  BY <1>1, <1>2, <1>3, <1>4, <1>5, <1>6 DEF Next, GroupStep, Finished

\* No rank has given up another one.
AllLinked == NoneGivenUp /\ \A s, d \in Ranks : Linked(s, d)

LEMMA CoreInvariance ==
    ASSUME DoubleBuffered, FreshWords = {0}, ~Timeouts
    PROVE  Spec => [](TypeInv /\ AllLinked /\ Core)
<1>1. Init => TypeInv /\ NoneGivenUp /\ Core
  <2>1. Init => NoneGivenUp
    BY DEF Init, NoneGivenUp
  <2> QED
    BY <2>1, TypeInit, CoreInit
<1>2. /\ TypeInv /\ NoneGivenUp /\ Core /\ [Next]_vars
      => (TypeInv /\ NoneGivenUp /\ Core)'
  BY TypeStep, NobodyGivesUp, CoreStep
<1>3. NoneGivenUp => AllLinked
  BY DEF NoneGivenUp, AllLinked, Linked
<1> QED
  BY <1>1, <1>2, <1>3, PTL DEF Spec

\* What a group has decided to consume belongs to its own launch: the signal it read is
\* the one its sender published in this round, and the region holds this round's rows
\* until they are read.
THEOREM OwnRoundCorrect ==
    ASSUME DoubleBuffered, FreshWords = {0}, ~Timeouts
    PROVE  Spec => []ConsumesOwnRound
<1>1. TypeInv /\ AllLinked /\ Core => ConsumesOwnRound
  <2> SUFFICES ASSUME TypeInv, AllLinked, Core, NEW r \in Ranks, NEW g \in Groups,
                      rcv[r][g] = "ready"
               PROVE  /\ seen[r][g] = SignalValue(round[r], Peer(g), Sender(r, g))
                      /\ RoundRead(r, g) = round[r]
    BY DEF ConsumesOwnRound
  <2>1. Linked(r, Peer(g)) /\ rcv[r][g] # "wait"
    BY GroupDigits DEF AllLinked
  <2> QED
    BY <2>1, ReadsOwn
<1> QED
  BY <1>1, CoreInvariance, PTL

\* No rank is more than one launch ahead of another one.
THEOREM AheadCorrect ==
    ASSUME DoubleBuffered, FreshWords = {0}, ~Timeouts
    PROVE  Spec => []AtMostOneAhead
<1>1. TypeInv /\ AllLinked /\ Core => AtMostOneAhead
  <2> SUFFICES ASSUME TypeInv, AllLinked, Core, NEW r \in Ranks, NEW s \in Ranks
               PROVE  round[r] - round[s] <= 1
    BY DEF AtMostOneAhead
  <2>1. round[r] \in Int /\ round[s] \in Int
    BY DEF TypeInv, TypeOK
  <2>2. round[r] <= round[s] + 1
    BY OneAhead DEF Core, AllLinked
  <2> QED
    BY <2>1, <2>2
<1> QED
  BY <1>1, CoreInvariance, PTL

\* The staging area still holds the rows of every request the NIC has not executed.
THEOREM StagingCorrect ==
    ASSUME DoubleBuffered, FreshWords = {0}, ~Timeouts
    PROVE  Spec => []StagingIntact
<1>1. TypeInv /\ AllLinked /\ Core => StagingIntact
  BY DEF AllLinked, Core, QueueMeaning, Entry, StagingIntact
<1> QED
  BY <1>1, CoreInvariance, PTL

\* The requests a work queue holds are of the rank's current launch or the one before.
THEOREM BacklogCorrect ==
    ASSUME DoubleBuffered, FreshWords = {0}, ~Timeouts
    PROVE  Spec => []BacklogTwoRounds
<1>1. TypeInv /\ AllLinked /\ Core => BacklogTwoRounds
  <2> SUFFICES ASSUME TypeInv, AllLinked, Core, NEW r \in Ranks, NEW d \in Ranks, NEW q \in Qps,
                      NEW i \in DOMAIN qp[r][d][q]
               PROVE  qp[r][d][q][i].rnd >= round[r] - 1
    BY DEF BacklogTwoRounds
  <2>1. round[r] \in Int /\ round[d] \in Int
    BY DEF TypeInv, TypeOK
  <2>2. round[r] <= round[d] + 1
    BY OneAhead DEF Core, AllLinked
  <2>3. qp[r][d][q][i].rnd \in {round[d], round[d] + 1}
    BY RequestFacts DEF Core, AllLinked
  <2> QED
    BY <2>1, <2>2, <2>3
<1> QED
  BY <1>1, CoreInvariance, PTL

\* Before a rank has cleaned its next half, nothing of the next round is in its memory or
\* on its way there, and the words it will zero are the signals it consumed last.
THEOREM EarlyCorrect ==
    ASSUME DoubleBuffered, FreshWords = {0}, ~Timeouts
    PROVE  Spec => []NothingArrivesEarly
<1>1. TypeInv /\ AllLinked /\ Core => NothingArrivesEarly
  <2> SUFFICES ASSUME TypeInv, AllLinked, Core, NEW r \in Ranks, ~cleaned[r], NEW k, k = round[r]
               PROVE  LET b == Buf(k + 1)
                      IN /\ \A s \in Ranks, q \in Qps : \A i \in DOMAIN qp[s][r][q] :
                               qp[s][r][q][i].rnd <= k
                         /\ \A w \in Words : data[r][b][w] < k
                         /\ k > 1 => \A g \in Groups :
                               signal[r][b][RecvWord(k - 1, g)] =
                                   SignalValue(k - 1, Peer(g), Sender(r, g))
    BY DEF NothingArrivesEarly
  <2>1. k \in Int /\ k >= 1
    BY DEF TypeInv, TypeOK
  <2>2. Buf(k + 1) # Buf(k) /\ Buf(k + 1) \in 0 .. 1
    BY <2>1, Halves, BufInRange
  <2>3. ASSUME NEW s \in Ranks, NEW q \in Qps, NEW i \in DOMAIN qp[s][r][q]
        PROVE  qp[s][r][q][i].rnd <= k
    <3>1. qp[s][r][q][i].rnd \in {round[r], round[r] + 1}
          /\ (qp[s][r][q][i].rnd # round[r] => cleaned[r])
      BY RequestFacts DEF Core, AllLinked
    <3>2. qp[s][r][q][i].rnd = k
      BY <3>1
    <3> QED
      BY <2>1, <3>2
  <2>4. ASSUME NEW w \in Words PROVE data[r][Buf(k + 1)][w] < k
    <3>1. PICK n : n = data[r][Buf(k + 1)][w]
      OBVIOUS
    <3>2. n \in Int
      <4>1. data \in [Ranks -> [0 .. 1 -> [Words -> 0 .. LastRound]]]
        BY DEF TypeInv, TypeOK
      <4> QED
        BY <2>2, <3>1, <4>1
    <3>3. (n # 0 => Buf(n) = Buf(k + 1)) /\ n <= k
      BY <2>2, <3>1 DEF AllLinked, Core, DataBound
    <3> QED
      BY <2>1, <2>2, <3>1, <3>2, <3>3
  <2>5. ASSUME k > 1, NEW h \in Groups
        PROVE  signal[r][Buf(k + 1)][RecvWord(k - 1, h)] =
                   SignalValue(k - 1, Peer(h), Sender(r, h))
    <3>1. PICK s \in Ranks : s = Peer(h)
      BY GroupDigits
    <3>2. PICK g \in Groups : g = Sender(r, h) /\ Peer(g) = r
      BY Ends
    <3>3. RecvWord(k - 1, h) = SendWord(k - 1, s, g)
      BY <3>1, <3>2, SameWord
    <3>4. signal[r][Buf(k + 1)][SendWord(k - 1, s, g)] = SignalValue(k - 1, s, g)
      BY <2>5, <3>2 DEF AllLinked, Core, SignalMeaning
    <3> QED
      BY <3>1, <3>2, <3>3, <3>4
  <2> QED
    BY <2>3, <2>4, <2>5
<1> QED
  BY <1>1, CoreInvariance, PTL

-----------------------------------------------------------------------------
(* The launches implement the exchange of one contribution per round.      *)

\* The refinement mapping: the round of the last contribution of a rank to another one,
\* and whether a rank has consumed everything of another one in its current launch.
GivenTo(r, d) ==
    IF round[r] \in Rounds /\ SentTo(r, d) THEN round[r] ELSE round[r] - 1
DoneFrom(r, s) == \A g \in Groups : Peer(g) = s => rcv[r][g] = "done"

\* The minimum over the groups of a pair of ranks is the round of this launch once all
\* of them have consumed their rows.
TakenMeaning ==
    \A r, s \in Ranks :
        TakenFrom(r, s) = IF DoneFrom(r, s) THEN round[r] ELSE round[r] - 1

LEMMA TakenValue == TypeInv /\ AllLinked /\ Core => TakenMeaning
<1> SUFFICES ASSUME TypeInv, AllLinked, Core, NEW r \in Ranks, NEW s \in Ranks
             PROVE  TakenFrom(r, s) = IF DoneFrom(r, s) THEN round[r] ELSE round[r] - 1
  BY DEF TakenMeaning
<1>1. PICK n \in Int : n = round[r]
  BY DEF TypeInv, TypeOK
<1> DEFINE S == {used[r][g] : g \in {x \in Groups : Peer(x) = s}}
           Least(k) == \A g \in Groups : Peer(g) = s => k <= used[r][g]
<1>2. \A g \in Groups : used[r][g] = IF rcv[r][g] = "done" THEN n ELSE n - 1
  BY <1>1, GroupDigits DEF AllLinked, Core, UsedMeaning
<1>3. PICK h \in Groups : Peer(h) = s
  BY EveryPair
<1>4. \E k \in S : Least(k)
  <2>1. CASE DoneFrom(r, s)
    <3>1. used[r][h] \in S /\ used[r][h] = n
      BY <1>2, <1>3, <2>1 DEF DoneFrom
    <3>2. Least(n)
      <4> SUFFICES ASSUME NEW g \in Groups, Peer(g) = s
                   PROVE  n <= used[r][g]
        OBVIOUS
      <4>1. used[r][g] = n
        BY <1>2, <2>1 DEF DoneFrom
      <4> QED
        BY <4>1
    <3> QED
      BY <3>1, <3>2
  <2>2. CASE ~DoneFrom(r, s)
    <3>1. PICK g \in Groups : Peer(g) = s /\ rcv[r][g] # "done"
      BY <2>2 DEF DoneFrom
    <3>2. used[r][g] \in S /\ used[r][g] = n - 1
      BY <1>2, <3>1
    <3>3. Least(n - 1)
      BY <1>2
    <3> QED
      BY <3>2, <3>3
  <2> QED
    BY <2>1, <2>2
<1>5. TakenFrom(r, s) \in S /\ Least(TakenFrom(r, s))
  <2>1. TakenFrom(r, s) = CHOOSE k \in S : Least(k)
    BY DEF TakenFrom
  <2> HIDE DEF S, Least
  <2> QED
    BY <1>4, <2>1
<1>6. PICK g \in Groups : Peer(g) = s /\ TakenFrom(r, s) = used[r][g]
  BY <1>5
<1>7. CASE DoneFrom(r, s)
  BY <1>1, <1>2, <1>6, <1>7 DEF DoneFrom
<1>8. CASE ~DoneFrom(r, s)
  <2>1. PICK x \in Groups : Peer(x) = s /\ rcv[r][x] # "done"
    BY <1>8 DEF DoneFrom
  <2>2. TakenFrom(r, s) <= n - 1
    BY <1>2, <1>5, <2>1
  <2>3. TakenFrom(r, s) \in {n, n - 1}
    BY <1>2, <1>6
  <2> QED
    BY <1>1, <1>8, <2>2, <2>3
<1> QED
  BY <1>7, <1>8

\* Steps that leave the mapping alone are stutters of the abstract exchange.
SameContributions == \A x, y \in Ranks : GivenTo(x, y)' = GivenTo(x, y)
SameConsumption == \A x, y \in Ranks : TakenFrom(x, y)' = TakenFrom(x, y)

LEMMA AbstractStutter ==
    ASSUME SameContributions, SameConsumption
    PROVE  UNCHANGED Abstract!avars
<1>1. [x \in Ranks |-> [y \in Ranks |-> GivenTo(x, y)]]'
      = [x \in Ranks |-> [y \in Ranks |-> GivenTo(x, y)]]
  BY DEF SameContributions
<1>2. [x \in Ranks |-> [y \in Ranks |-> TakenFrom(x, y)]]'
      = [x \in Ranks |-> [y \in Ranks |-> TakenFrom(x, y)]]
  BY DEF SameConsumption
<1> QED
  BY <1>1, <1>2 DEF Abstract!avars, GivenTo

\* A rank whose last group towards d publishes gives its contribution.
LEMMA AbstractGive ==
    ASSUME NEW s \in Ranks, NEW d \in Ranks, SameConsumption,
           GivenTo(s, d) < LastRound, \A x \in Ranks : TakenFrom(s, x) = GivenTo(s, d),
           \A x, y \in Ranks :
               GivenTo(x, y)' = IF x = s /\ y = d THEN GivenTo(x, y) + 1 ELSE GivenTo(x, y)
    PROVE  Abstract!ANext
<1> DEFINE G == [x \in Ranks |-> [y \in Ranks |-> GivenTo(x, y)]]
           T == [x \in Ranks |-> [y \in Ranks |-> TakenFrom(x, y)]]
<1>1. T' = T
  BY DEF SameConsumption
<1>2. G' = [G EXCEPT ![s][d] = @ + 1]
  OBVIOUS
<1>3. G[s][d] < LastRound /\ \A x \in Ranks : T[s][x] = G[s][d]
  OBVIOUS
<1>4. Abstract!Give(s, d)
  BY <1>1, <1>2, <1>3 DEF Abstract!Give, GivenTo
<1> QED
  BY <1>4 DEF Abstract!ANext

\* A rank takes the contributions of the ranks whose groups have all consumed their rows.
LEMMA AbstractTake ==
    ASSUME NEW d \in Ranks, NEW S \in SUBSET Ranks, S # {}, SameContributions,
           \A s \in S : /\ TakenFrom(d, s) < GivenTo(s, d)
                        /\ \A x \in Ranks : GivenTo(d, x) = TakenFrom(d, s) + 1,
           \A x, y \in Ranks :
               TakenFrom(x, y)' = IF x = d /\ y \in S THEN TakenFrom(x, y) + 1
                                  ELSE TakenFrom(x, y)
    PROVE  Abstract!ANext
<1> DEFINE G == [x \in Ranks |-> [y \in Ranks |-> GivenTo(x, y)]]
           T == [x \in Ranks |-> [y \in Ranks |-> TakenFrom(x, y)]]
<1>1. G' = G
  BY DEF SameContributions
<1>2. T' = [T EXCEPT ![d] = [s \in Ranks |-> IF s \in S THEN @[s] + 1 ELSE @[s]]]
  OBVIOUS
<1>3. \A s \in S : T[d][s] < G[s][d] /\ \A x \in Ranks : G[d][x] = T[d][s] + 1
  OBVIOUS
<1>4. Abstract!Take(d, S)
  BY <1>1, <1>2, <1>3 DEF Abstract!Take, GivenTo
<1> QED
  BY <1>4 DEF Abstract!ANext

\* A rank of which every signal has been read has given its contribution of the round.
LEMMA ReadyGiven ==
    ASSUME TypeInv, AllLinked, Core, NEW r \in Ranks, NEW s \in Ranks, round[r] \in Rounds,
           \A g \in Groups : Peer(g) = s => rcv[r][g] # "wait"
    PROVE  GivenTo(s, r) >= round[r]
<1>1. PICK k \in Int : k = round[r] /\ k \in Rounds
  BY DEF Rounds
<1>2. PICK n \in Int : n = round[s]
  BY DEF TypeInv, TypeOK
<1>3. ASSUME NEW g \in Groups, Peer(g) = r PROVE Sent(k, s, g)
  <2>1. Sender(s, g) \in Groups /\ Peer(Sender(s, g)) = s
    BY Ends
  <2>2. rcv[r][Sender(s, g)] # "wait"
    BY <2>1
  <2>3. Landed(round[r], s, g)
    BY <1>3, <2>2 DEF AllLinked, Core, Consumed
  <2> QED
    BY <1>1, <2>3 DEF Landed
<1>4. CASE n = k
  <2>1. SentTo(s, r)
    BY <1>2, <1>3, <1>4 DEF Sent, SentTo
  <2> QED
    BY <1>1, <1>2, <1>4, <2>1 DEF GivenTo
<1>5. CASE n # k
  <2>1. PICK g \in Groups : Peer(g) = r
    BY EveryPair
  <2>2. n > k
    BY <1>2, <1>3, <1>5, <2>1 DEF Sent
  <2> QED
    BY <1>1, <1>2, <2>2 DEF GivenTo
<1> QED
  BY <1>4, <1>5

\* A rank that has sent everything has given the contribution of its round to all.
LEMMA SentGiven ==
    ASSUME NEW r \in Ranks, NEW x \in Ranks, round[r] \in Rounds, AllSent(r)
    PROVE  GivenTo(r, x) = round[r]
  BY DEF AllSent, SentTo, GivenTo

\* Before it has sent everything to one rank it has taken nothing of the round.
LEMMA NothingTaken ==
    ASSUME Core, TakenMeaning, NEW r \in Ranks, NEW x \in Ranks, ~AllSent(r)
    PROVE  TakenFrom(r, x) = round[r] - 1
<1>1. PICK h \in Groups : Peer(h) = x
  BY EveryPair
<1>2. rcv[r][h] # "done"
  BY DEF Core, LaunchOrder
<1> QED
  BY <1>1, <1>2 DEF TakenMeaning, DoneFrom

LEMMA UsedKept == ASSUME UNCHANGED used PROVE SameConsumption
  BY DEF SameConsumption, TakenFrom

LEMMA SendRefines ==
    ASSUME TypeInv, Core, TakenMeaning, NEW r \in Ranks, NEW g \in Groups, SendSignal(r, g)
    PROVE  Abstract!ANext \/ UNCHANGED Abstract!avars
<1>1. SameConsumption
  BY UsedKept DEF SendSignal
<1>2. PICK p \in Ranks : p = Peer(g)
  BY GroupDigits
<1>3. /\ round' = round /\ snd[r][g] = "signal" /\ round[r] \in Rounds
      /\ snd' = [snd EXCEPT ![r][g] = "done"]
      /\ snd \in [Ranks -> [Groups -> {"post", "signal", "done"}]]
  BY DEF SendSignal, Running, TypeInv, TypeOK
<1>4. ~SentTo(r, p) /\ ~AllSent(r)
  BY <1>2, <1>3 DEF SentTo, AllSent
<1>5. ASSUME NEW x \in Ranks, NEW y \in Ranks, ~(x = r /\ y = p)
      PROVE  GivenTo(x, y)' = GivenTo(x, y)
  <2>1. \A h \in Groups : Peer(h) = y => snd'[x][h] = snd[x][h]
    BY <1>2, <1>3, <1>5
  <2>2. SentTo(x, y)' <=> SentTo(x, y)
    BY <2>1 DEF SentTo
  <2> QED
    BY <1>3, <2>2 DEF GivenTo
<1>6. CASE SentTo(r, p)'
  <2>1. PICK n \in Int : n = round[r] /\ n <= LastRound
    BY <1>3, Sizes DEF Rounds
  <2>2. GivenTo(r, p) = n - 1 /\ GivenTo(r, p)' = n
    BY <1>3, <1>4, <1>6, <2>1 DEF GivenTo
  <2>3. \A x \in Ranks : TakenFrom(r, x) = n - 1
    BY <1>4, <2>1, NothingTaken
  <2>4. GivenTo(r, p) < LastRound
    BY <2>1, <2>2, Sizes
  <2>5. \A x, y \in Ranks :
            GivenTo(x, y)' = IF x = r /\ y = p THEN GivenTo(x, y) + 1 ELSE GivenTo(x, y)
    BY <1>5, <2>2
  <2>6. \A x \in Ranks : TakenFrom(r, x) = GivenTo(r, p)
    BY <2>2, <2>3
  <2> QED
    BY <1>1, <2>4, <2>5, <2>6, AbstractGive
<1>7. CASE ~SentTo(r, p)'
  <2>1. GivenTo(r, p)' = GivenTo(r, p)
    BY <1>3, <1>4, <1>7 DEF GivenTo
  <2>2. SameContributions
    BY <1>5, <2>1 DEF SameContributions
  <2> QED
    BY <1>1, <2>2, AbstractStutter
<1> QED
  BY <1>6, <1>7

\* A step in which a rank finishes consuming what the ranks of S sent it in this round.
LEMMA ConsumeRefines ==
    ASSUME TypeInv, AllLinked, Core, TakenMeaning, TakenMeaning', UNCHANGED <<round, snd>>,
           NEW r \in Ranks, round[r] \in Rounds, AllSent(r),
           NEW S \in SUBSET Ranks,
           \A s \in S : ~DoneFrom(r, s) /\ DoneFrom(r, s)',
           \A s \in S : \A g \in Groups : Peer(g) = s => rcv[r][g] # "wait",
           \A x, y \in Ranks : ~(x = r /\ y \in S) => (DoneFrom(x, y)' <=> DoneFrom(x, y))
    PROVE  Abstract!ANext \/ UNCHANGED Abstract!avars
<1>1. SameContributions
  BY DEF SameContributions, GivenTo, SentTo
<1>2. PICK k \in Int : k = round[r]
  BY DEF Rounds
<1>3. ASSUME NEW x \in Ranks, NEW y \in Ranks, ~(x = r /\ y \in S)
      PROVE  TakenFrom(x, y)' = TakenFrom(x, y)
  <2>1. DoneFrom(x, y)' <=> DoneFrom(x, y)
    BY <1>3
  <2> QED
    BY <2>1 DEF TakenMeaning
<1>4. ASSUME NEW s \in S
      PROVE  TakenFrom(r, s) = k - 1 /\ TakenFrom(r, s)' = k
  BY <1>2 DEF TakenMeaning
<1>5. CASE S = {}
  <2>1. SameConsumption
    BY <1>3, <1>5 DEF SameConsumption
  <2> QED
    BY <1>1, <2>1, AbstractStutter
<1>6. CASE S # {}
  <2>1. ASSUME NEW s \in S
        PROVE  /\ TakenFrom(r, s) < GivenTo(s, r)
               /\ \A x \in Ranks : GivenTo(r, x) = TakenFrom(r, s) + 1
    <3>1. s \in Ranks /\ \A g \in Groups : Peer(g) = s => rcv[r][g] # "wait"
      OBVIOUS
    <3>2. GivenTo(s, r) >= k
      BY <1>2, <3>1, ReadyGiven
    <3>3. GivenTo(s, r) \in Int
      <4>1. round[s] \in Int
        BY <3>1 DEF TypeInv, TypeOK
      <4> QED
        BY <4>1 DEF GivenTo
    <3>4. \A x \in Ranks : GivenTo(r, x) = k
      BY <1>2, SentGiven
    <3> QED
      BY <1>4, <3>2, <3>3, <3>4
  <2>2. \A x, y \in Ranks :
            TakenFrom(x, y)' = IF x = r /\ y \in S THEN TakenFrom(x, y) + 1
                               ELSE TakenFrom(x, y)
    BY <1>3, <1>4
  <2> QED
    BY <1>1, <1>6, <2>1, <2>2, AbstractTake
<1> QED
  BY <1>5, <1>6

LEMMA CopyRefines ==
    ASSUME TypeInv, AllLinked, Core, TakenMeaning, TakenMeaning',
           NEW r \in Ranks, NEW g \in Groups, CopyRows(r, g)
    PROVE  Abstract!ANext \/ UNCHANGED Abstract!avars
<1>1. PICK p \in Ranks : p = Peer(g)
  BY GroupDigits
<1>2. /\ UNCHANGED <<round, snd>> /\ rcv[r][g] = "ready" /\ round[r] \in Rounds
      /\ rcv' = [rcv EXCEPT ![r][g] = "done"]
      /\ rcv \in [Ranks -> [Groups -> {"wait", "ready", "done"}]]
  BY DEF CopyRows, Running, TypeInv, TypeOK
<1>3. AllSent(r)
  BY <1>2 DEF CopyRows, Core, LaunchOrder
<1>4. ASSUME NEW x \in Ranks, NEW y \in Ranks, ~(x = r /\ y = p)
      PROVE  DoneFrom(x, y)' <=> DoneFrom(x, y)
  <2>1. \A h \in Groups : Peer(h) = y => rcv'[x][h] = rcv[x][h]
    BY <1>1, <1>2, <1>4
  <2> QED
    BY <2>1 DEF DoneFrom
<1>5. ~DoneFrom(r, p)
  BY <1>1, <1>2 DEF DoneFrom
<1>6. PICK S \in SUBSET Ranks : S = {s \in {p} : DoneFrom(r, s)'}
  BY {s \in {p} : DoneFrom(r, s)'} \subseteq Ranks
<1>7. \A s \in S : s = p /\ ~DoneFrom(r, s) /\ DoneFrom(r, s)'
  BY <1>5, <1>6
<1>8. ASSUME NEW s \in S, NEW h \in Groups, Peer(h) = s PROVE rcv[r][h] # "wait"
  <2>1. rcv'[r][h] = "done"
    BY <1>7, <1>8 DEF DoneFrom
  <2> QED
    BY <1>2, <2>1
<1>9. \A x, y \in Ranks : ~(x = r /\ y \in S) => (DoneFrom(x, y)' <=> DoneFrom(x, y))
  BY <1>4, <1>5, <1>6
<1> QED
  BY <1>2, <1>3, <1>7, <1>8, <1>9, ConsumeRefines

LEMMA ReduceRefines ==
    ASSUME TypeInv, AllLinked, Core, TakenMeaning, TakenMeaning', NEW r \in Ranks, Reduce(r)
    PROVE  Abstract!ANext \/ UNCHANGED Abstract!avars
<1>1. /\ UNCHANGED <<round, snd>> /\ round[r] \in Rounds /\ AllSent(r)
      /\ \A g \in Groups : rcv[r][g] = "ready"
      /\ rcv' = [rcv EXCEPT ![r] = [g \in Groups |-> "done"]]
      /\ rcv \in [Ranks -> [Groups -> {"wait", "ready", "done"}]]
  BY DEF Reduce, Running, TypeInv, TypeOK
<1>2. \A s \in Ranks : ~DoneFrom(r, s) /\ DoneFrom(r, s)'
  <2>1. \A g \in Groups : rcv'[r][g] = "done"
    BY <1>1
  <2> QED
    BY <1>1, <2>1, EveryPair DEF DoneFrom
<1>3. ASSUME NEW x \in Ranks, NEW y \in Ranks, x # r
      PROVE  DoneFrom(x, y)' <=> DoneFrom(x, y)
  <2>1. \A h \in Groups : rcv'[x][h] = rcv[x][h]
    BY <1>1, <1>3
  <2> QED
    BY <2>1 DEF DoneFrom
<1>4. \A x, y \in Ranks : ~(x = r /\ y \in Ranks) => (DoneFrom(x, y)' <=> DoneFrom(x, y))
  BY <1>3
<1>5. \A s \in Ranks : \A g \in Groups : Peer(g) = s => rcv[r][g] # "wait"
  BY <1>1
<1>6. Ranks \in SUBSET Ranks
  OBVIOUS
<1> QED
  BY <1>1, <1>2, <1>4, <1>5, <1>6, ConsumeRefines

\* The next launch has given and taken what the last one had.
LEMMA LaunchRefines ==
    ASSUME TypeInv, Core, NEW r \in Ranks, NextLaunch(r)
    PROVE  UNCHANGED Abstract!avars
<1>1. SameConsumption
  BY UsedKept DEF NextLaunch
<1>2. /\ round' = [round EXCEPT ![r] = @ + 1] /\ round[r] \in Rounds
      /\ snd' = [snd EXCEPT ![r] = [g \in Groups |-> "post"]]
      /\ snd \in [Ranks -> [Groups -> {"post", "signal", "done"}]]
      /\ round \in [Ranks -> 1 .. LastRound + 1]
  BY DEF NextLaunch, Running, TypeInv, TypeOK
<1>3. AllSent(r)
  <2>1. PICK g \in Groups : Peer(g) = r
    BY EveryPair
  <2> QED
    BY <2>1 DEF NextLaunch, Core, LaunchOrder
<1>4. ASSUME NEW y \in Ranks PROVE GivenTo(r, y)' = GivenTo(r, y)
  <2>1. PICK n \in Int : n = round[r] /\ round'[r] = n + 1
    BY <1>2 DEF Rounds
  <2>2. GivenTo(r, y) = n
    BY <1>2, <1>3, <2>1, SentGiven
  <2>3. ~SentTo(r, y)'
    <3>1. PICK g \in Groups : Peer(g) = y
      BY EveryPair
    <3>2. snd'[r][g] = "post"
      BY <1>2, <3>1
    <3> QED
      BY <3>1, <3>2 DEF SentTo
  <2>4. GivenTo(r, y)' = n + 1 - 1
    BY <2>1, <2>3 DEF GivenTo
  <2> QED
    BY <2>1, <2>2, <2>4
<1>5. ASSUME NEW x \in Ranks, NEW y \in Ranks, x # r PROVE GivenTo(x, y)' = GivenTo(x, y)
  <2>1. round'[x] = round[x] /\ snd'[x] = snd[x]
    BY <1>2, <1>5
  <2> QED
    BY <2>1 DEF GivenTo, SentTo
<1>6. SameContributions
  BY <1>4, <1>5 DEF SameContributions
<1> QED
  BY <1>1, <1>6, AbstractStutter

LEMMA PostRefines ==
    ASSUME TypeInv, NEW r \in Ranks, NEW g \in Groups, PostRows(r, g)
    PROVE  UNCHANGED Abstract!avars
<1>1. SameConsumption
  BY UsedKept DEF PostRows
<1>2. /\ round' = round /\ snd[r][g] = "post"
      /\ snd' = [snd EXCEPT ![r][g] = "signal"]
      /\ snd \in [Ranks -> [Groups -> {"post", "signal", "done"}]]
  BY DEF PostRows, TypeInv, TypeOK
<1>3. \A x \in Ranks, h \in Groups : snd'[x][h] = "done" <=> snd[x][h] = "done"
  BY <1>2
<1>4. SameContributions
  BY <1>2, <1>3 DEF SameContributions, GivenTo, SentTo
<1> QED
  BY <1>1, <1>4, AbstractStutter

LEMMA StepRefines ==
    ASSUME TypeInv, AllLinked, Core, TakenMeaning, TakenMeaning', [Next]_vars
    PROVE  [Abstract!ANext]_(Abstract!avars)
<1>1. ASSUME UNCHANGED <<round, snd, used>> PROVE UNCHANGED Abstract!avars
  <2>1. SameContributions
    BY <1>1 DEF SameContributions, GivenTo, SentTo
  <2> QED
    BY <1>1, <2>1, UsedKept, AbstractStutter
<1>2. ASSUME NEW r \in Ranks, CleanNext(r) \/ Crash(r) PROVE UNCHANGED <<round, snd, used>>
  BY <1>2 DEF CleanNext, Crash, launchVars
<1>3. ASSUME NEW r \in Ranks, NEW g \in Groups, ReceiveSignal(r, g) \/ GiveUp(r, g)
      PROVE  UNCHANGED <<round, snd, used>>
  BY <1>3 DEF ReceiveSignal, GiveUp
<1>4. ASSUME NEW r \in Ranks, NEW d \in Ranks, NEW q \in Qps, Execute(r, d, q)
      PROVE  UNCHANGED <<round, snd, used>>
  BY <1>4 DEF Execute, launchVars
<1>5. CASE UNCHANGED vars
  <2>1. UNCHANGED <<round, snd, used>>
    BY <1>5 DEF vars, launchVars
  <2> QED
    BY <1>1, <2>1
<1>6. ASSUME NEW r \in Ranks, NEW g \in Groups, GroupStep(r, g)
      PROVE  Abstract!ANext \/ UNCHANGED Abstract!avars
  BY <1>1, <1>3, <1>6, PostRefines, SendRefines, CopyRefines DEF GroupStep
<1>7. ASSUME NEW r \in Ranks, CleanNext(r) \/ Reduce(r) \/ NextLaunch(r) \/ Crash(r)
      PROVE  Abstract!ANext \/ UNCHANGED Abstract!avars
  BY <1>1, <1>2, <1>7, ReduceRefines, LaunchRefines
<1>8. ASSUME NEW r \in Ranks, NEW d \in Ranks, NEW q \in Qps, Execute(r, d, q)
      PROVE  UNCHANGED Abstract!avars
  BY <1>1, <1>4, <1>8
<1> QED
  BY <1>5, <1>6, <1>7, <1>8 DEF Next, Finished

LEMMA InitRefines == ASSUME Init, TakenMeaning PROVE Abstract!AInit
<1>1. ASSUME NEW r \in Ranks, NEW d \in Ranks PROVE GivenTo(r, d) = 0 /\ TakenFrom(r, d) = 0
  <2>1. PICK g \in Groups : Peer(g) = d
    BY EveryPair
  <2>2. round[r] = 1 /\ snd[r][g] = "post" /\ rcv[r][g] = "wait"
    BY DEF Init
  <2>3. ~SentTo(r, d) /\ ~DoneFrom(r, d)
    BY <2>1, <2>2 DEF SentTo, DoneFrom
  <2>4. TakenFrom(r, d) = round[r] - 1
    BY <2>3 DEF TakenMeaning
  <2> QED
    BY <2>2, <2>3, <2>4 DEF GivenTo
<1> QED
  BY <1>1 DEF Abstract!AInit, GivenTo

\* For a caller that alternates the two halves of zeroed buffers, without timeouts, the
\* launches implement the abstract exchange: every rank takes the contribution every
\* rank gave in that round, once and in order, and gives nothing of the next round
\* before.
THEOREM RefinementCorrect ==
    ASSUME DoubleBuffered, FreshWords = {0}, ~Timeouts
    PROVE  Spec => ImplementsRoundExchange
<1>1. Spec => []TakenMeaning
  BY CoreInvariance, TakenValue, PTL
<1>2. Init /\ TakenMeaning => Abstract!AInit
  BY InitRefines
<1>3. TypeInv /\ AllLinked /\ Core /\ TakenMeaning /\ TakenMeaning' /\ [Next]_vars
      => [Abstract!ANext]_(Abstract!avars)
  BY StepRefines
<1>4. Spec => Abstract!AInit /\ [][Abstract!ANext]_(Abstract!avars)
  BY <1>1, <1>2, <1>3, CoreInvariance, PTL DEF Spec
<1> QED
  BY <1>4 DEF ImplementsRoundExchange, Abstract!ASpec
=============================================================================
