---------------------------- MODULE Messages_proofs ----------------------------
(***************************************************************************)
(* PassKeepsSurvivorsInOrder for every maxAge and every bound on the      *)
(* queue.  The loop invariant IInv says that, while the pass runs from    *)
(* the end of the queue to its front, the part not yet visited (indices   *)
(* 1..i) is untouched and the visited part holds exactly the survivors of *)
(* before beyond i, aged, in order.  A step of the loop either splices   *)
(* out message i, so the visited part shifts down by one, or ages it in  *)
(* place, so the visited part grows by one at its front; in both cases   *)
(* the order-preserving map of the visited part is rebuilt explicitly.   *)
(*                                                                         *)
(* PassMatchesReference, which compares with the SelectSeq reference, is *)
(* left to TLC: relating SelectSeq to the loop needs induction over the  *)
(* sequence, which the provers cannot do.                                 *)
(***************************************************************************)
EXTENDS Messages, SequenceTheorems, TLAPS

USE MessagesAssumption DEF Ages

\* Live ages: those a queued message can have.
Live == 1..(MaxAge - 1)

-----------------------------------------------------------------------------
(* Array.prototype.splice(j, 1), as Splice models it.                      *)

LEMMA SpliceProperties ==
    ASSUME NEW S, NEW s \in Seq(S), NEW j \in 1..Len(s)
    PROVE  /\ Splice(s, j) \in Seq(S)
           /\ Len(Splice(s, j)) = Len(s) - 1
           /\ \A m \in 1..(Len(s) - 1) :
                 Splice(s, j)[m] = IF m < j THEN s[m] ELSE s[m + 1]
<1>1. /\ SubSeq(s, 1, j - 1) \in Seq(S)
      /\ Len(SubSeq(s, 1, j - 1)) = j - 1
      /\ \A m \in 1..(j - 1) : SubSeq(s, 1, j - 1)[m] = s[m]
    BY SubSeqProperties
<1>2. /\ SubSeq(s, j + 1, Len(s)) \in Seq(S)
      /\ Len(SubSeq(s, j + 1, Len(s))) = Len(s) - j
      /\ \A m \in 1..(Len(s) - j) : SubSeq(s, j + 1, Len(s))[m] = s[j + m]
    BY SubSeqProperties
<1>3. PICK a \in Seq(S) : a = SubSeq(s, 1, j - 1)
    BY <1>1
<1>4. PICK b \in Seq(S) : b = SubSeq(s, j + 1, Len(s))
    BY <1>2
<1>5. /\ Len(a) = j - 1 /\ \A m \in 1..(j - 1) : a[m] = s[m]
      /\ Len(b) = Len(s) - j /\ \A m \in 1..(Len(s) - j) : b[m] = s[j + m]
    BY <1>1, <1>2, <1>3, <1>4, Zenon
<1>6. Splice(s, j) = a \o b
    BY <1>3, <1>4, Zenon DEF Splice
<1>7. /\ a \o b \in Seq(S)
      /\ Len(a \o b) = Len(a) + Len(b)
      /\ \A k \in 1..(Len(a) + Len(b)) :
            (a \o b)[k] = IF k <= Len(a) THEN a[k] ELSE b[k - Len(a)]
    BY ConcatProperties
<1>8. ASSUME NEW m \in 1..(Len(s) - 1)
      PROVE  (a \o b)[m] = IF m < j THEN s[m] ELSE s[m + 1]
    <2>1. CASE m < j
        BY <1>5, <1>7, <2>1
    <2>2. CASE m >= j
        <3>1. (a \o b)[m] = b[m - (j - 1)] /\ m - (j - 1) \in 1..(Len(s) - j)
            BY <1>5, <1>7, <2>2
        <3>2. b[m - (j - 1)] = s[j + (m - (j - 1))]
            BY <1>5, <3>1
        <3>3. j + (m - (j - 1)) = m + 1
            OBVIOUS
        <3>4. QED
            BY <2>2, <3>1, <3>2, <3>3
    <2>3. m < j \/ m >= j
        OBVIOUS
    <2>4. QED
        BY <2>1, <2>2, <2>3, Zenon
<1>9. QED
    BY <1>5, <1>6, <1>7, <1>8

-----------------------------------------------------------------------------
(* Images of functions, for the set of indices the survivors' map hits.   *)

LEMMA ImageEq ==
    ASSUME NEW D, NEW E, NEW g, NEW f,
           \A m \in D : \E k \in E : g[m] = f[k],
           \A k \in E : \E m \in D : f[k] = g[m]
    PROVE  {g[m] : m \in D} = {f[k] : k \in E}
OBVIOUS

LEMMA ImageCons ==
    ASSUME NEW D, NEW E, NEW d, NEW c, NEW g, NEW f,
           D = {d} \cup E, g[d] = c, \A m \in E : g[m] = f[m]
    PROVE  {g[m] : m \in D} = {c} \cup {f[m] : m \in E}
OBVIOUS

-----------------------------------------------------------------------------
(* The loop invariant.                                                     *)

LEMMA IInvInit == Init => IInv
BY DEF Init, IInv

\* Entering the loop: nothing is visited yet, so the survivors' map is
\* the empty function.
LEMMA StartPassStep ==
    ASSUME IInv, startPass
    PROVE  IInv'
<1>1. /\ queue \in Seq(Live) /\ Len(queue) <= MaxLen
      /\ queue' = queue /\ before' = queue /\ i' = Len(queue)
      /\ pc' = "loop"
    BY DEF IInv, startPass, Live
<1>2. before' \in Seq(Ages)
    BY <1>1, SeqMonotonic DEF Live
<1>3. SurvivorsFrom(queue, queue, Len(queue) + 1)
    <2> DEFINE f == [m \in (Len(queue) + 1)..Len(queue) |-> 1]
    <2> USE DEF f
    <2>1. f \in [(Len(queue) + 1)..Len(queue) -> (Len(queue) + 1)..Len(queue)]
        BY <1>1
    <2>2. Kept(queue) \cap (Len(queue) + 1)..Len(queue) = {}
        BY <1>1 DEF Kept
    <2>3. /\ \A m, k \in (Len(queue) + 1)..Len(queue) : m < k => f[m] < f[k]
          /\ {f[m] : m \in (Len(queue) + 1)..Len(queue)} = {}
          /\ \A m \in (Len(queue) + 1)..Len(queue) :
                queue[m] = queue[f[m]] + 1
        BY <1>1
    <2>4. QED
        BY <2>1, <2>2, <2>3 DEF SurvivorsFrom
<1>4. QED
    BY <1>1, <1>2, <1>3 DEF IInv, Live

\* One iteration of the loop, on the message at index i.
LEMMA LoopStepStep ==
    ASSUME IInv, loopStep
    PROVE  IInv'
<1> DEFINE n == Len(queue)
           N == Len(before)
           x == queue[i]
<1> USE DEF n, N, x
<1>1. /\ queue \in Seq(Live) /\ n <= MaxLen /\ before \in Seq(Ages)
      /\ pc = "loop" /\ i \in 1..N /\ i <= n
      /\ \A j \in 1..i : queue[j] = before[j]
      /\ SurvivorsFrom(queue, before, i + 1)
      /\ pc' = "loop" /\ i' = i - 1 /\ before' = before
    BY DEF IInv, loopStep, Live
<1>2. x = before[i] /\ x \in Live
    BY <1>1 DEF Live
<1>3. PICK f \in [(i + 1)..n -> (i + 1)..N] :
        /\ \A m, k \in (i + 1)..n : m < k => f[m] < f[k]
        /\ {f[m] : m \in (i + 1)..n} = Kept(before) \cap (i + 1)..N
        /\ \A m \in (i + 1)..n : queue[m] = before[f[m]] + 1
    BY <1>1 DEF SurvivorsFrom
<1>4. CASE x + 1 = MaxAge
    <2>0. /\ Splice(queue, i) \in Seq(Live)
          /\ Len(Splice(queue, i)) = Len(queue) - 1
          /\ \A m \in 1..(Len(queue) - 1) :
                Splice(queue, i)[m] = IF m < i THEN queue[m] ELSE queue[m + 1]
        <3>1. i \in 1..Len(queue)
            BY <1>1
        <3>2. QED
            BY <1>1, <3>1, SpliceProperties
    <2>1. queue' = Splice(queue, i)
        BY <1>4 DEF loopStep
    <2>2. /\ queue' \in Seq(Live)
          /\ Len(queue') = n - 1
          /\ \A m \in 1..(n - 1) :
                queue'[m] = IF m < i THEN queue[m] ELSE queue[m + 1]
        BY <2>0, <2>1, Zenon
    <2>3. i \notin Kept(before)
        BY <1>2, <1>4 DEF Kept
    <2>4. SurvivorsFrom(queue', before, i)
        <3> DEFINE g == [m \in i..(n - 1) |-> f[m + 1]]
        <3> USE DEF g
        <3>1. g \in [i..Len(queue') -> i..N]
            BY <1>1, <1>3, <2>2
        <3>2. \A m, k \in i..Len(queue') : m < k => g[m] < g[k]
            BY <1>1, <1>3, <2>2
        <3>3. {g[m] : m \in i..Len(queue')} = Kept(before) \cap i..N
            <4>1. {g[m] : m \in i..Len(queue')} = {f[m] : m \in (i + 1)..n}
                <5>1. ASSUME NEW m \in i..Len(queue')
                      PROVE  \E k \in (i + 1)..n : g[m] = f[k]
                    BY <1>1, <2>2
                <5>2. ASSUME NEW k \in (i + 1)..n
                      PROVE  \E m \in i..Len(queue') : f[k] = g[m]
                    <6>1. k - 1 \in i..Len(queue') /\ g[k - 1] = f[k]
                        BY <1>1, <2>2
                    <6>2. QED
                        BY <6>1
                <5>3. QED
                    <6> HIDE DEF g
                    <6>1. QED
                        BY <5>1, <5>2, ImageEq
            <4>2. Kept(before) \cap i..N = Kept(before) \cap (i + 1)..N
                <5>1. i..N = {i} \cup (i + 1)..N
                    BY <1>1
                <5>2. QED
                    BY <2>3, <5>1, Zenon
            <4>3. QED
                BY <1>3, <4>1, <4>2
        <3>4. \A m \in i..Len(queue') : queue'[m] = before[g[m]] + 1
            BY <1>1, <1>3, <2>2
        <3>5. QED
            BY <3>1, <3>2, <3>3, <3>4 DEF SurvivorsFrom
    <2>5. ASSUME NEW j \in 1..(i - 1) PROVE queue'[j] = before[j]
        <3>1. j \in 1..(n - 1) /\ j < i /\ j \in 1..i
            BY <1>1
        <3>2. queue'[j] = queue[j]
            BY <2>2, <3>1
        <3>3. QED
            BY <1>1, <3>1, <3>2
    <2>6. queue' \in Seq(1..(MaxAge - 1)) /\ Len(queue') <= MaxLen
        BY <1>1, <2>2 DEF Live
    <2>7. i' + 1 = i /\ SurvivorsFrom(queue', before', i' + 1)
        BY <1>1, <2>4
    <2>8. QED
        BY <1>1, <2>2, <2>5, <2>6, <2>7 DEF IInv
<1>5. CASE x + 1 # MaxAge
    <2>1. queue' = [queue EXCEPT ![i] = x + 1]
        BY <1>5 DEF loopStep
    <2>2. x + 1 \in Live
        BY <1>2, <1>5 DEF Live
    <2>3. /\ queue' \in Seq(Live)
          /\ Len(queue') = n
          /\ queue'[i] = before[i] + 1
          /\ \A m \in 1..n : m # i => queue'[m] = queue[m]
        BY <1>1, <1>2, <2>1, <2>2
    <2>4. i \in Kept(before)
        BY <1>1, <1>2, <1>5 DEF Kept
    <2>5. SurvivorsFrom(queue', before, i)
        <3> DEFINE g == [m \in i..n |-> IF m = i THEN i ELSE f[m]]
        <3> USE DEF g
        <3>1. g \in [i..Len(queue') -> i..N]
            BY <1>1, <1>3, <2>3
        <3>2. ASSUME NEW m \in i..Len(queue'), NEW k \in i..Len(queue'), m < k
              PROVE  g[m] < g[k]
            <4>1. k \in (i + 1)..n /\ g[k] = f[k] /\ f[k] \in (i + 1)..N
                BY <1>1, <1>3, <2>3, <3>2
            <4>2. CASE m = i
                BY <4>1, <4>2
            <4>3. CASE m # i
                <5>1. m \in (i + 1)..n /\ g[m] = f[m]
                    BY <1>1, <2>3, <4>3
                <5>2. QED
                    BY <1>3, <3>2, <4>1, <5>1
            <4>4. QED
                BY <4>2, <4>3
        <3>3. {g[m] : m \in i..Len(queue')} = Kept(before) \cap i..N
            <4>1. {g[m] : m \in i..Len(queue')}
                    = {i} \cup {f[m] : m \in (i + 1)..n}
                <5>1. i..Len(queue') = {i} \cup (i + 1)..n
                    BY <1>1, <2>3
                <5>2. g[i] = i /\ \A m \in (i + 1)..n : g[m] = f[m]
                    BY <1>1, <2>3
                <5>3. QED
                    <6> HIDE DEF g
                    <6>1. QED
                        BY <5>1, <5>2, ImageCons
            <4>2. Kept(before) \cap i..N
                    = {i} \cup (Kept(before) \cap (i + 1)..N)
                BY <1>1, <2>4
            <4>3. QED
                BY <1>3, <4>1, <4>2
        <3>4. \A m \in i..Len(queue') : queue'[m] = before[g[m]] + 1
            BY <1>1, <1>3, <2>3
        <3>5. QED
            BY <3>1, <3>2, <3>3, <3>4 DEF SurvivorsFrom
    <2>6. ASSUME NEW j \in 1..(i - 1) PROVE queue'[j] = before[j]
        <3>1. j \in 1..n /\ j # i /\ j \in 1..i
            BY <1>1
        <3>2. QED
            BY <1>1, <2>3, <3>1
    <2>7. /\ queue' \in Seq(1..(MaxAge - 1)) /\ Len(queue') <= MaxLen
          /\ i' \in 0..Len(before') /\ i' <= Len(queue')
        <3>1. queue' \in Seq(Live) /\ Len(queue') = n
            BY <2>3, Zenon
        <3>2. queue' \in Seq(1..(MaxAge - 1))
            BY <3>1, Zenon DEF Live
        <3>3. QED
            BY <1>1, <3>1, <3>2
    <2>8. i' + 1 = i /\ SurvivorsFrom(queue', before', i' + 1)
        BY <1>1, <2>5
    <2>9. QED
        BY <1>1, <2>6, <2>7, <2>8 DEF IInv
<1>6. x + 1 = MaxAge \/ x + 1 # MaxAge
    OBVIOUS
<1>7. QED
    BY <1>4, <1>5, <1>6, Zenon

LEMMA IInvStep == IInv /\ [Next]_vars => IInv'
<1> SUFFICES ASSUME IInv, [Next]_vars PROVE IInv'
    OBVIOUS
<1>1. CASE push
    <2>1. /\ queue' = Append(queue, 1) /\ Len(queue) < MaxLen
          /\ pc = "idle" /\ pc' = "idle" /\ before' = before /\ i' = i
        BY <1>1 DEF push
    <2>2. queue' \in Seq(Live)
        BY <2>1 DEF IInv, Live
    <2>3. QED
        BY <2>1, <2>2 DEF IInv, Live
<1>2. CASE startPass
    BY <1>2, StartPassStep
<1>3. CASE loopStep
    BY <1>3, LoopStepStep
<1>4. CASE loopEnd
    BY <1>4 DEF loopEnd, IInv
<1>5. CASE UNCHANGED vars
    BY <1>5, Zenon DEF vars, IInv
<1>6. QED
    BY <1>1, <1>2, <1>3, <1>4, <1>5 DEF Next

\* However messages are pushed between the passes of Tadpole.update, and
\* however many of them expire in the same pass, a pass of the backward
\* splice loop leaves exactly the surviving messages, each aged by one,
\* in their order, for every maxAge and every bound on the queue.
THEOREM PassKeepsSurvivorsInOrderHolds == Spec => []PassKeepsSurvivorsInOrder
<1>1. IInv => PassKeepsSurvivorsInOrder
    BY DEF IInv, PassKeepsSurvivorsInOrder
<1>2. QED
    BY <1>1, IInvInit, IInvStep, PTL DEF Spec

\* The message queue keeps its type: ages between 1 and maxAge, at most
\* MaxLen messages, and the loop index within the queue's bound.
THEOREM TypeCorrect == Spec => []TypeOK
<1>1. IInv => TypeOK
    <2> SUFFICES ASSUME IInv PROVE TypeOK
        OBVIOUS
    <2>1. queue \in Seq(Ages)
        BY SeqMonotonic DEF IInv, Live
    <2>2. QED
        BY <2>1 DEF IInv, TypeOK
<1>2. QED
    BY <1>1, IInvInit, IInvStep, PTL DEF Spec

=============================================================================
