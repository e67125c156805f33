------------------------------- MODULE Messages -------------------------------
(***************************************************************************)
(* The chat-message queue of one tadpole (tadpole.messages) and the loop   *)
(* of Tadpole.update that ages it and splices out the expired messages:   *)
(*                                                                         *)
(*   for (var i = tadpole.messages.length - 1; i >= 0; i--) {              *)
(*       msg.update();  if (msg.age == msg.maxAge) splice(i, 1); }         *)
(*                                                                         *)
(* A message is its age.  messageHandler pushes new messages (age 1) at   *)
(* the end; the browser runs one handler at a time, so a push never falls *)
(* inside a pass of the loop.  The loop is modelled one iteration per     *)
(* step, and the queue it started from is kept in `before` so that its    *)
(* result can be compared with the reference definition Expire.            *)
(***************************************************************************)
EXTENDS Naturals, Sequences

CONSTANTS
    MaxAge,     \* Message.maxAge (300 in the code)
    MaxLen      \* bound on the messages queued at once

ASSUME MessagesAssumption == MaxAge \in Nat \ {0, 1} /\ MaxLen \in Nat \ {0}

VARIABLES
    queue,      \* tadpole.messages, as the sequence of the messages' ages
    pc,         \* "idle", or "loop" inside the pass of Tadpole.update
    i,          \* the loop index, 1-based (the code's i + 1)
    before      \* the queue as the current pass found it

vars == <<queue, pc, i, before>>

Ages == 1..MaxAge

TypeOK ==
    /\ queue \in Seq(Ages) /\ Len(queue) <= MaxLen
    /\ pc \in {"idle", "loop"}
    /\ i \in 0..MaxLen
    /\ before \in Seq(Ages)

\* The queue without its element at index j: Array.prototype.splice(j, 1).
Splice(s, j) == SubSeq(s, 1, j - 1) \o SubSeq(s, j + 1, Len(s))

\* What one pass should compute: every message one tick older, and those
\* that reached maxAge gone, the others in their order.
Expire(s) ==
    LET older == [j \in 1..Len(s) |-> s[j] + 1]
    IN  SelectSeq(older, LAMBDA a : a # MaxAge)

\* The indices of s whose message survives one more tick.
Kept(s) == {j \in 1..Len(s) : s[j] + 1 # MaxAge}

\* q holds, from its index lo on, exactly the survivors of s beyond index
\* lo - 1, aged by one, in their order: a strictly increasing map f sends
\* every index of that part of q onto the index of s it came from.  The
\* same result as Expire, stated without recursion.
SurvivorsFrom(q, s, lo) ==
    \E f \in [lo..Len(q) -> lo..Len(s)] :
        /\ \A m, k \in lo..Len(q) : m < k => f[m] < f[k]
        /\ {f[m] : m \in lo..Len(q)} = Kept(s) \cap lo..Len(s)
        /\ \A m \in lo..Len(q) : q[m] = s[f[m]] + 1

\* new Tadpole(): this.messages = [].
Init ==
    /\ queue = << >>
    /\ pc = "idle"
    /\ i = 0
    /\ before = << >>

\* messageHandler: tadpole.messages.push(new Message(data.message)).
push ==
    /\ pc = "idle"
    /\ Len(queue) < MaxLen
    /\ queue' = Append(queue, 1)
    /\ UNCHANGED <<pc, i, before>>

\* Tadpole.update reaches the loop: i = tadpole.messages.length - 1.
startPass ==
    /\ pc = "idle"
    /\ pc' = "loop"
    /\ i' = Len(queue)
    /\ before' = queue
    /\ UNCHANGED queue

\* Mutant: the expiry test runs before msg.update().
loopStepTestFirst ==
    /\ pc = "loop" /\ i > 0
    /\ queue' = IF queue[i] = MaxAge THEN Splice(queue, i)
                ELSE [queue EXCEPT ![i] = @ + 1]
    /\ i' = i - 1
    /\ UNCHANGED <<pc, before>>

\* Mutant: splice(i) without its count removes every message from i on.
loopStepSpliceAll ==
    /\ pc = "loop" /\ i > 0
    /\ queue' = IF queue[i] + 1 = MaxAge THEN SubSeq(queue, 1, i - 1)
                ELSE [queue EXCEPT ![i] = @ + 1]
    /\ i' = i - 1
    /\ UNCHANGED <<pc, before>>

\* One iteration: msg.update() ages the message; if it reached maxAge it
\* is spliced out; then i--.
loopStep ==
    /\ pc = "loop" /\ i > 0
    /\ queue' = IF queue[i] + 1 = MaxAge THEN Splice(queue, i)
                ELSE [queue EXCEPT ![i] = @ + 1]
    /\ i' = i - 1
    /\ UNCHANGED <<pc, before>>

\* i >= 0 fails: the pass is over.
loopEnd ==
    /\ pc = "loop" /\ i = 0
    /\ pc' = "idle"
    /\ UNCHANGED <<queue, i, before>>

Next == push \/ startPass \/ loopStep \/ loopEnd

Spec == Init /\ [][Next]_vars

-----------------------------------------------------------------------------
\* A pass of Tadpole.update's loop leaves exactly the reference result:
\* every message aged by one and exactly those reaching maxAge removed, in
\* their order, also when several messages pushed in the same tick expire
\* together and the splice shifts the ones behind them.
PassMatchesReference ==
    (pc = "loop" /\ i = 0) => queue = Expire(before)

\* PassMatchesReference against the reference that needs no recursion,
\* the form the proofs use: at the end of a pass the queue is the messages
\* that survive, each aged by one, in the order they had; the splice's shift of the messages behind an expired
\* one never drops, duplicates or reorders one of them.
PassKeepsSurvivorsInOrder ==
    (pc = "loop" /\ i = 0) => SurvivorsFrom(queue, before, 1)

\* The strengthening that makes it inductive: every queued message is
\* younger than maxAge; during a pass the messages not yet visited are
\* those of `before`, and the visited part holds their survivors.
IInv ==
    /\ queue \in Seq(1..(MaxAge - 1)) /\ Len(queue) <= MaxLen
    /\ pc \in {"idle", "loop"}
    /\ i \in 0..MaxLen
    /\ before \in Seq(Ages)
    /\ pc = "loop" =>
         /\ i \in 0..Len(before) /\ i <= Len(queue)
         /\ \A j \in 1..i : queue[j] = before[j]
         /\ SurvivorsFrom(queue, before, i + 1)

=============================================================================
