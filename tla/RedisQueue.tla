----------------------------- MODULE RedisQueue -----------------------------
(* The Redis lists of internal/queue/redis.go.  The left end of a list is the *)
(* first element of the sequence; one Redis command is one step.               *)
EXTENDS Models, Sequences, SequencesExt

VARIABLES pending,    \* forgerun:jobs:pending
          inflight,   \* forgerun:jobs:inflight
          mailbox     \* forgerun:runner:<id>:mailbox, per runner

queueVars == <<pending, inflight, mailbox>>

QueueTypeOK == /\ pending \in Seq(Jobs)
               /\ inflight \in Seq(Jobs)
               /\ mailbox \in [Runners -> Seq(Jobs)]

QueueInit == /\ pending = <<>>
             /\ inflight = <<>>
             /\ mailbox = [r \in Runners |-> <<>>]

\* Enqueue: LPUSH pending
Enqueue(j) == pending' = Cons(j, pending) /\ UNCHANGED <<inflight, mailbox>>

\* Variant: the id is popped, not moved.
Dequeue_Pop == pending # <<>> /\ pending' = Front(pending) /\ UNCHANGED <<inflight, mailbox>>

\* Dequeue: BLMOVE pending inflight RIGHT LEFT; ErrEmpty when nothing arrives.
Dequeue == /\ pending # <<>>
           /\ pending' = Front(pending)
           /\ inflight' = Cons(Last(pending), inflight)
           /\ UNCHANGED mailbox

\* Ack: LREM inflight 1.  Requeue is Ack and then Enqueue, two commands.
Ack(j) == inflight' = RemoveFirst(inflight, j) /\ UNCHANGED <<pending, mailbox>>

\* Dispatch: LPUSH mailbox, then EXPIRE, which only concerns MailboxExpires.
Dispatch(r, j) == mailbox' = [mailbox EXCEPT ![r] = Cons(j, @)] /\ UNCHANGED <<pending, inflight>>

\* The time to live set by Dispatch runs out.
MailboxExpires(r) == /\ mailbox[r] # <<>>
                     /\ mailbox' = [mailbox EXCEPT ![r] = <<>>]
                     /\ UNCHANGED <<pending, inflight>>

\* Receive: BRPOP mailbox, the id Received; ErrEmpty when nothing arrives.
Received(r) == Last(mailbox[r])
Receive_All(r) == /\ mailbox[r] # <<>>
                  /\ mailbox' = [mailbox EXCEPT ![r] = <<>>]
                  /\ UNCHANGED <<pending, inflight>>
Receive(r) == /\ mailbox[r] # <<>>
              /\ mailbox' = [mailbox EXCEPT ![r] = Front(@)]
              /\ UNCHANGED <<pending, inflight>>
=============================================================================
