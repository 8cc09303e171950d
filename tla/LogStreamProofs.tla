-------------------------- MODULE LogStreamProofs ---------------------------
(* What reaches the jobs table of a build's output, for any number of          *)
(* attempts, runners, lines and faults.                                        *)
EXTENDS LogStream, SequenceTheorems, TLAPS

Streams == [pc : {"none", "assigned", "running", "closing", "closed", "dead"},
            host : Runners \cup {NULL}, written : 0..MaxLines, buf : Seq(Lines),
            seq : Nat, sendMu : {"free", "ticker", "close"}]

Posts == [att : Attempts, seq : Nat, chunk : Seq(Lines), at : {"sent", "owned"}]

Types == /\ owner \in Runners \cup {NULL}
         /\ stream \in [Attempts -> Streams]
         /\ posts \subseteq Posts
         /\ logs \in Seq(Lines) /\ log_seq \in Nat /\ faults \in Nat

\* How many lines attempt a has taken out of its buffer to send.
Flushed(a) == stream[a].written - Len(stream[a].buf)

\* The buffer has the lines written since, in order.
BufferOK ==
  \A a \in Attempts :
    /\ Flushed(a) \in Nat
    /\ \A i \in DOMAIN stream[a].buf : stream[a].buf[i] = <<a, Flushed(a) + i>>

\* A request has lines of its attempt, in order, taken out before; its number was
\* given out before.
PostsOK ==
  \A p \in posts :
    /\ p.seq <= stream[p.att].seq
    /\ \A i \in DOMAIN p.chunk : p.chunk[i][1] = p.att /\ p.chunk[i][2] <= Flushed(p.att)
    /\ \A i, k \in DOMAIN p.chunk : i < k => p.chunk[i][2] < p.chunk[k][2]

\* Of two requests of an attempt, the one with the higher number has later lines.
PostsInOrder ==
  \A p, q \in posts : p.att = q.att /\ p.seq < q.seq =>
    \A i \in DOMAIN p.chunk, k \in DOMAIN q.chunk : p.chunk[i][2] < q.chunk[k][2]

\* What is stored was taken out before, and comes before what may still be stored.
StoredBefore ==
  \A i \in DOMAIN logs :
    /\ logs[i][2] <= Flushed(logs[i][1])
    /\ \A p \in posts : p.att = logs[i][1] /\ p.seq > log_seq =>
         \A k \in DOMAIN p.chunk : logs[i][2] < p.chunk[k][2]

OrderInv == Types /\ BufferOK /\ PostsOK /\ PostsInOrder /\ StoredBefore /\ LogsInOrder

-----------------------------------------------------------------------------
(* The shapes of a step                                                        *)

\* No line is written and no buffer emptied.
SameBuffers ==
  \A a \in Attempts : /\ stream'[a].written = stream[a].written
                      /\ stream'[a].buf = stream[a].buf /\ stream'[a].seq = stream[a].seq

\* Requests are dropped, or go on.
SamePosts ==
  \A p \in posts' : \E q \in posts : p.att = q.att /\ p.seq = q.seq /\ p.chunk = q.chunk

\* logstream.go: lines and requests.
LEMMA LineFacts ==
  /\ \A ln \in Lines : ln[1] \in Attempts /\ ln[2] \in Nat
  /\ \A a \in Attempts, n \in 1..MaxLines : <<a, n>> \in Lines
  BY LogAssumption DEF Lines

\* logstream.go: what a streamer's buffer is.
LEMMA StreamFacts ==
  ASSUME Types, NEW a \in Attempts
  PROVE  /\ stream[a] \in Streams /\ stream[a].buf \in Seq(Lines)
         /\ stream[a].written \in Nat /\ stream[a].seq \in Nat
         /\ Len(stream[a].buf) \in Nat /\ DOMAIN stream[a].buf = 1..Len(stream[a].buf)
  BY LogAssumption DEF Types, Streams

\* logstream.go, store.go: a step that neither writes, sends nor stores keeps order.
LEMMA QuietKeepsOrder ==
  ASSUME OrderInv, Types', SameBuffers, SamePosts, UNCHANGED <<logs, log_seq>>
  PROVE  OrderInv'
<1>1. \A a \in Attempts : Flushed(a)' = Flushed(a) BY DEF SameBuffers, Flushed
<1>2. BufferOK' BY <1>1 DEF OrderInv, BufferOK, SameBuffers
<1>a. \A p \in posts' : p.att \in Attempts BY DEF Types, Posts
<1>3. PostsOK' BY <1>1, <1>a DEF OrderInv, PostsOK, SameBuffers, SamePosts
<1>4. PostsInOrder' BY DEF OrderInv, PostsInOrder, SamePosts
<1>5. StoredBefore'
  <2>1. \A i \in DOMAIN logs : logs[i][1] \in Attempts
    BY LineFacts DEF OrderInv, Types
  <2> QED BY <1>1, <2>1 DEF OrderInv, StoredBefore, SamePosts
<1>6. LogsInOrder' BY DEF OrderInv, LogsInOrder
<1> QED BY <1>2, <1>3, <1>4, <1>5, <1>6 DEF OrderInv

\* store.go, AppendLogs: a chunk that the guard lets through comes after all that is
\* stored of its attempt.
LEMMA AppendKeepsOrder ==
  ASSUME OrderInv, Types', SameBuffers, posts' \subseteq posts, NEW p \in posts,
         p.seq > log_seq, logs' = logs \o p.chunk, log_seq' = p.seq
  PROVE  OrderInv'
<1>0. /\ p \in Posts /\ p.att \in Attempts /\ p.seq \in Nat /\ p.chunk \in Seq(Lines)
      /\ logs \in Seq(Lines) /\ log_seq \in Nat
  BY DEF OrderInv, Types, Posts
<1>1. \A a \in Attempts : Flushed(a)' = Flushed(a) BY DEF SameBuffers, Flushed
<1>2. BufferOK' BY <1>1 DEF OrderInv, BufferOK, SameBuffers
<1>3. PostsOK'
  <2>1. \A q \in posts' : q \in posts /\ q.att \in Attempts BY DEF OrderInv, Types, Posts
  <2> QED BY <1>1, <2>1 DEF OrderInv, PostsOK, SameBuffers
<1>4. PostsInOrder' BY DEF OrderInv, PostsInOrder
<1> DEFINE n == Len(logs)
<1>5. /\ n \in Nat /\ Len(p.chunk) \in Nat
      /\ DOMAIN logs = 1..n /\ DOMAIN p.chunk = 1..Len(p.chunk)
      /\ DOMAIN logs' = 1..(n + Len(p.chunk))
      /\ \A i \in 1..n : logs'[i] = logs[i]
      /\ \A i \in (n + 1)..(n + Len(p.chunk)) : logs'[i] = p.chunk[i - n] /\ i - n \in DOMAIN p.chunk
  BY <1>0
<1> HIDE DEF n
<1>6. ASSUME NEW i \in DOMAIN logs'
      PROVE  i \in Nat /\ (i \in DOMAIN logs \/ (i > n /\ i - n \in DOMAIN p.chunk))
  BY <1>5
<1>7. \A i \in DOMAIN logs : logs[i][1] \in Attempts /\ logs[i][2] \in Nat
  BY <1>0, LineFacts
<1>8. \A i \in DOMAIN p.chunk : p.chunk[i][1] = p.att /\ p.chunk[i][2] \in Nat
  BY <1>0, LineFacts DEF OrderInv, PostsOK
<1>9. StoredBefore'
  <2> SUFFICES ASSUME NEW i \in DOMAIN logs'
               PROVE  /\ logs'[i][2] <= Flushed(logs[i][1])'
                      /\ \A q \in posts' : q.att = logs'[i][1] /\ q.seq > p.seq =>
                           \A k \in DOMAIN q.chunk : logs'[i][2] < q.chunk[k][2]
    BY DEF StoredBefore
  <2>q. \A q \in posts' : q \in posts /\ q.seq \in Nat BY DEF OrderInv, Types, Posts
  <2>1. CASE i \in DOMAIN logs
    <3>1. logs'[i] = logs[i] BY <2>1, <1>5
    <3>2. \A q \in posts' : q.seq > p.seq => q.seq > log_seq BY <2>q, <1>0
    <3> QED BY <2>1, <2>q, <3>1, <3>2, <1>1, <1>7 DEF OrderInv, StoredBefore
  <2>2. CASE i > n /\ i - n \in DOMAIN p.chunk
    <3>1. logs'[i] = p.chunk[i - n] BY <2>2, <1>5
    <3>2. logs'[i][1] = p.att /\ logs'[i][2] <= Flushed(p.att)
      BY <2>2, <3>1 DEF OrderInv, PostsOK
    <3>3. ASSUME NEW q \in posts', q.att = p.att, q.seq > p.seq, NEW k \in DOMAIN q.chunk
          PROVE  logs'[i][2] < q.chunk[k][2]
      <4>1. p.seq < q.seq BY <3>3, <2>q, <1>0
      <4> QED BY <3>1, <3>3, <4>1, <2>2, <2>q DEF OrderInv, PostsInOrder
    <3> QED BY <3>2, <3>3, <1>0, <1>1
  <2> QED BY <2>1, <2>2, <1>6
<1>10. LogsInOrder'
  <2> SUFFICES ASSUME NEW i \in DOMAIN logs', NEW k \in DOMAIN logs', i < k,
                      logs'[i][1] = logs'[k][1]
               PROVE  logs'[i][2] < logs'[k][2]
    BY DEF LogsInOrder
  <2>1. CASE k \in DOMAIN logs
    <3>1. i \in DOMAIN logs /\ logs'[i] = logs[i] /\ logs'[k] = logs[k]
      BY <2>1, <1>5, <1>6
    <3> QED BY <2>1, <3>1 DEF OrderInv, LogsInOrder
  <2>2. CASE i \in DOMAIN logs /\ k > n /\ k - n \in DOMAIN p.chunk
    <3>1. logs'[i] = logs[i] /\ logs'[k] = p.chunk[k - n] BY <2>2, <1>5
    <3>2. logs[i][1] = p.att BY <3>1, <2>2, <1>8
    <3> QED BY <3>1, <3>2, <2>2 DEF OrderInv, StoredBefore
  <2>3. CASE i > n /\ i - n \in DOMAIN p.chunk /\ k > n /\ k - n \in DOMAIN p.chunk
    <3>1. logs'[i] = p.chunk[i - n] /\ logs'[k] = p.chunk[k - n] BY <2>3, <1>5
    <3>2. i - n < k - n BY <1>5, <1>6
    <3> QED BY <3>1, <3>2, <2>3 DEF OrderInv, PostsOK
  <2> QED BY <2>1, <2>2, <2>3, <1>6
<1> QED BY <1>2, <1>3, <1>4, <1>9, <1>10 DEF OrderInv

\* logstream.go, Write: the new line comes after all that was written before.
LEMMA WriteKeepsOrder ==
  ASSUME OrderInv, NEW a \in Attempts, Write(a)
  PROVE  OrderInv'
<1> DEFINE w == stream[a].written
           b == stream[a].buf
           k == [stream[a] EXCEPT !.written = w + 1, !.buf = Append(b, <<a, w + 1>>)]
<1>0. /\ stream[a] \in Streams /\ stream \in [Attempts -> Streams] /\ w \in Nat /\ w < MaxLines
      /\ b \in Seq(Lines) /\ Len(b) \in Nat /\ DOMAIN b = 1..Len(b)
  BY StreamFacts DEF OrderInv, Types, Write
<1>1. /\ stream' = [stream EXCEPT ![a] = k]
      /\ UNCHANGED <<owner, finished, posts, logs, log_seq, accepted, faults>>
  BY <1>0 DEF Write, job, table, NoFault
<1>2. <<a, w + 1>> \in Lines /\ w + 1 \in 0..MaxLines
  BY <1>0, LineFacts, LogAssumption
<1>3. Append(b, <<a, w + 1>>) \in Seq(Lines) BY <1>0, <1>2
<1>4. /\ k \in Streams /\ k.written = w + 1 /\ k.buf = Append(b, <<a, w + 1>>)
      /\ k.seq = stream[a].seq
  BY <1>0, <1>2, <1>3 DEF Streams
<1> HIDE DEF k
<1>5. /\ stream' \in [Attempts -> Streams] /\ stream'[a] = k
      /\ \A c \in Attempts : c # a => stream'[c] = stream[c]
  BY <1>0, <1>1, <1>4
<1>6. Types' BY <1>1, <1>5 DEF OrderInv, Types
<1>7. /\ Len(k.buf) = Len(b) + 1 /\ DOMAIN k.buf = 1..(Len(b) + 1)
      /\ \A i \in 1..Len(b) : k.buf[i] = b[i]
      /\ k.buf[Len(b) + 1] = <<a, w + 1>>
  BY <1>0, <1>2, <1>4
<1>8. \A c \in Attempts : Flushed(c)' = Flushed(c)
  <2>1. Flushed(a)' = Flushed(a)
    <3>1. Flushed(a)' = k.written - Len(k.buf) /\ Flushed(a) = w - Len(b)
      BY <1>5 DEF Flushed
    <3>2. k.written = w + 1 /\ Len(k.buf) = Len(b) + 1 BY <1>4, <1>7
    <3>3. \A x, y \in Nat : (x + 1) - (y + 1) = x - y OBVIOUS
    <3>4. k.written - Len(k.buf) = w - Len(b)
      <4>1. (w + 1) - (Len(b) + 1) = w - Len(b) BY ONLY <3>3, <1>0
      <4> QED BY ONLY <3>2, <4>1
    <3> QED BY <3>1, <3>4
  <2> QED BY <2>1, <1>5 DEF Flushed
<1>9. BufferOK'
  <2> SUFFICES ASSUME NEW c \in Attempts
               PROVE  /\ Flushed(c)' \in Nat
                      /\ \A i \in DOMAIN stream'[c].buf : stream'[c].buf[i] = <<c, Flushed(c)' + i>>
    BY DEF BufferOK
  <2>1. Flushed(c)' \in Nat /\ Flushed(c)' = Flushed(c) BY <1>8 DEF OrderInv, BufferOK
  <2>2. CASE c # a BY <2>1, <2>2, <1>5 DEF OrderInv, BufferOK
  <2>3. CASE c = a
    <3>1. \A i \in 1..Len(b) : b[i] = <<a, Flushed(a) + i>> BY <1>0 DEF OrderInv, BufferOK
    <3>2. Flushed(a) = w - Len(b) BY DEF Flushed
    <3>3. Flushed(a) + (Len(b) + 1) = w + 1 BY <3>2, <1>0
    <3>4. ASSUME NEW i \in 1..(Len(b) + 1) PROVE k.buf[i] = <<a, Flushed(a) + i>>
      <4>1. CASE i = Len(b) + 1 BY <4>1, <3>3, <1>7
      <4>2. CASE i \in 1..Len(b) BY <4>2, <3>1, <1>7
      <4> QED BY <4>1, <4>2, <1>0
    <3> QED BY <2>1, <2>3, <3>4, <1>5, <1>7
  <2> QED BY <2>2, <2>3
<1>s. \A c \in Attempts : stream'[c].seq = stream[c].seq BY <1>4, <1>5
<1>10. PostsOK'
  <2>1. \A p \in posts : p.att \in Attempts BY DEF OrderInv, Types, Posts
  <2> QED BY <2>1, <1>1, <1>8, <1>s DEF OrderInv, PostsOK
<1>11. PostsInOrder' /\ LogsInOrder' BY <1>1 DEF OrderInv, PostsInOrder, LogsInOrder
<1>12. StoredBefore'
  <2>1. \A i \in DOMAIN logs : logs[i][1] \in Attempts BY LineFacts DEF OrderInv, Types
  <2> QED BY <2>1, <1>1, <1>8 DEF OrderInv, StoredBefore
<1> QED BY <1>6, <1>9, <1>10, <1>11, <1>12 DEF OrderInv

\* logstream.go, flush: the request it sends has the next number and the lines that
\* come after all that was sent before.
LEMMA FlushFacts ==
  ASSUME OrderInv, NEW a \in Attempts, NEW who \in {"ticker", "close"}, Flush(a, who)
  PROVE  LET new == [att |-> a, seq |-> stream[a].seq + 1, chunk |-> stream[a].buf, at |-> "sent"]
         IN  /\ stream' \in [Attempts -> Streams]
             /\ \A c \in Attempts : c # a => stream'[c] = stream[c]
             /\ stream'[a].written = stream[a].written /\ stream'[a].buf = <<>>
             /\ stream'[a].seq = stream[a].seq + 1 /\ stream'[a].sendMu = who
             /\ stream'[a].pc = stream[a].pc /\ stream'[a].host = stream[a].host
             /\ posts' = posts \cup {new} /\ new \in Posts
             /\ UNCHANGED <<owner, finished, logs, log_seq, accepted, faults>>
<1> DEFINE k == [stream[a] EXCEPT !.buf = <<>>, !.seq = stream[a].seq + 1, !.sendMu = who]
           new == [att |-> a, seq |-> stream[a].seq + 1, chunk |-> stream[a].buf, at |-> "sent"]
<1>0. /\ stream[a] \in Streams /\ stream \in [Attempts -> Streams]
      /\ stream[a].seq + 1 \in Nat /\ stream[a].buf \in Seq(Lines)
  BY StreamFacts DEF OrderInv, Types
<1>1. /\ stream' = [stream EXCEPT ![a] = k] /\ posts' = posts \cup {new}
      /\ UNCHANGED <<owner, finished, logs, log_seq, accepted, faults>>
  BY <1>0 DEF Flush, job, table, NoFault
<1>2. <<>> \in Seq(Lines) OBVIOUS
<1>3. /\ k \in Streams /\ k.written = stream[a].written /\ k.buf = <<>>
      /\ k.seq = stream[a].seq + 1 /\ k.sendMu = who
      /\ k.pc = stream[a].pc /\ k.host = stream[a].host
  BY <1>0, <1>2 DEF Streams
<1>4. new \in Posts BY <1>0 DEF Posts
<1> HIDE DEF k, new
<1> QED BY <1>0, <1>1, <1>3, <1>4 DEF new

\* logstream.go, flush: sending keeps order.
LEMMA FlushKeepsOrder ==
  ASSUME OrderInv, NEW a \in Attempts, NEW who \in {"ticker", "close"}, Flush(a, who)
  PROVE  OrderInv'
<1> DEFINE w == stream[a].written
           b == stream[a].buf
           new == [att |-> a, seq |-> stream[a].seq + 1, chunk |-> b, at |-> "sent"]
<1>0. /\ w \in Nat /\ b \in Seq(Lines) /\ Len(b) \in Nat /\ DOMAIN b = 1..Len(b)
      /\ stream[a].seq \in Nat
  BY StreamFacts DEF OrderInv
<1>1. /\ stream' \in [Attempts -> Streams]
      /\ \A c \in Attempts : c # a => stream'[c] = stream[c]
      /\ stream'[a].written = w /\ stream'[a].buf = <<>>
      /\ stream'[a].seq = stream[a].seq + 1
      /\ posts' = posts \cup {new} /\ new \in Posts
      /\ UNCHANGED <<owner, finished, logs, log_seq, accepted, faults>>
  BY FlushFacts
<1>2. new.att = a /\ new.seq = stream[a].seq + 1 /\ new.chunk = b OBVIOUS
<1>n. PICK p \in posts' : p = new BY <1>1
<1>m. /\ posts' = posts \cup {p} /\ p.att = a /\ p.seq = stream[a].seq + 1 /\ p.chunk = b
      /\ p \in Posts
  BY <1>n, <1>1, <1>2
<1> HIDE DEF new
<1>3. Types' BY <1>1, <1>m DEF OrderInv, Types
<1>4. /\ Flushed(a) \in Nat /\ Flushed(a) = w - Len(b) /\ Flushed(a)' = w
      /\ Flushed(a) <= Flushed(a)'
      /\ \A c \in Attempts : c # a => Flushed(c)' = Flushed(c)
  <2>1. Flushed(a) \in Nat /\ Flushed(a) = w - Len(b) BY DEF OrderInv, BufferOK, Flushed
  <2>2. Flushed(a)' = w
    <3>1. Flushed(a)' = w - Len(<<>>) BY <1>1 DEF Flushed
    <3> QED BY <3>1, <1>0
  <2> QED BY <2>1, <2>2, <1>0, <1>1 DEF Flushed
<1>5. \A c \in Attempts : Flushed(c) \in Nat /\ Flushed(c)' \in Nat /\ Flushed(c) <= Flushed(c)'
  BY <1>0, <1>4 DEF OrderInv, BufferOK
<1>6. BufferOK'
  BY <1>1, <1>4, <1>5 DEF OrderInv, BufferOK
<1>7. \A i \in DOMAIN b : b[i] = <<a, Flushed(a) + i>> /\ Flushed(a) + i \in Nat
                          /\ Flushed(a) + i <= w
  BY <1>0, <1>4 DEF OrderInv, BufferOK
<1>8. \A i \in DOMAIN b : b[i][1] = a /\ b[i][2] = Flushed(a) + i BY <1>7
<1>9. \A q \in posts : /\ q.att \in Attempts /\ q.seq \in Nat /\ q.seq <= stream[q.att].seq
                       /\ stream[q.att].seq \in Nat
                       /\ \A i \in DOMAIN q.chunk : q.chunk[i][1] = q.att /\ q.chunk[i][2] \in Nat
                                                     /\ q.chunk[i][2] <= Flushed(q.att)
  <2>1. \A q \in posts : q.att \in Attempts /\ q.seq \in Nat /\ q.chunk \in Seq(Lines)
    BY DEF OrderInv, Types, Posts
  <2>2. \A q \in posts : \A i \in DOMAIN q.chunk : q.chunk[i] \in Lines BY <2>1
  <2>3. \A q \in posts : stream[q.att].seq \in Nat BY <2>1, StreamFacts DEF OrderInv
  <2> QED BY <2>1, <2>2, <2>3, LineFacts DEF OrderInv, PostsOK
<1>10. PostsOK'
  <2> SUFFICES ASSUME NEW q \in posts'
               PROVE  /\ q.seq <= stream'[q.att].seq
                      /\ \A i \in DOMAIN q.chunk :
                           q.chunk[i][1] = q.att /\ q.chunk[i][2] <= Flushed(q.att)'
                      /\ \A i, k \in DOMAIN q.chunk : i < k => q.chunk[i][2] < q.chunk[k][2]
    BY DEF PostsOK
  <2>1. CASE q \in posts
    <3>1. q.seq <= stream'[q.att].seq BY <2>1, <1>0, <1>1, <1>9
    <3>2. \A i \in DOMAIN q.chunk : q.chunk[i][2] <= Flushed(q.att)' BY <2>1, <1>5, <1>9
    <3> QED BY <2>1, <3>1, <3>2 DEF OrderInv, PostsOK
  <2>2. CASE q = p
    <3>1. q.seq <= stream'[q.att].seq BY <2>2, <1>m, <1>0, <1>1
    <3>2. \A i, k \in DOMAIN b : i < k => b[i][2] < b[k][2] BY <1>0, <1>4, <1>8
    <3> QED BY <2>2, <3>1, <3>2, <1>m, <1>4, <1>7, <1>8
  <2> QED BY <2>1, <2>2, <1>m
<1>11. PostsInOrder'
  <2> SUFFICES ASSUME NEW q \in posts', NEW r \in posts', q.att = r.att, q.seq < r.seq,
                      NEW i \in DOMAIN q.chunk, NEW k \in DOMAIN r.chunk
               PROVE  q.chunk[i][2] < r.chunk[k][2]
    BY DEF PostsInOrder
  <2>1. CASE q \in posts /\ r \in posts BY <2>1 DEF OrderInv, PostsInOrder
  <2>2. CASE q = p /\ r \in posts BY <2>2, <1>m, <1>0, <1>9
  <2>3. CASE q = p /\ r = p BY <2>3, <1>m, <1>0
  <2>4. CASE q \in posts /\ r = p
    <3>1. q.chunk[i][2] \in Nat /\ q.chunk[i][2] <= Flushed(a) BY <2>4, <1>m, <1>9
    <3>2. r.chunk[k][2] = Flushed(a) + k /\ k \in Nat /\ k >= 1 BY <2>4, <1>m, <1>8, <1>0
    <3> QED BY <3>1, <3>2, <1>4
  <2> QED BY <2>1, <2>2, <2>3, <2>4, <1>m
<1>12. StoredBefore'
  <2>0. \A i \in DOMAIN logs : logs[i][1] \in Attempts /\ logs[i][2] \in Nat
    BY LineFacts DEF OrderInv, Types
  <2> SUFFICES ASSUME NEW i \in DOMAIN logs
               PROVE  /\ logs[i][2] <= Flushed(logs[i][1])'
                      /\ \A q \in posts' : q.att = logs[i][1] /\ q.seq > log_seq =>
                           \A k \in DOMAIN q.chunk : logs[i][2] < q.chunk[k][2]
    BY <1>1 DEF StoredBefore
  <2>1. logs[i][2] <= Flushed(logs[i][1]) BY DEF OrderInv, StoredBefore
  <2>l. logs' = logs BY <1>1
  <2>2. logs[i][2] <= Flushed(logs[i][1])' BY <2>0, <2>1, <2>l, <1>5 DEF Flushed
  <2>3. ASSUME p.att = logs[i][1], NEW k \in DOMAIN b PROVE logs[i][2] < b[k][2]
    <3>1. b[k][2] = Flushed(a) + k /\ k \in Nat /\ k >= 1 BY <1>8, <1>0
    <3> QED BY <3>1, <2>0, <2>1, <2>3, <1>m, <1>4
  <2> QED BY <2>2, <2>3, <1>m DEF OrderInv, StoredBefore
<1>13. LogsInOrder' BY <1>1 DEF OrderInv, LogsInOrder
<1> QED BY <1>3, <1>6, <1>10, <1>11, <1>12, <1>13 DEF OrderInv

\* Attempt a moves on and its buffer stays as it is; the others stay where they are.
Moved(a, pc, host, mu) ==
  /\ stream' \in [Attempts -> Streams] /\ SameBuffers
  /\ \A c \in Attempts : c # a => stream'[c] = stream[c]
  /\ stream'[a].pc = pc /\ stream'[a].host = host /\ stream'[a].sendMu = mu

\* agent.go, logstream.go: the ways in which the model moves an attempt.
LEMMA MoveFacts ==
  ASSUME Types, NEW a \in Attempts
  PROVE  /\ \A r \in Runners : stream' = [stream EXCEPT ![a].pc = "assigned", ![a].host = r]
              => Moved(a, "assigned", r, stream[a].sendMu)
         /\ \A pc \in {"running", "closing", "closed", "dead"} : stream' = [stream EXCEPT ![a].pc = pc]
              => Moved(a, pc, stream[a].host, stream[a].sendMu)
         /\ stream' = Returned(a)
              => Moved(a, IF stream[a].sendMu = "close" THEN "closed" ELSE stream[a].pc,
                       stream[a].host, "free")
<1>0. stream[a] \in Streams /\ stream \in [Attempts -> Streams] BY DEF Types
<1>1. ASSUME NEW k \in Streams, stream' = [stream EXCEPT ![a] = k],
             k.written = stream[a].written, k.buf = stream[a].buf, k.seq = stream[a].seq
      PROVE  Moved(a, k.pc, k.host, k.sendMu)
  <2>1. /\ stream' \in [Attempts -> Streams] /\ stream'[a] = k
        /\ \A c \in Attempts : c # a => stream'[c] = stream[c]
    BY <1>0, <1>1
  <2>2. SameBuffers BY <1>1, <2>1 DEF SameBuffers
  <2> QED BY <2>1, <2>2 DEF Moved
<1>2. ASSUME NEW r \in Runners, stream' = [stream EXCEPT ![a].pc = "assigned", ![a].host = r]
      PROVE  Moved(a, "assigned", r, stream[a].sendMu)
  <2> DEFINE k == [stream[a] EXCEPT !.pc = "assigned", !.host = r]
  <2>1. /\ k \in Streams /\ k.written = stream[a].written /\ k.buf = stream[a].buf
        /\ k.seq = stream[a].seq /\ k.pc = "assigned" /\ k.host = r /\ k.sendMu = stream[a].sendMu
    BY <1>0 DEF Streams
  <2>2. stream' = [stream EXCEPT ![a] = k] BY <1>0, <1>2
  <2> HIDE DEF k
  <2>3. Moved(a, k.pc, k.host, k.sendMu) BY <1>1, <2>1, <2>2
  <2> QED BY <2>1, <2>3
<1>3. ASSUME NEW pc \in {"running", "closing", "closed", "dead"},
             stream' = [stream EXCEPT ![a].pc = pc]
      PROVE  Moved(a, pc, stream[a].host, stream[a].sendMu)
  <2> DEFINE k == [stream[a] EXCEPT !.pc = pc]
  <2>1. /\ k \in Streams /\ k.written = stream[a].written /\ k.buf = stream[a].buf
        /\ k.seq = stream[a].seq /\ k.pc = pc /\ k.host = stream[a].host
        /\ k.sendMu = stream[a].sendMu
    BY <1>0 DEF Streams
  <2>2. stream' = [stream EXCEPT ![a] = k] BY <1>3
  <2> HIDE DEF k
  <2>3. Moved(a, k.pc, k.host, k.sendMu) BY <1>1, <2>1, <2>2
  <2> QED BY <2>1, <2>3
<1>4. ASSUME stream' = Returned(a)
      PROVE  Moved(a, IF stream[a].sendMu = "close" THEN "closed" ELSE stream[a].pc,
                   stream[a].host, "free")
  <2> DEFINE pc == IF stream[a].sendMu = "close" THEN "closed" ELSE stream[a].pc
             k == [stream[a] EXCEPT !.sendMu = "free", !.pc = pc]
  <2>1. /\ k \in Streams /\ k.written = stream[a].written /\ k.buf = stream[a].buf
        /\ k.seq = stream[a].seq /\ k.pc = pc /\ k.host = stream[a].host
        /\ k.sendMu = "free"
    BY <1>0 DEF Streams
  <2>2. stream' = [stream EXCEPT ![a] = k] BY <1>0, <1>4 DEF Returned
  <2> HIDE DEF k, pc
  <2>3. Moved(a, k.pc, k.host, k.sendMu) BY <1>1, <2>1, <2>2
  <2> QED BY <2>1, <2>3 DEF pc
<1> QED BY <1>2, <1>3, <1>4

\* shipLogs: an answer moves only the attempt that waits for it.
LEMMA AnswerFacts ==
  ASSUME Types, NEW p \in posts, Answer(p)
  PROVE  /\ stream' \in [Attempts -> Streams] /\ SameBuffers /\ posts' = posts \ {p}
         /\ p \in Posts /\ p.att \in Attempts
         /\ \/ ~Awaits(p) /\ UNCHANGED stream
            \/ Awaits(p) /\ Moved(p.att, IF stream[p.att].sendMu = "close" THEN "closed"
                                         ELSE stream[p.att].pc, stream[p.att].host, "free")
<1>1. p \in Posts /\ p.att \in Attempts BY DEF Types, Posts
<1>2. CASE ~Awaits(p) BY <1>1, <1>2 DEF Answer, Types, SameBuffers
<1>3. CASE Awaits(p)
  <2>1. stream' = Returned(p.att) /\ posts' = posts \ {p} BY <1>3 DEF Answer
  <2> QED BY <1>1, <1>3, <2>1, MoveFacts DEF Moved
<1> QED BY <1>2, <1>3

\* store.go, handler: what a step that is not Write, Flush or a new chunk leaves alone.
LEMMA QuietSteps ==
  ASSUME OrderInv, LogNext,
         ~\E a \in Attempts : Write(a) \/ \E who \in {"ticker", "close"} : Flush(a, who),
         ~\E p \in posts : AppendLogs(p) /\ IsNew(p)
  PROVE  Types' /\ SameBuffers /\ SamePosts /\ UNCHANGED <<logs, log_seq>>
<1>t. Types BY DEF OrderInv
<1>i. UNCHANGED stream => stream' \in [Attempts -> Streams] /\ SameBuffers
  BY <1>t DEF Types, SameBuffers
<1>p. posts' \subseteq posts => SamePosts /\ posts' \subseteq Posts
  BY <1>t DEF Types, SamePosts
<1>f. ASSUME NoFault \/ \E kind : Fault(kind) PROVE faults' \in Nat
  BY <1>t, <1>f DEF NoFault, Fault, Types
<1>1. ASSUME NEW a \in Attempts,
             \/ Begin(a) \/ CloseBegins(a) \/ GiveUp(a) \/ GiveUpEarly(a) \/ AgentDies(a)
             \/ CloseFlush(a) \/ \E r \in Runners : Assign(a, r)
      PROVE  Types' /\ SameBuffers /\ SamePosts /\ UNCHANGED <<logs, log_seq>>
  <2>1. stream' \in [Attempts -> Streams] /\ SameBuffers
    <3>1. CASE \E r \in Runners : Assign(a, r)
      BY <1>t, <3>1, MoveFacts DEF Assign, Moved
    <3>2. CASE Begin(a) \/ CloseBegins(a) \/ AgentDies(a)
      BY <1>t, <3>2, MoveFacts DEF Begin, CloseBegins, AgentDies, Moved
    <3>3. CASE GiveUp(a) \/ GiveUpEarly(a)
      BY <1>t, <3>3, MoveFacts DEF GiveUp, GiveUpEarly, Moved
    <3>4. CASE CloseFlush(a)
      BY <1>t, <3>4, MoveFacts DEF CloseFlush, Moved
    <3> QED BY <1>1, <3>1, <3>2, <3>3, <3>4
  <2>2. UNCHANGED <<posts, logs, log_seq>> /\ owner' \in Runners \cup {NULL} /\ faults' \in Nat
    BY <1>1, <1>t, <1>f DEF Begin, CloseBegins, GiveUp, GiveUpEarly, AgentDies, CloseFlush, Assign,
                            job, table, Types
  <2> QED BY <2>1, <2>2, <1>p, <1>t DEF Types
<1>2. ASSUME NEW p \in posts, Refuse(p) \/ AppendLogs(p)
      PROVE  Types' /\ SameBuffers /\ SamePosts /\ UNCHANGED <<logs, log_seq>>
  <2>1. /\ Answer(p) /\ UNCHANGED <<owner, finished, logs, log_seq>> /\ faults' \in Nat
    BY <1>2, <1>f DEF Refuse, AppendLogs, job, table
  <2>2. stream' \in [Attempts -> Streams] /\ SameBuffers /\ posts' = posts \ {p}
    BY <1>t, <2>1, AnswerFacts
  <2> QED BY <2>1, <2>2, <1>p, <1>t DEF Types
<1>3. ASSUME NEW p \in posts, Admit(p)
      PROVE  Types' /\ SameBuffers /\ SamePosts /\ UNCHANGED <<logs, log_seq>>
  <2> DEFINE q == [p EXCEPT !.at = "owned"]
  <2>1. p \in Posts BY <1>t DEF Types
  <2>2. q \in Posts /\ q.att = p.att /\ q.seq = p.seq /\ q.chunk = p.chunk BY <2>1 DEF Posts
  <2>3. /\ posts' = (posts \ {p}) \cup {q} /\ UNCHANGED <<owner, stream, logs, log_seq>>
        /\ faults' \in Nat
    BY <1>3, <1>f DEF Admit, job, table
  <2> HIDE DEF q
  <2>4. SamePosts /\ posts' \subseteq Posts BY <2>2, <2>3, <1>t DEF SamePosts, Types
  <2> QED BY <2>3, <2>4, <1>i, <1>t DEF Types
<1>4. CASE Requeue \/ Finish \/ \E p \in posts : PostLost(p)
  <2>1. /\ UNCHANGED <<stream, logs, log_seq>> /\ posts' \subseteq posts
        /\ owner' \in Runners \cup {NULL} /\ faults' \in Nat
    BY <1>4, <1>t, <1>f DEF Requeue, Finish, PostLost, job, table, Types
  <2> QED BY <2>1, <1>i, <1>p, <1>t DEF Types
<1> QED BY <1>1, <1>2, <1>3, <1>4 DEF LogNext, RunnerStep, Tick, Serve

\* logstream.go, store.go: order is kept by every step.
LEMMA StepKeepsOrder ==
  ASSUME OrderInv, LogNext
  PROVE  OrderInv'
<1>1. ASSUME NEW p \in posts, AppendLogs(p), IsNew(p) PROVE OrderInv'
  <2>1. /\ Answer(p) /\ UNCHANGED <<owner, faults>> /\ p.seq > log_seq
        /\ logs' = logs \o p.chunk /\ log_seq' = p.seq
    BY <1>1 DEF AppendLogs, IsNew, job, NoFault
  <2>2. /\ stream' \in [Attempts -> Streams] /\ SameBuffers /\ posts' = posts \ {p} /\ p \in Posts
    BY <2>1, AnswerFacts DEF OrderInv
  <2>3. logs' \in Seq(Lines) /\ log_seq' \in Nat
    BY <2>1, <2>2, ConcatProperties DEF OrderInv, Types, Posts
  <2>4. Types' BY <2>1, <2>2, <2>3 DEF OrderInv, Types
  <2> QED BY <2>1, <2>2, <2>4, AppendKeepsOrder
<1> QED BY <1>1, QuietSteps, QuietKeepsOrder, WriteKeepsOrder, FlushKeepsOrder

\* logstream.go, store.go: the invariant holds at all times.
LEMMA OrderInvariance == LogSpec => []OrderInv
<1>1. LogInit => OrderInv
  <2> SUFFICES ASSUME LogInit PROVE OrderInv OBVIOUS
  <2> DEFINE k == [pc |-> "none", host |-> NULL, written |-> 0, buf |-> <<>>, seq |-> 0,
                   sendMu |-> "free"]
  <2>1. k \in Streams /\ k.written = 0 /\ k.buf = <<>> BY LogAssumption DEF Streams
  <2>2. stream = [a \in Attempts |-> k] /\ posts = {} /\ logs = <<>> BY DEF LogInit
  <2> HIDE DEF k
  <2>3. stream \in [Attempts -> Streams] /\ \A a \in Attempts : stream[a] = k BY <2>1, <2>2
  <2>4. Types BY <2>2, <2>3 DEF Types, LogInit
  <2>5. BufferOK
    <3>1. Len(<<>>) = 0 /\ DOMAIN <<>> = {} OBVIOUS
    <3> QED BY <2>1, <2>3, <3>1 DEF BufferOK, Flushed
  <2> QED BY <2>2, <2>4, <2>5 DEF OrderInv, PostsOK, PostsInOrder, StoredBefore, LogsInOrder
<1>2. OrderInv /\ [LogNext]_logVars => OrderInv'
  <2>1. OrderInv /\ UNCHANGED logVars => OrderInv'
    BY DEF logVars, job, table, OrderInv, Types, BufferOK, Flushed, PostsOK, PostsInOrder, StoredBefore,
           LogsInOrder
  <2> QED BY <2>1, StepKeepsOrder
<1> QED BY <1>1, <1>2, PTL DEF LogSpec

\* logstream.go, sendMu; store.go, AppendLogs: the lines of an attempt are stored in
\* the order they were written and none twice, for any number of lines, attempts and
\* requests that overtake each other.
THEOREM LogsInOrderAlways == LogSpec => []LogsInOrder
<1>1. OrderInv => LogsInOrder BY DEF OrderInv
<1> QED BY <1>1, OrderInvariance, PTL

-----------------------------------------------------------------------------
(* Nothing is lost while nothing goes wrong                                    *)

\* An attempt that has not begun has sent nothing; one that closes has emptied its
\* buffer; no request is larger than a build's output.
CloseOK ==
  /\ \A a \in Attempts :
       /\ stream[a].pc = "none" => /\ stream[a].written = 0 /\ stream[a].buf = <<>>
                                   /\ stream[a].seq = 0 /\ stream[a].sendMu = "free"
       /\ stream[a].sendMu = "close" => stream[a].pc \in {"closing", "dead"} /\ stream[a].buf = <<>>
       /\ stream[a].pc = "closed" => stream[a].sendMu = "free" /\ stream[a].buf = <<>>
  /\ \A p \in posts : Len(p.chunk) <= MaxLines

\* The lines that attempt a took out are in the table or among the lines given.
SentIsIn(a, lines) == \A n \in 1..Flushed(a) : <<a, n>> \in ToSet(logs) \cup lines

\* The only attempt so far, which has the job, and the one request it waits for.
Attended(a) ==
  /\ \A b \in Attempts : stream[b].pc # "none" => b = a
  /\ stream[a].pc # "dead" /\ owner = stream[a].host /\ owner # NULL
  /\ stream[a].sendMu = "free" => posts = {} /\ log_seq = stream[a].seq /\ SentIsIn(a, {})
  /\ stream[a].sendMu # "free" =>
       \E p \in posts : /\ posts = {p} /\ p.att = a /\ p.seq = stream[a].seq
                        /\ stream[a].seq = log_seq + 1 /\ SentIsIn(a, ToSet(p.chunk))

KeptInv ==
  /\ CloseOK
  /\ faults = 0 => \/ posts = {} /\ log_seq = 0 /\ \A a \in Attempts : stream[a].pc = "none"
                   \/ \E a \in Attempts : stream[a].pc # "none" /\ Attended(a)

\* logstream.go: a step in which no line is taken out.
LEMMA SameSent ==
  ASSUME SameBuffers, NEW a \in Attempts, NEW lines, ToSet(logs) \subseteq ToSet(logs)'
  PROVE  SentIsIn(a, lines) => SentIsIn(a, lines)'
<1>1. Flushed(a)' = Flushed(a) BY DEF SameBuffers, Flushed
<1> QED BY <1>1 DEF SentIsIn

\* logstream.go, Close: every step of a streamer keeps what closing rests on.
LEMMA StepCloses ==
  ASSUME OrderInv, CloseOK, LogNext
  PROVE  CloseOK'
<1>t. Types BY DEF OrderInv
<1>1. ASSUME NEW a \in Attempts, NEW pc, NEW host, NEW mu, Moved(a, pc, host, mu),
             \A p \in posts' : Len(p.chunk) <= MaxLines,
             pc # "none", mu = "close" => pc \in {"closing", "dead"} /\ stream[a].buf = <<>>,
             pc = "closed" => mu = "free" /\ stream[a].buf = <<>>
      PROVE  CloseOK'
  BY <1>1 DEF CloseOK, Moved, SameBuffers
<1>2. ASSUME UNCHANGED stream, \A p \in posts' : Len(p.chunk) <= MaxLines PROVE CloseOK'
  BY <1>2 DEF CloseOK
<1>3. posts' \subseteq posts => \A p \in posts' : Len(p.chunk) <= MaxLines
  BY DEF CloseOK
<1>4. ASSUME NEW a \in Attempts, NEW who \in {"ticker", "close"}, Flush(a, who),
             stream[a].pc \in {"running", "closing"}, who = "close" => stream[a].pc = "closing"
      PROVE  CloseOK'
  <2> DEFINE new == [att |-> a, seq |-> stream[a].seq + 1, chunk |-> stream[a].buf, at |-> "sent"]
  <2>1. /\ \A c \in Attempts : c # a => stream'[c] = stream[c]
        /\ stream'[a].buf = <<>> /\ stream'[a].sendMu = who /\ stream'[a].pc = stream[a].pc
        /\ posts' = posts \cup {new}
    BY <1>4, FlushFacts
  <2>2. new.chunk = stream[a].buf OBVIOUS
  <2> HIDE DEF new
  <2>3. Len(stream[a].buf) <= MaxLines
    <3>1. stream[a].written \in 0..MaxLines BY <1>t, StreamFacts DEF Streams
    <3>2. Len(stream[a].buf) \in Nat BY <1>t, StreamFacts
    <3>3. stream[a].written - Len(stream[a].buf) \in Nat BY DEF OrderInv, BufferOK, Flushed
    <3> QED BY <3>1, <3>2, <3>3, LogAssumption
  <2> QED BY <1>4, <2>1, <2>2, <2>3 DEF CloseOK
<1>5. ASSUME NEW a \in Attempts,
             \/ Begin(a) \/ Write(a) \/ CloseBegins(a) \/ GiveUp(a) \/ GiveUpEarly(a)
             \/ AgentDies(a) \/ RunnerStep(a) \/ \E r \in Runners : Assign(a, r)
      PROVE  CloseOK'
  <2>0. stream[a] \in Streams BY <1>t, StreamFacts
  <2>1. ASSUME NEW r \in Runners, Assign(a, r) PROVE CloseOK'
    <3>1. Moved(a, "assigned", r, stream[a].sendMu) /\ posts' \subseteq posts /\ stream[a].pc = "none"
      BY <1>t, <2>1, MoveFacts DEF Assign
    <3>2. stream[a].sendMu = "free" BY <3>1 DEF CloseOK
    <3> QED BY <3>1, <3>2, <1>1, <1>3
  <2>2. CASE Begin(a) \/ CloseBegins(a)
    <3>1. PICK pc \in {"running", "closing"} :
            Moved(a, pc, stream[a].host, stream[a].sendMu)
      BY <1>t, <2>2, MoveFacts DEF Begin, CloseBegins
    <3>2. posts' \subseteq posts /\ stream[a].pc \in {"assigned", "running"}
      BY <2>2 DEF Begin, CloseBegins
    <3>3. stream[a].sendMu # "close" BY <3>2 DEF CloseOK
    <3> QED BY <3>1, <3>2, <3>3, <1>1, <1>3
  <2>3. CASE AgentDies(a)
    <3>1. Moved(a, "dead", stream[a].host, stream[a].sendMu) /\ posts' \subseteq posts
      BY <1>t, <2>3, MoveFacts DEF AgentDies
    <3>2. stream[a].sendMu = "close" => stream[a].buf = <<>> BY DEF CloseOK
    <3> QED BY <3>1, <3>2, <1>1, <1>3
  <2>4. CASE GiveUp(a) \/ GiveUpEarly(a)
    <3>1. /\ Moved(a, IF stream[a].sendMu = "close" THEN "closed" ELSE stream[a].pc,
                    stream[a].host, "free")
          /\ posts' \subseteq posts /\ stream[a].sendMu # "free"
      BY <1>t, <2>4, MoveFacts DEF GiveUp, GiveUpEarly
    <3>2. /\ stream[a].pc # "none" /\ stream[a].pc # "closed"
          /\ (stream[a].sendMu = "close" => stream[a].buf = <<>>)
      BY <3>1 DEF CloseOK
    <3> QED BY <3>1, <3>2, <1>1, <1>3
  <2>5. CASE Write(a)
    <3>1. /\ \A c \in Attempts : c # a => stream'[c] = stream[c]
          /\ stream'[a].sendMu = stream[a].sendMu /\ stream'[a].pc = stream[a].pc
          /\ UNCHANGED posts /\ stream[a].pc = "running"
      <4>1. stream \in [Attempts -> Streams] BY <1>t DEF Types
      <4> QED BY <2>5, <2>0, <4>1 DEF Write, Streams
    <3> QED BY <3>1, <1>3 DEF CloseOK
  <2>6. CASE Tick(a)
    BY <2>6, <1>4 DEF Tick
  <2>7. CASE CloseFlush(a)
    <3>1. CASE Flush(a, "close") BY <2>7, <3>1, <1>4 DEF CloseFlush
    <3>2. CASE /\ stream[a].sendMu = "free" /\ stream[a].buf = <<>>
               /\ stream' = [stream EXCEPT ![a].pc = "closed"]
               /\ UNCHANGED posts
      <4>1. Moved(a, "closed", stream[a].host, stream[a].sendMu) BY <1>t, <3>2, MoveFacts
      <4> QED BY <3>2, <4>1, <1>1, <1>3
    <3> QED BY <2>7, <3>1, <3>2 DEF CloseFlush
  <2> QED BY <1>5, <2>1, <2>2, <2>3, <2>4, <2>5, <2>6, <2>7 DEF RunnerStep
<1>6. ASSUME NEW p \in posts, Refuse(p) \/ AppendLogs(p) PROVE CloseOK'
  <2>1. Answer(p) BY <1>6 DEF Refuse, AppendLogs
  <2>2. posts' \subseteq posts /\ p.att \in Attempts BY <1>t, <2>1, AnswerFacts
  <2>3. CASE UNCHANGED stream BY <2>2, <2>3, <1>2, <1>3
  <2>4. CASE Awaits(p) /\ Moved(p.att, IF stream[p.att].sendMu = "close" THEN "closed"
                                       ELSE stream[p.att].pc, stream[p.att].host, "free")
    <3>1. /\ stream[p.att].pc # "none" /\ stream[p.att].pc # "closed"
          /\ (stream[p.att].sendMu = "close" => stream[p.att].buf = <<>>)
      BY <2>2, <2>4 DEF CloseOK, Awaits
    <3> QED BY <2>2, <2>4, <3>1, <1>1, <1>3
  <2> QED BY <1>t, <2>1, <2>3, <2>4, AnswerFacts
<1>7. ASSUME NEW p \in posts, Admit(p) PROVE CloseOK'
  <2> DEFINE q == [p EXCEPT !.at = "owned"]
  <2>1. q.chunk = p.chunk BY <1>t DEF Types, Posts
  <2>2. posts' = (posts \ {p}) \cup {q} /\ UNCHANGED stream BY <1>7 DEF Admit
  <2> HIDE DEF q
  <2> QED BY <2>1, <2>2, <1>2 DEF CloseOK
<1>8. CASE Requeue \/ Finish \/ \E p \in posts : PostLost(p)
  BY <1>8, <1>2, <1>3 DEF Requeue, Finish, PostLost
<1> QED BY <1>5, <1>6, <1>7, <1>8 DEF LogNext, Serve

\* store.go, AppendLogs: what is stored stays stored, and a new chunk is added.
LEMMA StoredLines ==
  ASSUME NEW s \in Seq(Lines), NEW t \in Seq(Lines)
  PROVE  ToSet(s \o t) = ToSet(s) \cup ToSet(t)
<1>1. /\ Len(s) \in Nat /\ Len(t) \in Nat /\ DOMAIN s = 1..Len(s) /\ DOMAIN t = 1..Len(t)
      /\ DOMAIN (s \o t) = 1..(Len(s) + Len(t))
      /\ \A i \in 1..Len(s) : (s \o t)[i] = s[i]
      /\ \A i \in 1..(Len(s) + Len(t)) : i > Len(s) => (s \o t)[i] = t[i - Len(s)]
  OBVIOUS
<1>2. \A i \in 1..Len(t) : /\ i + Len(s) \in 1..(Len(s) + Len(t)) /\ i + Len(s) > Len(s)
                           /\ (i + Len(s)) - Len(s) = i
  BY <1>1
<1>3. \A i \in 1..(Len(s) + Len(t)) : i \in 1..Len(s) \/ (i > Len(s) /\ i - Len(s) \in 1..Len(t))
  BY <1>1
<1>4. ToSet(s \o t) \subseteq ToSet(s) \cup ToSet(t)
  BY <1>1, <1>3 DEF ToSet
<1>5. ToSet(s) \subseteq ToSet(s \o t)
  <2>1. \A i \in 1..Len(s) : i \in 1..(Len(s) + Len(t)) BY <1>1
  <2> QED BY <2>1, <1>1 DEF ToSet
<1>6. ToSet(t) \subseteq ToSet(s \o t)
  BY <1>1, <1>2 DEF ToSet
<1> QED BY <1>4, <1>5, <1>6

\* logstream.go, jobs.go, store.go: while nothing has gone wrong, and a request holds
\* all that a build can write, every step leaves each line that was taken out of a
\* buffer in the table or in the one request under way.
LEMMA StepKept ==
  ASSUME MaxLines <= ChunkCap, OrderInv, KeptInv, LogNext, faults' = 0
  PROVE  KeptInv'
<1>t. Types /\ faults \in Nat BY DEF OrderInv, Types
<1>c. CloseOK /\ CloseOK' BY StepCloses DEF KeptInv
<1>n. \A kind : ~Fault(kind) BY <1>t DEF Fault
<1>f. faults = 0
  BY <1>t, <1>n DEF LogNext, RunnerStep, Serve, Tick, CloseFlush, GiveUp, Begin, Write, CloseBegins, GiveUpEarly,
         AgentDies, Assign, Refuse, Admit, AppendLogs, Requeue, Finish, PostLost, Flush, NoFault
<1>1. CASE posts = {} /\ log_seq = 0 /\ \A a \in Attempts : stream[a].pc = "none"
  <2>0. \A a \in Attempts : stream[a].sendMu = "free" BY <1>1, <1>c DEF CloseOK
  <2>1. ASSUME NEW a \in Attempts, NEW r \in Runners, Assign(a, r) PROVE KeptInv'
    <3>1. Moved(a, "assigned", r, stream[a].sendMu) BY <1>t, <2>1, MoveFacts DEF Assign
    <3>2. owner' = r /\ UNCHANGED <<posts, logs, log_seq>> /\ r # NULL
      BY <2>1, LogAssumption DEF Assign, table
    <3>3. stream'[a].pc # "none" /\ stream'[a].sendMu = "free" /\ stream'[a].host = r
      BY <2>0, <3>1 DEF Moved
    <3>4. stream'[a].seq = 0 /\ Flushed(a)' = 0
      <4>1. stream[a].seq = 0 /\ stream[a].written = 0 /\ stream[a].buf = <<>>
        BY <1>1, <1>c DEF CloseOK
      <4>2. Len(<<>>) = 0 OBVIOUS
      <4> QED BY <4>1, <4>2, <3>1 DEF Moved, SameBuffers, Flushed
    <3>5. SentIsIn(a, {})' BY <3>4 DEF SentIsIn
    <3>6. Attended(a)'
      BY <1>1, <3>1, <3>2, <3>3, <3>4, <3>5 DEF Attended, Moved
    <3> QED BY <3>3, <3>6, <1>c DEF KeptInv
  <2>2. CASE Finish
    BY <2>2, <1>1, <1>c DEF Finish, table, KeptInv
  <2> QED BY <2>0, <2>1, <2>2, <1>1, <1>n
          DEF LogNext, RunnerStep, Serve, Tick, CloseFlush, GiveUp, Begin, Write, CloseBegins,
              GiveUpEarly, AgentDies, Requeue, Finish, PostLost
<1>2. ASSUME NEW a \in Attempts, stream[a].pc # "none", Attended(a) PROVE KeptInv'
  <2>a. /\ \A b \in Attempts : stream[b].pc # "none" => b = a
        /\ stream[a].pc # "dead" /\ owner = stream[a].host /\ owner # NULL
        /\ stream[a].sendMu = "free" => posts = {} /\ log_seq = stream[a].seq /\ SentIsIn(a, {})
    BY <1>2 DEF Attended
  <2>p. ASSUME NEW p \in posts
        PROVE  /\ stream[a].sendMu # "free" /\ posts = {p} /\ p.att = a /\ p.seq = stream[a].seq
               /\ stream[a].seq = log_seq + 1 /\ SentIsIn(a, ToSet(p.chunk))
    BY <1>2 DEF Attended
  <2>q. stream[a].sendMu # "free" => \E p \in posts : TRUE BY <1>2 DEF Attended
  <2>b. \A b \in Attempts : stream[b].pc = "none" => stream[b].sendMu = "free"
    BY <1>c DEF CloseOK
  <2>1. ASSUME NEW pc, Moved(a, pc, stream[a].host, stream[a].sendMu), pc \notin {"none", "dead"},
               UNCHANGED <<owner, posts, logs, log_seq>>
        PROVE  KeptInv'
    <3>1. \A lines : SentIsIn(a, lines) => SentIsIn(a, lines)' BY <2>1, SameSent DEF Moved
    <3>2. /\ stream'[a].seq = stream[a].seq /\ stream'[a].sendMu = stream[a].sendMu
          /\ stream'[a].host = stream[a].host /\ stream'[a].pc = pc
          /\ \A b \in Attempts : b # a => stream'[b] = stream[b]
      BY <2>1 DEF Moved, SameBuffers
    <3>3. stream[a].sendMu # "free" =>
            \E p \in posts : /\ posts = {p} /\ p.att = a /\ p.seq = stream[a].seq
                             /\ stream[a].seq = log_seq + 1 /\ SentIsIn(a, ToSet(p.chunk))'
      BY <2>p, <2>q, <3>1
    <3>4. Attended(a)' BY <2>1, <2>a, <3>1, <3>2, <3>3 DEF Attended
    <3> QED BY <2>1, <3>2, <3>4, <1>c DEF KeptInv
  <2>2. CASE Begin(a) \/ CloseBegins(a)
    <3>1. PICK pc \in {"running", "closing"} : Moved(a, pc, stream[a].host, stream[a].sendMu)
      BY <1>t, <2>2, MoveFacts DEF Begin, CloseBegins
    <3> QED BY <2>1, <2>2, <3>1 DEF Begin, CloseBegins, job, table
  <2>3. CASE Finish
    <3>1. UNCHANGED <<owner, stream, posts, logs, log_seq>> BY <2>3 DEF Finish, table
    <3>2. Attended(a)' BY <1>2, <3>1 DEF Attended, SentIsIn, Flushed
    <3> QED BY <1>2, <3>1, <3>2, <1>c DEF KeptInv
  <2>4. CASE Write(a)
    <3>0. stream[a] \in Streams /\ stream \in [Attempts -> Streams] BY <1>t DEF Types
    <3>1. /\ \A b \in Attempts : b # a => stream'[b] = stream[b]
          /\ stream'[a].seq = stream[a].seq /\ stream'[a].sendMu = stream[a].sendMu
          /\ stream'[a].host = stream[a].host /\ stream'[a].pc = stream[a].pc
          /\ stream'[a].written = stream[a].written + 1
          /\ stream'[a].buf = Append(stream[a].buf, <<a, stream[a].written + 1>>)
          /\ UNCHANGED <<owner, posts, logs, log_seq>>
      BY <2>4, <3>0 DEF Write, Streams, job, table
    <3>2. Flushed(a)' = Flushed(a)
      <4>1. stream[a].buf \in Seq(Lines) /\ Len(stream[a].buf) \in Nat /\ stream[a].written \in Nat
        BY <1>t, StreamFacts
      <4>2. Len(Append(stream[a].buf, <<a, stream[a].written + 1>>)) = Len(stream[a].buf) + 1
        BY <4>1
      <4>3. Flushed(a)' = (stream[a].written + 1) - (Len(stream[a].buf) + 1)
        BY <3>1, <4>2 DEF Flushed
      <4>4. \A x, y \in Nat : (x + 1) - (y + 1) = x - y OBVIOUS
      <4>5. Flushed(a) = stream[a].written - Len(stream[a].buf) BY DEF Flushed
      <4> QED BY ONLY <4>1, <4>3, <4>4, <4>5
    <3>3. \A lines : SentIsIn(a, lines) => SentIsIn(a, lines)' BY <3>1, <3>2 DEF SentIsIn
    <3>4. stream[a].sendMu # "free" =>
            \E p \in posts : /\ posts = {p} /\ p.att = a /\ p.seq = stream[a].seq
                             /\ stream[a].seq = log_seq + 1 /\ SentIsIn(a, ToSet(p.chunk))'
      BY <2>p, <2>q, <3>3
    <3>5. Attended(a)' BY <2>a, <3>1, <3>3, <3>4 DEF Attended
    <3> QED BY <1>2, <3>1, <3>5, <1>c DEF KeptInv
  <2>5. ASSUME NEW who \in {"ticker", "close"}, Flush(a, who) PROVE KeptInv'
    <3> DEFINE b == stream[a].buf
               new == [att |-> a, seq |-> stream[a].seq + 1, chunk |-> b, at |-> "sent"]
    <3>1. /\ \A c \in Attempts : c # a => stream'[c] = stream[c]
          /\ stream'[a].written = stream[a].written /\ stream'[a].buf = <<>>
          /\ stream'[a].seq = stream[a].seq + 1 /\ stream'[a].sendMu = who
          /\ stream'[a].pc = stream[a].pc /\ stream'[a].host = stream[a].host
          /\ posts' = posts \cup {new} /\ UNCHANGED <<owner, logs, log_seq>>
      BY <2>5, FlushFacts
    <3>2. new.att = a /\ new.seq = stream[a].seq + 1 /\ new.chunk = b OBVIOUS
    <3>3. stream[a].sendMu = "free" BY <2>5 DEF Flush
    <3>n. PICK p \in posts' : p = new BY <3>1
    <3>m. /\ posts' = {p} /\ p.att = a /\ p.seq = stream[a].seq + 1 /\ p.chunk = b
      BY <3>1, <3>2, <3>3, <3>n, <2>a
    <3> HIDE DEF new
    <3>4. /\ b \in Seq(Lines) /\ Len(b) \in Nat /\ DOMAIN b = 1..Len(b)
          /\ stream[a].written \in Nat /\ Flushed(a) \in Nat
          /\ Flushed(a) = stream[a].written - Len(b)
          /\ \A i \in 1..Len(b) : b[i] = <<a, Flushed(a) + i>>
      BY <1>t, StreamFacts DEF OrderInv, BufferOK, Flushed
    <3>5. Flushed(a)' = stream[a].written
      <4>1. Flushed(a)' = stream[a].written - Len(<<>>) BY <3>1 DEF Flushed
      <4>2. Len(<<>>) = 0 OBVIOUS
      <4> QED BY <4>1, <4>2, <3>4
    <3>6. ASSUME NEW n \in 1..stream[a].written PROVE <<a, n>> \in ToSet(logs) \cup ToSet(b)
      <4>1. CASE n <= Flushed(a)
        <5>1. n \in 1..Flushed(a) BY <4>1, <3>4
        <5> QED BY <5>1, <2>a, <3>3 DEF SentIsIn
      <4>2. CASE ~(n <= Flushed(a))
        <5>1. PICK i \in 1..Len(b) : n = Flushed(a) + i
          <6>1. n - Flushed(a) \in 1..Len(b) /\ n = Flushed(a) + (n - Flushed(a))
            <7>1. PICK f \in Nat : f = Flushed(a) BY <3>4
            <7>2. PICK w \in Nat : w = stream[a].written BY <3>4
            <7>3. PICK m \in Nat : m = Len(b) BY <3>4
            <7>4. f = w - m /\ n \in 1..w /\ ~(n <= f) BY <4>2, <3>4, <7>1, <7>2, <7>3
            <7>5. n - f \in 1..m /\ n = f + (n - f) BY ONLY <7>4, f \in Nat, w \in Nat, m \in Nat
            <7> QED BY <7>1, <7>3, <7>5
          <6> QED BY <6>1
        <5>2. b[i] = <<a, n>> BY <5>1, <3>4
        <5> QED BY <5>2, <3>4 DEF ToSet
      <4> QED BY <4>1, <4>2
    <3>7. SentIsIn(a, ToSet(p.chunk))' BY <3>1, <3>5, <3>6, <3>m DEF SentIsIn
    <3>8. Attended(a)'
      <4>1. stream[a].seq + 1 = log_seq + 1 BY <2>a, <3>3
      <4>2. p \in posts' /\ posts' = {p} /\ p.att = a /\ p.seq = stream'[a].seq
            /\ stream'[a].seq = log_seq' + 1 /\ SentIsIn(a, ToSet(p.chunk))'
        BY <3>1, <3>m, <3>7, <4>1
      <4>3. stream'[a].sendMu # "free" BY <3>1
      <4> QED BY <2>a, <3>1, <4>2, <4>3 DEF Attended
    <3> QED BY <1>2, <3>1, <3>8, <1>c DEF KeptInv
  <2>6. CASE RunnerStep(a)
    <3>1. CASE Tick(a) BY <3>1, <2>5 DEF Tick
    <3>2. CASE GiveUp(a)
      <4>1. stream[a].sendMu # "free" /\ Lost(a) BY <3>2 DEF GiveUp
      <4> QED BY <4>1, <2>p, <2>q DEF Lost
    <3>3. CASE CloseFlush(a)
      <4>1. CASE Flush(a, "close") BY <4>1, <2>5
      <4>2. CASE /\ stream' = [stream EXCEPT ![a].pc = "closed"]
                 /\ UNCHANGED <<job, posts, table>>
        <5>1. Moved(a, "closed", stream[a].host, stream[a].sendMu) BY <1>t, <4>2, MoveFacts
        <5> QED BY <4>2, <5>1, <2>1 DEF job, table
      <4> QED BY <3>3, <4>1, <4>2 DEF CloseFlush
    <3> QED BY <2>6, <3>1, <3>2, <3>3 DEF RunnerStep
  <2>7. ASSUME NEW p \in posts, Refuse(p) PROVE FALSE
    <3>1. p.att = a /\ Len(p.chunk) <= MaxLines BY <2>p, <1>c DEF CloseOK
    <3>2. Len(p.chunk) \in Nat BY <1>t DEF Types, Posts
    <3>3. ~(Len(p.chunk) > ChunkCap) BY <3>1, <3>2, LogAssumption
    <3> QED BY <2>7, <3>1, <3>3, <2>a DEF Refuse
  <2>8. ASSUME NEW p \in posts, Admit(p) PROVE KeptInv'
    <3>0. PICK q : q = [p EXCEPT !.at = "owned"] OBVIOUS
    <3>1. q.att = p.att /\ q.seq = p.seq /\ q.chunk = p.chunk
      BY <3>0, <1>t DEF Types, Posts
    <3>2. posts' = {q} /\ UNCHANGED <<owner, stream, logs, log_seq>>
      BY <2>8, <3>0, <2>p DEF Admit, job, table
    <3>3. SentIsIn(a, ToSet(q.chunk))'
      BY <2>p, <3>1, <3>2 DEF SentIsIn, Flushed
    <3>4. Attended(a)' BY <2>a, <2>p, <3>1, <3>2, <3>3 DEF Attended
    <3> QED BY <1>2, <3>2, <3>4, <1>c DEF KeptInv
  <2>9. ASSUME NEW p \in posts, AppendLogs(p) PROVE KeptInv'
    <3>0. /\ stream[a].sendMu # "free" /\ posts = {p} /\ p.att = a /\ p.seq = stream[a].seq
          /\ stream[a].seq = log_seq + 1 /\ SentIsIn(a, ToSet(p.chunk))
          /\ log_seq \in Nat /\ logs \in Seq(Lines) /\ p.chunk \in Seq(Lines)
      BY <2>p, <1>t DEF Types, Posts
    <3>1. Awaits(p) /\ IsNew(p) BY <3>0, <2>a DEF Awaits, IsNew
    <3>2. /\ Answer(p) /\ UNCHANGED owner /\ logs' = logs \o p.chunk /\ log_seq' = p.seq
      BY <2>9, <3>1 DEF AppendLogs, job
    <3>3. /\ posts' = {}
          /\ Moved(a, IF stream[a].sendMu = "close" THEN "closed" ELSE stream[a].pc,
                   stream[a].host, "free")
      BY <1>t, <3>0, <3>1, <3>2, AnswerFacts
    <3>4. ToSet(logs)' = ToSet(logs) \cup ToSet(p.chunk)
      BY <3>0, <3>2, StoredLines
    <3>5. SentIsIn(a, {})'
      <4>1. Flushed(a)' = Flushed(a) BY <3>3 DEF Moved, SameBuffers, Flushed
      <4> QED BY <3>0, <3>4, <4>1 DEF SentIsIn
    <3>6. /\ stream'[a].seq = stream[a].seq /\ stream'[a].sendMu = "free"
          /\ stream'[a].host = stream[a].host /\ stream'[a].pc \notin {"none", "dead"}
          /\ \A b \in Attempts : b # a => stream'[b] = stream[b]
      BY <1>2, <2>a, <3>3 DEF Moved, SameBuffers
    <3>7. Attended(a)' BY <2>a, <3>0, <3>2, <3>3, <3>5, <3>6 DEF Attended
    <3> QED BY <3>6, <3>7, <1>c DEF KeptInv
  <2>10. ASSUME NEW b \in Attempts, b # a,
                \/ Begin(b) \/ CloseBegins(b) \/ Write(b) \/ RunnerStep(b)
                \/ \E r \in Runners : Assign(b, r)
         PROVE  FALSE
    <3>1. stream[b].pc = "none" /\ stream[b].sendMu = "free" BY <2>10, <2>a, <2>b
    <3> QED BY <2>10, <3>1, <2>a
            DEF Begin, CloseBegins, Write, RunnerStep, Tick, CloseFlush, GiveUp, Assign
  <2>11. ~Requeue BY <2>a, <1>n DEF Requeue
  <2>12. \A r \in Runners : ~Assign(a, r) BY <1>2 DEF Assign
  <2> QED BY <2>2, <2>3, <2>4, <2>6, <2>7, <2>8, <2>9, <2>10, <2>11, <2>12, <1>n
          DEF LogNext, Serve, GiveUpEarly, AgentDies, PostLost
<1> QED BY <1>1, <1>2, <1>f DEF KeptInv

\* logstream.go, Close: "so the tail of a build is never lost", for any number of lines
\* and flushes, when nothing fails and each request holds what a build can write.
THEOREM EveryLineIsKeptAlways ==
  ASSUME MaxLines <= ChunkCap
  PROVE  LogSpec => []EveryLineIsKept
<1>1. LogInit => KeptInv
  <2> SUFFICES ASSUME LogInit PROVE KeptInv OBVIOUS
  <2>1. \A a \in Attempts : /\ stream[a].pc = "none" /\ stream[a].written = 0 /\ stream[a].buf = <<>>
                            /\ stream[a].seq = 0 /\ stream[a].sendMu = "free"
    BY DEF LogInit
  <2> QED BY <2>1 DEF LogInit, KeptInv, CloseOK
<1>2. OrderInv /\ KeptInv /\ [LogNext]_logVars => KeptInv'
  <2> SUFFICES ASSUME OrderInv, KeptInv, [LogNext]_logVars PROVE KeptInv' OBVIOUS
  <2>1. CASE UNCHANGED logVars
    BY <2>1 DEF logVars, job, table, KeptInv, CloseOK, Attended, SentIsIn, Flushed
  <2>2. CASE LogNext /\ faults' # 0
    BY <2>2, StepCloses DEF KeptInv
  <2> QED BY <2>1, <2>2, StepKept
<1>3. OrderInv /\ KeptInv => EveryLineIsKept
  <2> SUFFICES ASSUME OrderInv, KeptInv, NEW a \in Attempts, stream[a].pc = "closed", faults = 0,
                      NEW n \in 1..stream[a].written
               PROVE  <<a, n>> \in ToSet(logs)
    BY DEF EveryLineIsKept
  <2>1. Attended(a) BY DEF KeptInv, Attended
  <2>2. stream[a].sendMu = "free" /\ stream[a].buf = <<>> BY DEF KeptInv, CloseOK
  <2>3. Flushed(a) = stream[a].written
    <3>1. Len(<<>>) = 0 OBVIOUS
    <3>2. stream[a].written \in Nat BY StreamFacts DEF OrderInv
    <3> QED BY <2>2, <3>1, <3>2 DEF Flushed
  <2> QED BY <2>1, <2>2, <2>3 DEF Attended, SentIsIn
<1> QED BY <1>1, <1>2, <1>3, OrderInvariance, PTL DEF LogSpec

-----------------------------------------------------------------------------
(* What the server answered for is stored, while the job has one attempt and   *)
(* no request outlives its client                                              *)

\* At most one attempt has begun, and it keeps the job.
OneAttempt ==
  /\ \A a \in Attempts : stream[a].pc # "none" => stream[a].pc # "dead" /\ owner # NULL
  /\ \A a, b \in Attempts : stream[a].pc # "none" /\ stream[b].pc # "none" => a = b

\* Its one request, if any, has a number that the table has not seen.
OneRequest ==
  /\ \A p \in posts : /\ stream[p.att].pc # "none" /\ stream[p.att].sendMu # "free"
                      /\ p.seq = stream[p.att].seq /\ log_seq < p.seq
  /\ \A p, q \in posts : p = q
  /\ \A a \in Attempts : stream[a].pc # "none" => log_seq <= stream[a].seq
  /\ (\A a \in Attempts : stream[a].pc = "none") => log_seq = 0

SoleInv == OneAttempt /\ OneRequest /\ AcceptedIsStored

\* logstream.go, store.go: a step of the one attempt, or of its request.
LEMMA StepSole ==
  ASSUME FaultKinds \subseteq {"lost"}, OrderInv, CloseOK, SoleInv, LogNext
  PROVE  SoleInv'
<1>t. Types BY DEF OrderInv
<1>s. \A a \in Attempts : stream[a].seq \in Nat BY <1>t DEF Types, Streams
<1>n. ~Fault("death") /\ ~Fault("silence") /\ ~Fault("late") BY DEF Fault
<1>p. \A p \in posts : p \in Posts /\ p.att \in Attempts /\ p.seq \in Nat BY <1>t DEF Types, Posts
<1>l. log_seq \in Nat BY <1>t DEF Types
<1>1. ASSUME NEW a \in Attempts, NEW pc, Moved(a, pc, stream[a].host, stream[a].sendMu),
             stream[a].pc # "none", pc \notin {"none", "dead"},
             UNCHANGED <<owner, posts, logs, log_seq, accepted>>
      PROVE  SoleInv'
  <2>1. /\ \A b \in Attempts : /\ stream'[b].seq = stream[b].seq
                               /\ stream'[b].sendMu = stream[b].sendMu
                               /\ stream'[b].pc = "none" <=> stream[b].pc = "none"
                               /\ stream'[b].pc = "dead" => stream[b].pc = "dead"
    BY <1>1 DEF Moved, SameBuffers
  <2>2. OneAttempt' BY <1>1, <2>1 DEF SoleInv, OneAttempt
  <2>3. OneRequest' BY <1>1, <1>p, <2>1 DEF SoleInv, OneRequest
  <2> QED BY <1>1, <2>2, <2>3 DEF SoleInv, AcceptedIsStored
<1>2. ASSUME NEW a \in Attempts, NEW r \in Runners, Assign(a, r) PROVE SoleInv'
  <2>1. /\ Moved(a, "assigned", r, stream[a].sendMu) /\ owner = NULL /\ owner' = r /\ r # NULL
        /\ UNCHANGED <<posts, logs, log_seq, accepted>>
    BY <1>t, <1>2, MoveFacts, LogAssumption DEF Assign, table
  <2>2. \A b \in Attempts : stream[b].pc = "none" BY <2>1 DEF SoleInv, OneAttempt
  <2>3. posts = {} /\ log_seq = 0 BY <1>p, <2>2 DEF SoleInv, OneRequest
  <2>4. /\ stream'[a].pc = "assigned" /\ stream'[a].seq = stream[a].seq
        /\ \A b \in Attempts : b # a => stream'[b].pc = "none"
    BY <2>1, <2>2 DEF Moved, SameBuffers
  <2>5. OneAttempt' BY <2>1, <2>4 DEF OneAttempt
  <2>6. OneRequest' BY <1>s, <2>1, <2>3, <2>4 DEF OneRequest
  <2> QED BY <2>1, <2>5, <2>6 DEF SoleInv, AcceptedIsStored
<1>3. ASSUME NEW a \in Attempts, Write(a) PROVE SoleInv'
  <2>0. stream[a] \in Streams /\ stream \in [Attempts -> Streams] BY <1>t DEF Types
  <2>1. /\ \A b \in Attempts : /\ stream'[b].seq = stream[b].seq
                               /\ stream'[b].sendMu = stream[b].sendMu
                               /\ stream'[b].pc = stream[b].pc
        /\ UNCHANGED <<owner, posts, logs, log_seq, accepted>>
    BY <1>3, <2>0 DEF Write, Streams, job, table
  <2>2. OneAttempt' BY <2>1 DEF SoleInv, OneAttempt
  <2>3. OneRequest' BY <1>p, <2>1 DEF SoleInv, OneRequest
  <2> QED BY <2>1, <2>2, <2>3 DEF SoleInv, AcceptedIsStored
<1>4. ASSUME NEW a \in Attempts, NEW who \in {"ticker", "close"}, Flush(a, who),
             stream[a].pc # "none"
      PROVE  SoleInv'
  <2> DEFINE new == [att |-> a, seq |-> stream[a].seq + 1, chunk |-> stream[a].buf, at |-> "sent"]
  <2>1. /\ \A b \in Attempts : b # a => stream'[b] = stream[b]
        /\ stream'[a].seq = stream[a].seq + 1 /\ stream'[a].sendMu = who
        /\ stream'[a].pc = stream[a].pc /\ posts' = posts \cup {new}
        /\ UNCHANGED <<owner, logs, log_seq, accepted>>
    BY <1>4, FlushFacts
  <2>2. new.att = a /\ new.seq = stream[a].seq + 1 OBVIOUS
  <2> HIDE DEF new
  <2>3. posts = {}
    <3>1. stream[a].sendMu = "free" BY <1>4 DEF Flush
    <3>2. \A p \in posts : p.att = a BY <1>4, <1>p DEF SoleInv, OneAttempt, OneRequest
    <3> QED BY <3>1, <3>2 DEF SoleInv, OneRequest
  <2>4. log_seq <= stream[a].seq BY <1>4 DEF SoleInv, OneRequest
  <2>5. OneAttempt' BY <2>1 DEF SoleInv, OneAttempt
  <2>6. OneRequest'
    <3>1. posts' = {new} BY <2>1, <2>3
    <3>2. log_seq < stream[a].seq + 1 /\ log_seq <= stream[a].seq + 1 BY <2>4, <1>s, <1>l
    <3>3. \A b \in Attempts : stream'[b].pc # "none" => b = a
      BY <1>4, <2>1 DEF SoleInv, OneAttempt
    <3> QED BY <1>4, <2>1, <2>2, <3>1, <3>2, <3>3 DEF OneRequest
  <2> QED BY <2>1, <2>5, <2>6 DEF SoleInv, AcceptedIsStored
<1>5. ASSUME NEW a \in Attempts, posts' = {}, UNCHANGED owner, AcceptedIsStored',
             UNCHANGED stream \/ Moved(a, IF stream[a].sendMu = "close" THEN "closed"
                                          ELSE stream[a].pc, stream[a].host, "free"),
             stream[a].pc # "none", log_seq' \in {log_seq, stream[a].seq}
      PROVE  SoleInv'
  <2>1. \A b \in Attempts : /\ stream'[b].seq = stream[b].seq
                            /\ stream'[b].pc = "none" <=> stream[b].pc = "none"
                            /\ stream'[b].pc = "dead" => stream[b].pc = "dead"
    BY <1>5 DEF Moved, SameBuffers
  <2>2. OneAttempt' BY <1>5, <2>1 DEF SoleInv, OneAttempt
  <2>3. \A b \in Attempts : stream[b].pc # "none" => b = a
    BY <1>5 DEF SoleInv, OneAttempt
  <2>4. log_seq' <= stream[a].seq
    BY <1>5, <1>s DEF SoleInv, OneRequest
  <2>5. OneRequest' BY <1>5, <2>1, <2>3, <2>4 DEF OneRequest
  <2> QED BY <1>5, <2>2, <2>5 DEF SoleInv
<1>6. ASSUME NEW a \in Attempts, GiveUp(a) PROVE SoleInv'
  <2>1. /\ Moved(a, IF stream[a].sendMu = "close" THEN "closed" ELSE stream[a].pc,
                 stream[a].host, "free")
        /\ stream[a].sendMu # "free" /\ UNCHANGED <<owner, posts, logs, log_seq, accepted>>
    BY <1>t, <1>6, MoveFacts DEF GiveUp, job, table
  <2>2. stream[a].pc # "none" BY <2>1 DEF CloseOK
  <2>3. posts = {}
    <3>1. \A p \in posts : p.att = a /\ p.seq = stream[a].seq
      BY <2>2, <1>p DEF SoleInv, OneAttempt, OneRequest
    <3> QED BY <3>1, <1>6 DEF GiveUp, Lost
  <2>4. AcceptedIsStored' BY <2>1 DEF SoleInv, AcceptedIsStored
  <2> QED BY <1>5, <2>1, <2>2, <2>3, <2>4
<1>7. ASSUME NEW p \in posts, Refuse(p) \/ AppendLogs(p) \/ PostLost(p) PROVE SoleInv'
  <2>1. /\ posts = {p} /\ stream[p.att].pc # "none" /\ p.seq = stream[p.att].seq /\ log_seq < p.seq
    BY DEF SoleInv, OneRequest
  <2>2. /\ posts' = {} /\ UNCHANGED owner
        /\ UNCHANGED stream \/ Moved(p.att, IF stream[p.att].sendMu = "close" THEN "closed"
                                            ELSE stream[p.att].pc, stream[p.att].host, "free")
    <3>1. CASE PostLost(p) BY <2>1, <3>1 DEF PostLost, job
    <3>2. CASE Answer(p) BY <1>t, <2>1, <1>7, <3>2, AnswerFacts
                         DEF Refuse, AppendLogs, PostLost, job
    <3> QED BY <1>7, <3>1, <3>2 DEF Refuse, AppendLogs
  <2>3. AcceptedIsStored' /\ log_seq' \in {log_seq, stream[p.att].seq}
    <3>1. CASE Refuse(p) \/ PostLost(p)
      BY <3>1 DEF Refuse, PostLost, table, SoleInv, AcceptedIsStored
    <3>2. CASE AppendLogs(p)
      <4>1. IsNew(p) BY <2>1, <1>p, <1>l DEF IsNew
      <4>2. /\ logs' = logs \o p.chunk /\ log_seq' = p.seq
            /\ accepted' = accepted \cup ToSet(p.chunk)
        BY <3>2, <4>1 DEF AppendLogs
      <4>3. logs \in Seq(Lines) /\ p.chunk \in Seq(Lines) BY <1>t, <1>p DEF Types, Posts
      <4>4. ToSet(logs)' = ToSet(logs) \cup ToSet(p.chunk) BY <4>2, <4>3, StoredLines
      <4> QED BY <2>1, <4>2, <4>4 DEF SoleInv, AcceptedIsStored
    <3> QED BY <1>7, <3>1, <3>2
  <2> QED BY <1>5, <1>p, <2>1, <2>2, <2>3
<1>8. ASSUME NEW p \in posts, Admit(p) PROVE SoleInv'
  <2>0. PICK q : q = [p EXCEPT !.at = "owned"] OBVIOUS
  <2>1. q.att = p.att /\ q.seq = p.seq BY <2>0, <1>p DEF Posts
  <2>2. posts = {p} BY DEF SoleInv, OneRequest
  <2>3. posts' = {q} /\ UNCHANGED <<owner, stream, logs, log_seq, accepted>>
    BY <1>8, <2>0, <2>2 DEF Admit, job, table
  <2>4. OneAttempt' BY <2>3 DEF SoleInv, OneAttempt
  <2>5. OneRequest' BY <2>1, <2>2, <2>3 DEF SoleInv, OneRequest
  <2> QED BY <2>3, <2>4, <2>5 DEF SoleInv, AcceptedIsStored
<1>9. CASE Finish
  BY <1>9 DEF Finish, table, SoleInv, OneAttempt, OneRequest, AcceptedIsStored
<1>10. ~Requeue
  BY <1>n DEF Requeue, SoleInv, OneAttempt
<1>11. ASSUME NEW a \in Attempts, Begin(a) \/ CloseBegins(a) PROVE SoleInv'
  <2>1. PICK pc \in {"running", "closing"} : Moved(a, pc, stream[a].host, stream[a].sendMu)
    BY <1>t, <1>11, MoveFacts DEF Begin, CloseBegins
  <2> QED BY <1>1, <1>11, <2>1 DEF Begin, CloseBegins, job, table
<1>12. ASSUME NEW a \in Attempts, CloseFlush(a) PROVE SoleInv'
  <2>1. CASE Flush(a, "close") BY <1>4, <1>12, <2>1 DEF CloseFlush
  <2>2. CASE stream' = [stream EXCEPT ![a].pc = "closed"] /\ UNCHANGED <<job, posts, table>>
    <3>1. Moved(a, "closed", stream[a].host, stream[a].sendMu) BY <1>t, <2>2, MoveFacts
    <3>2. UNCHANGED <<owner, posts, logs, log_seq, accepted>> BY <2>2 DEF job, table
    <3>3. stream[a].pc # "none" BY <1>12 DEF CloseFlush
    <3> QED BY <1>1, <3>1, <3>2, <3>3
  <2> QED BY <1>12, <2>1, <2>2 DEF CloseFlush
<1>13. ASSUME NEW a \in Attempts, Tick(a) PROVE SoleInv'
  BY <1>4, <1>13 DEF Tick
<1>14. \A a \in Attempts : ~GiveUpEarly(a) /\ ~AgentDies(a)
  BY <1>n DEF GiveUpEarly, AgentDies
<1> QED BY <1>2, <1>3, <1>6, <1>7, <1>8, <1>9, <1>10, <1>11, <1>12, <1>13, <1>14
        DEF LogNext, RunnerStep, Serve

\* store.go, AppendLogs: "this chunk already landed".  What the server answered 202 for is in
\* the table, for any number of lines, flushes and lost requests, when the job is not
\* attempted twice and no request outlives the client's timeout.
THEOREM AcceptedIsStoredAlways ==
  ASSUME FaultKinds \subseteq {"lost"}
  PROVE  LogSpec => []AcceptedIsStored
<1>1. LogInit => CloseOK /\ SoleInv
  <2> SUFFICES ASSUME LogInit PROVE CloseOK /\ SoleInv OBVIOUS
  <2>1. \A a \in Attempts : /\ stream[a].pc = "none" /\ stream[a].written = 0 /\ stream[a].buf = <<>>
                            /\ stream[a].seq = 0 /\ stream[a].sendMu = "free"
    BY DEF LogInit
  <2>2. posts = {} /\ log_seq = 0 /\ accepted = {} BY DEF LogInit
  <2> QED BY <2>1, <2>2 DEF CloseOK, SoleInv, OneAttempt, OneRequest, AcceptedIsStored
<1>2. OrderInv /\ CloseOK /\ SoleInv /\ [LogNext]_logVars => CloseOK' /\ SoleInv'
  <2> SUFFICES ASSUME OrderInv, CloseOK, SoleInv, [LogNext]_logVars PROVE CloseOK' /\ SoleInv'
      OBVIOUS
  <2>1. CASE UNCHANGED logVars
    BY <2>1 DEF logVars, job, table, CloseOK, SoleInv, OneAttempt, OneRequest, AcceptedIsStored
  <2> QED BY <2>1, StepCloses, StepSole
<1>3. SoleInv => AcceptedIsStored BY DEF SoleInv
<1> QED BY <1>1, <1>2, <1>3, OrderInvariance, PTL DEF LogSpec
=============================================================================
