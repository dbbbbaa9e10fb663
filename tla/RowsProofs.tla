----------------------------- MODULE RowsProofs -----------------------------
(***************************************************************************)
(* What the file holds of the session that is recorded: data that reaches  *)
(* the tables finds an open row of its own run, and no other row of the    *)
(* run is open.  Both rest on the order of what waits in the dispatcher    *)
(* queue: what a lost connection left there lies before a Reconnect, what  *)
(* the next one brings behind it.  Then that every request finds tables    *)
(* that can take it, and what Database promises, of the whole program.     *)
(***************************************************************************)
EXTENDS RecorderProofs, FiniteSetTheorems

-----------------------------------------------------------------------------
(* Reconnect requests between others *)

\* Between two requests A there is a Reconnect; behind each; before each.
Apart(q, A) ==
  \A i, k \in 1 .. Len(q) :
    i < k /\ q[i].action = A /\ q[k].action = A => \E j \in i + 1 .. k - 1 : q[j].action = "Reconnect"
Followed(q, A) ==
  \A i \in 1 .. Len(q) : q[i].action = A => \E j \in i + 1 .. Len(q) : q[j].action = "Reconnect"
Preceded(q, A) ==
  \A k \in 1 .. Len(q) : q[k].action = A => \E j \in 1 .. k - 1 : q[j].action = "Reconnect"

\* When a session is there, or is set before place n of the queue, no Reconnect ends
\* it up to there.
Alive(q, there, n) ==
  /\ there \/ \E j \in 1 .. n - 1 : q[j].action = "SetSession"
  /\ \A k \in 1 .. n - 1 : q[k].action = "Reconnect" =>
       \E j \in k + 1 .. n - 1 : q[j].action = "SetSession"

\* p is q without its first request; p is q and one more.
Shorter(p, q) ==
  /\ Len(q) \in Nat \ {0} /\ Len(p) = Len(q) - 1
  /\ \A k \in 1 .. Len(p) : p[k] = q[k + 1]
Longer(p, q, r) ==
  /\ Len(q) \in Nat /\ Len(p) = Len(q) + 1 /\ p[Len(p)] = r
  /\ \A k \in 1 .. Len(q) : p[k] = q[k]

LEMMA ShorterBehind ==
  ASSUME NEW p, NEW q, Shorter(p, q), NEW A
  PROVE  /\ Apart(q, A) => Apart(p, A)
         /\ Followed(q, A) => Followed(p, A)
         /\ Preceded(q, A) /\ q[1].action # "Reconnect" => Preceded(p, A)
         /\ Apart(q, A) /\ q[1].action = A => Preceded(p, A)
         /\ Followed(q, A) /\ q[1].action = A => \E k \in 1 .. Len(p) : p[k].action = "Reconnect"
<1> DEFINE n == Len(p)
<1>1. n \in Nat /\ Len(q) = n + 1 /\ \A k \in 1 .. n : p[k] = q[k + 1]
  BY DEF Shorter
<1> HIDE DEF n
<1>2. \A k \in 1 .. n : k + 1 \in 1 .. n + 1
  BY <1>1
<1>3. \A j \in 2 .. n + 1 : j - 1 \in 1 .. n /\ p[j - 1] = q[j]
  <2> TAKE j \in 2 .. n + 1
  <2>1. j - 1 \in 1 .. n /\ (j - 1) + 1 = j
    BY <1>1
  <2>2. QED
    BY <1>1, <2>1
<1>4. ASSUME Apart(q, A) PROVE Apart(p, A)
  <2> SUFFICES ASSUME NEW i \in 1 .. n, NEW k \in 1 .. n, i < k, p[i].action = A, p[k].action = A
               PROVE  \E j \in i + 1 .. k - 1 : p[j].action = "Reconnect"
    BY <1>1 DEF Apart, n
  <2>1. i + 1 < k + 1 /\ q[i + 1].action = A /\ q[k + 1].action = A
    BY <1>1
  <2>2. PICK j \in (i + 1) + 1 .. (k + 1) - 1 : q[j].action = "Reconnect"
    BY <1>1, <1>2, <1>4, <2>1 DEF Apart
  <2>3. j \in 2 .. n + 1 /\ j - 1 \in i + 1 .. k - 1
    BY <1>1, <2>2
  <2>4. QED
    BY <1>3, <2>2, <2>3
<1>5. ASSUME Followed(q, A) PROVE Followed(p, A)
  <2> SUFFICES ASSUME NEW i \in 1 .. n, p[i].action = A
               PROVE  \E j \in i + 1 .. n : p[j].action = "Reconnect"
    BY <1>1 DEF Followed, n
  <2>1. PICK j \in (i + 1) + 1 .. n + 1 : q[j].action = "Reconnect"
    BY <1>1, <1>2, <1>5 DEF Followed
  <2>2. j \in 2 .. n + 1 /\ j - 1 \in i + 1 .. n
    BY <1>1, <2>1
  <2>3. QED
    BY <1>3, <2>1, <2>2
<1>6. ASSUME Preceded(q, A), q[1].action # "Reconnect" PROVE Preceded(p, A)
  <2> SUFFICES ASSUME NEW k \in 1 .. n, p[k].action = A
               PROVE  \E j \in 1 .. k - 1 : p[j].action = "Reconnect"
    BY <1>1 DEF Preceded, n
  <2>1. PICK j \in 1 .. (k + 1) - 1 : q[j].action = "Reconnect"
    BY <1>1, <1>2, <1>6 DEF Preceded
  <2>2. j \in 2 .. n + 1 /\ j - 1 \in 1 .. k - 1
    <3>1. j # 1
      BY <1>6, <2>1
    <3>2. QED
      BY <1>1, <2>1, <3>1
  <2>3. QED
    BY <1>3, <2>1, <2>2
<1>7. ASSUME Apart(q, A), q[1].action = A PROVE Preceded(p, A)
  <2> SUFFICES ASSUME NEW k \in 1 .. n, p[k].action = A
               PROVE  \E j \in 1 .. k - 1 : p[j].action = "Reconnect"
    BY <1>1 DEF Preceded, n
  <2>1. 1 < k + 1 /\ 1 \in 1 .. n + 1 /\ q[k + 1].action = A
    BY <1>1
  <2>2. PICK j \in 1 + 1 .. (k + 1) - 1 : q[j].action = "Reconnect"
    BY <1>1, <1>2, <1>7, <2>1 DEF Apart
  <2>3. j \in 2 .. n + 1 /\ j - 1 \in 1 .. k - 1
    BY <1>1, <2>2
  <2>4. QED
    BY <1>3, <2>2, <2>3
<1>8. ASSUME Followed(q, A), q[1].action = A
      PROVE  \E k \in 1 .. n : p[k].action = "Reconnect"
  <2>1. 1 \in 1 .. n + 1
    BY <1>1
  <2>2. PICK j \in 1 + 1 .. n + 1 : q[j].action = "Reconnect"
    BY <1>1, <1>8, <2>1 DEF Followed
  <2>3. QED
    BY <1>3, <2>2
<1>9. QED
  BY <1>4, <1>5, <1>6, <1>7, <1>8 DEF n

LEMMA LongerBehind ==
  ASSUME NEW p, NEW q, NEW r, Longer(p, q, r), NEW A, A # "Reconnect"
  PROVE  /\ Apart(q, A) /\ (r.action # A \/ Followed(q, A)) => Apart(p, A)
         /\ r.action = "Reconnect" \/ (Followed(q, A) /\ r.action # A) => Followed(p, A)
         /\ Preceded(q, A) /\ r.action # A => Preceded(p, A)
         /\ Preceded(q, A) /\ (\E k \in 1 .. Len(q) : q[k].action = "Reconnect") => Preceded(p, A)
<1> DEFINE n == Len(q)
<1>1. n \in Nat /\ Len(p) = n + 1 /\ p[n + 1] = r /\ \A k \in 1 .. n : p[k] = q[k]
  BY DEF Longer
<1> HIDE DEF n
<1>2. \A k \in 1 .. n + 1 : k \in 1 .. n \/ k = n + 1
  BY <1>1
<1>3. ASSUME Apart(q, A), r.action # A \/ Followed(q, A) PROVE Apart(p, A)
  <2> SUFFICES ASSUME NEW i \in 1 .. n + 1, NEW k \in 1 .. n + 1, i < k,
                      p[i].action = A, p[k].action = A
               PROVE  \E j \in i + 1 .. k - 1 : p[j].action = "Reconnect"
    BY <1>1 DEF Apart
  <2>1. i \in 1 .. n /\ q[i].action = A
    BY <1>1
  <2>2. CASE k \in 1 .. n
    <3>1. PICK j \in i + 1 .. k - 1 : q[j].action = "Reconnect"
      BY <1>1, <1>3, <2>1, <2>2 DEF Apart, n
    <3>2. j \in 1 .. n
      BY <1>1, <2>1, <2>2, <3>1
    <3>3. QED
      BY <1>1, <3>1, <3>2
  <2>3. CASE k = n + 1
    <3>1. Followed(q, A)
      BY <1>1, <1>3, <2>3
    <3>2. PICK j \in i + 1 .. n : q[j].action = "Reconnect"
      BY <2>1, <3>1 DEF Followed, n
    <3>3. j \in 1 .. n /\ j \in i + 1 .. k - 1
      BY <1>1, <2>1, <2>3, <3>2
    <3>4. QED
      BY <1>1, <3>2, <3>3
  <2>4. QED
    BY <1>2, <2>2, <2>3
<1>4. ASSUME r.action = "Reconnect" PROVE Followed(p, A)
  <2> SUFFICES ASSUME NEW i \in 1 .. n + 1, p[i].action = A
               PROVE  \E j \in i + 1 .. n + 1 : p[j].action = "Reconnect"
    BY <1>1 DEF Followed
  <2>1. i # n + 1
    BY <1>1, <1>4
  <2>2. n + 1 \in i + 1 .. n + 1
    BY <1>1, <2>1
  <2>3. QED
    BY <1>1, <1>4, <2>2
<1>5. ASSUME Followed(q, A), r.action # A PROVE Followed(p, A)
  <2> SUFFICES ASSUME NEW i \in 1 .. n + 1, p[i].action = A
               PROVE  \E j \in i + 1 .. n + 1 : p[j].action = "Reconnect"
    BY <1>1 DEF Followed
  <2>1. i \in 1 .. n /\ q[i].action = A
    BY <1>1, <1>2, <1>5
  <2>2. PICK j \in i + 1 .. n : q[j].action = "Reconnect"
    BY <1>5, <2>1 DEF Followed, n
  <2>3. j \in 1 .. n /\ j \in i + 1 .. n + 1
    BY <1>1, <2>1, <2>2
  <2>4. QED
    BY <1>1, <2>2, <2>3
<1>6. ASSUME Preceded(q, A), r.action # A PROVE Preceded(p, A)
  <2> SUFFICES ASSUME NEW k \in 1 .. n + 1, p[k].action = A
               PROVE  \E j \in 1 .. k - 1 : p[j].action = "Reconnect"
    BY <1>1 DEF Preceded
  <2>1. k \in 1 .. n /\ q[k].action = A
    BY <1>1, <1>2, <1>6
  <2>2. PICK j \in 1 .. k - 1 : q[j].action = "Reconnect"
    BY <1>6, <2>1 DEF Preceded, n
  <2>3. j \in 1 .. n
    BY <1>1, <2>1, <2>2
  <2>4. QED
    BY <1>1, <2>2, <2>3
<1>7. ASSUME Preceded(q, A), NEW m \in 1 .. n, q[m].action = "Reconnect" PROVE Preceded(p, A)
  <2> SUFFICES ASSUME NEW k \in 1 .. n + 1, p[k].action = A
               PROVE  \E j \in 1 .. k - 1 : p[j].action = "Reconnect"
    BY <1>1 DEF Preceded
  <2>1. CASE k \in 1 .. n
    <3>1. PICK j \in 1 .. k - 1 : q[j].action = "Reconnect"
      BY <1>1, <1>7, <2>1 DEF Preceded, n
    <3>2. j \in 1 .. n
      BY <1>1, <2>1, <3>1
    <3>3. QED
      BY <1>1, <3>1, <3>2
  <2>2. CASE k = n + 1
    <3>1. m \in 1 .. k - 1
      BY <1>1, <2>2
    <3>2. QED
      BY <1>1, <1>7, <3>1
  <2>3. QED
    BY <1>2, <2>1, <2>2
<1>8. QED
  BY <1>3, <1>4, <1>5, <1>6, <1>7 DEF n

LEMMA ShorterAlive ==
  ASSUME NEW p, NEW q, Shorter(p, q), NEW n \in Nat \ {0}, n <= Len(q),
         NEW o, NEW t, Alive(q, o, n + 1),
         q[1].action = "SetSession" => t,
         q[1].action \notin {"SetSession", "Reconnect"} /\ o => t
  PROVE  Alive(p, t, n)
<1>1. \A k \in 1 .. n - 1 : p[k] = q[k + 1] /\ k + 1 \in 1 .. n
  BY DEF Shorter
<1>2. \A j \in 2 .. n : j - 1 \in 1 .. n - 1 /\ p[j - 1] = q[j]
  <2> TAKE j \in 2 .. n
  <2>1. j - 1 \in 1 .. n - 1 /\ (j - 1) + 1 = j
    OBVIOUS
  <2>2. QED
    BY <1>1, <2>1
<1>3. (n + 1) - 1 = n
  OBVIOUS
<1>4. /\ o \/ \E j \in 1 .. n : q[j].action = "SetSession"
      /\ \A k \in 1 .. n : q[k].action = "Reconnect" =>
           \E j \in k + 1 .. n : q[j].action = "SetSession"
  BY <1>3 DEF Alive
<1>5. ASSUME NEW j \in 2 .. n, q[j].action = "SetSession"
      PROVE  \E i \in 1 .. n - 1 : p[i].action = "SetSession"
  BY <1>2, <1>5
<1>6. t \/ \E j \in 1 .. n - 1 : p[j].action = "SetSession"
  <2>1. CASE q[1].action = "SetSession"
    BY <2>1
  <2>2. CASE q[1].action = "Reconnect"
    <3>1. PICK j \in 1 + 1 .. n : q[j].action = "SetSession"
      BY <1>4, <2>2
    <3>2. QED
      BY <1>5, <3>1
  <2>3. CASE q[1].action \notin {"SetSession", "Reconnect"}
    <3>1. CASE o
      BY <2>3, <3>1
    <3>2. ASSUME NEW j \in 1 .. n, q[j].action = "SetSession"
          PROVE  \E i \in 1 .. n - 1 : p[i].action = "SetSession"
      <4>1. j # 1
        BY <2>3, <3>2
      <4>2. j \in 2 .. n
        BY <4>1
      <4>3. QED
        BY <1>5, <3>2, <4>2
    <3>3. QED
      BY <1>4, <3>1, <3>2
  <2>4. QED
    BY <2>1, <2>2, <2>3
<1>7. ASSUME NEW k \in 1 .. n - 1, p[k].action = "Reconnect"
      PROVE  \E j \in k + 1 .. n - 1 : p[j].action = "SetSession"
  <2>1. PICK j \in (k + 1) + 1 .. n : q[j].action = "SetSession"
    BY <1>1, <1>4, <1>7
  <2>2. j \in 2 .. n /\ j - 1 \in k + 1 .. n - 1
    BY <2>1
  <2>3. QED
    BY <1>2, <2>1, <2>2
<1>8. QED
  BY <1>6, <1>7 DEF Alive

LEMMA LongerAlive ==
  ASSUME NEW p, NEW q, NEW r, Longer(p, q, r), NEW o
  PROVE  /\ \A n \in 1 .. Len(q) + 1 : Alive(q, o, n) => Alive(p, o, n)
         /\ Alive(q, o, Len(q) + 1) /\ r.action # "Reconnect" => Alive(p, o, Len(p) + 1)
         /\ r.action = "SetSession" => Alive(p, o, Len(p) + 1)
<1> DEFINE m == Len(q)
<1>1. m \in Nat /\ Len(p) = m + 1 /\ p[m + 1] = r /\ \A k \in 1 .. m : p[k] = q[k]
  BY DEF Longer
<1> HIDE DEF m
<1>2. ASSUME NEW n \in 1 .. m + 1, Alive(q, o, n) PROVE Alive(p, o, n)
  <2>1. \A k \in 1 .. n - 1 : p[k] = q[k]
    BY <1>1
  <2>2. \A k \in 1 .. n - 1 : \A j \in k + 1 .. n - 1 : j \in 1 .. n - 1
    BY <1>1
  <2>3. QED
    BY <1>2, <2>1, <2>2 DEF Alive
<1>3. ASSUME Alive(q, o, m + 1), r.action # "Reconnect" PROVE Alive(p, o, m + 2)
  <2>1. m + 1 \in 1 .. m + 1 /\ (m + 1) - 1 = m /\ (m + 2) - 1 = m + 1
    BY <1>1
  <2>2. Alive(p, o, m + 1)
    BY <1>2, <1>3, <2>1
  <2>3. \A k \in 1 .. m + 1 : k \in 1 .. m \/ k = m + 1
    BY <1>1
  <2>4. \A k \in 1 .. m + 1 : p[k].action = "Reconnect" =>
          \E j \in k + 1 .. m + 1 : p[j].action = "SetSession"
    <3> SUFFICES ASSUME NEW k \in 1 .. m + 1, p[k].action = "Reconnect"
                 PROVE  \E j \in k + 1 .. m + 1 : p[j].action = "SetSession"
      OBVIOUS
    <3>1. k \in 1 .. m
      BY <1>1, <1>3, <2>3
    <3>2. PICK j \in k + 1 .. m : p[j].action = "SetSession"
      BY <2>1, <2>2, <3>1 DEF Alive
    <3>3. j \in k + 1 .. m + 1
      BY <1>1, <3>1, <3>2
    <3>4. QED
      BY <3>2, <3>3
  <2>5. o \/ \E j \in 1 .. m + 1 : p[j].action = "SetSession"
    <3>1. \A j \in 1 .. m : j \in 1 .. m + 1
      BY <1>1
    <3>2. QED
      BY <2>1, <2>2, <3>1 DEF Alive
  <2>6. QED
    BY <2>1, <2>4, <2>5 DEF Alive
<1>4. ASSUME r.action = "SetSession" PROVE Alive(p, o, m + 2)
  <2>1. (m + 2) - 1 = m + 1 /\ m + 1 \in 1 .. m + 1
    BY <1>1
  <2>2. \A k \in 1 .. m + 1 : p[k].action = "Reconnect" => m + 1 \in k + 1 .. m + 1
    <3> SUFFICES ASSUME NEW k \in 1 .. m + 1, p[k].action = "Reconnect"
                 PROVE  m + 1 \in k + 1 .. m + 1
      OBVIOUS
    <3>1. k # m + 1
      BY <1>1, <1>4
    <3>2. QED
      BY <1>1, <3>1
  <2>3. QED
    BY <1>1, <1>4, <2>1, <2>2 DEF Alive
<1>5. Len(p) + 1 = m + 2
  BY <1>1
<1>6. QED
  BY <1>2, <1>3, <1>4, <1>5 DEF m

LEMMA AliveMore ==
  ASSUME NEW q, NEW n, NEW o, NEW t, Alive(q, o, n), o => t
  PROVE  Alive(q, t, n)
  BY DEF Alive

\* What a handler and what a push make of the dispatcher queue.
LEMMA ThenShape ==
  ASSUME queue \in Seq(Requests), queue # <<>>
  PROVE  /\ Shorter(Tail(queue), queue) /\ Head(queue) = queue[1]
         /\ Then(<<>>) => queue' = Tail(queue)
         /\ \A a \in Actions : Then(<<Rq(a)>>) => Longer(queue', Tail(queue), Rq(a))
<1> DEFINE q == Tail(queue)
<1>1. q \in Seq(Requests) /\ Shorter(q, queue) /\ Head(queue) = queue[1]
  BY DEF Shorter
<1> HIDE DEF q
<1>2. ASSUME Then(<<>>) PROVE queue' = q
  BY <1>1, <1>2, ConcatEmptySeq DEF Then, q
<1>3. ASSUME NEW a \in Actions, Then(<<Rq(a)>>) PROVE Longer(queue', q, Rq(a))
  <2> DEFINE r == Rq(a)
  <2>1. r \in Requests
    BY RqType
  <2> HIDE DEF r
  <2>2. queue' = q \o <<r>>
    BY <1>3 DEF Then, q, r
  <2>3. Longer(queue', q, r)
    BY <1>1, <2>1, <2>2 DEF Longer
  <2>4. QED
    BY <2>3 DEF r
<1>4. QED
  BY <1>1, <1>2, <1>3 DEF q

LEMMA PushShape ==
  ASSUME queue \in Seq(Requests), NEW rq \in Requests, Push(rq)
  PROVE  Longer(queue', queue, rq)
  BY DEF Push, Longer

\* A handler runs and pushes a, or nothing.
LEMMA HandledBehind ==
  ASSUME queue \in Seq(Requests), queue # <<>>, NEW a \in Actions,
         Then(<<>>) \/ Then(<<Rq(a)>>), NEW A, A # "Reconnect"
  PROVE  /\ Apart(queue, A) /\ (a # A \/ Followed(queue, A)) => Apart(queue, A)'
         /\ Followed(queue, A) /\ a # A => Followed(queue, A)'
         /\ Then(<<Rq("Reconnect")>>) => Followed(queue, A)'
         /\ Preceded(queue, A) /\ Head(queue).action # "Reconnect" /\ a # A
              => Preceded(queue, A)'
         /\ Apart(queue, A) /\ Head(queue).action = A /\ a # A => Preceded(queue, A)'
<1> DEFINE q == Tail(queue)
<1>1. /\ Shorter(q, queue) /\ Head(queue) = queue[1]
      /\ queue' = q \/ Longer(queue', q, Rq(a))
      /\ Then(<<Rq("Reconnect")>>) => Longer(queue', q, Rq("Reconnect"))
  BY ThenShape DEF Actions
<1>2. Rq(a).action = a /\ Rq("Reconnect").action = "Reconnect"
  BY DEF Rq
<1> HIDE DEF q
<1>3. /\ Apart(queue, A) => Apart(q, A)
      /\ Followed(queue, A) => Followed(q, A)
      /\ Preceded(queue, A) /\ Head(queue).action # "Reconnect" => Preceded(q, A)
      /\ Apart(queue, A) /\ Head(queue).action = A => Preceded(q, A)
  BY <1>1, ShorterBehind
<1>4. Then(<<Rq("Reconnect")>>) => Followed(queue', A)
  BY <1>1, <1>2, LongerBehind
<1>5. CASE queue' = q
  BY <1>3, <1>4, <1>5
<1>6. CASE Longer(queue', q, Rq(a))
  <2>1. /\ Apart(q, A) /\ (a # A \/ Followed(q, A)) => Apart(queue', A)
        /\ Followed(q, A) /\ a # A => Followed(queue', A)
        /\ Preceded(q, A) /\ a # A => Preceded(queue', A)
    BY <1>2, <1>6, LongerBehind
  <2>2. QED
    BY <1>3, <1>4, <2>1
<1>7. QED
  BY <1>1, <1>5, <1>6

\* A finalizer or a reader callback pushes rq.
LEMMA PushedBehind ==
  ASSUME queue \in Seq(Requests), NEW rq \in Requests, Push(rq), NEW A, A # "Reconnect"
  PROVE  /\ Apart(queue, A) /\ (rq.action # A \/ Followed(queue, A)) => Apart(queue, A)'
         /\ Followed(queue, A) /\ rq.action # A => Followed(queue, A)'
         /\ rq.action = "Reconnect" => Followed(queue, A)'
         /\ Preceded(queue, A) /\ (rq.action # A \/ Pending({"Reconnect"}))
              => Preceded(queue, A)'
<1>1. Longer(queue', queue, rq)
  BY PushShape
<1>2. Pending({"Reconnect"}) => \E k \in 1 .. Len(queue) : queue[k].action = "Reconnect"
  BY DEF Pending
<1>3. QED
  BY <1>1, <1>2, LongerBehind

\* A Reconnect waits behind the request that is handled, when one followed it.
LEMMA FollowedPending ==
  ASSUME queue \in Seq(Requests), queue # <<>>, NEW a \in Actions,
         Then(<<>>) \/ Then(<<Rq(a)>>), NEW A, A # "Reconnect",
         Followed(queue, A), Head(queue).action = A
  PROVE  Pending({"Reconnect"})'
<1>1. 1 \in 1 .. Len(queue) /\ queue[1].action = A /\ DOMAIN queue = 1 .. Len(queue)
  OBVIOUS
<1>2. PICK k \in 1 + 1 .. Len(queue) : queue[k].action = "Reconnect"
  BY <1>1 DEF Followed
<1>3. Pending({"Reconnect"})
  BY <1>1, <1>2 DEF Pending
<1>4. <<>> \in Seq(Requests) /\ <<Rq(a)>> \in Seq(Requests)
  BY RqType
<1>5. QED
  BY <1>3, <1>4, PendingKept

-----------------------------------------------------------------------------
(* A connection is described once *)

\* As long as no connection was replaced while it was registered: between two
\* SendDescriptors the connection is replaced, and one that the monitor knows the
\* reader of is replaced before it is described again.
DescribedInv ==
  ~orphaned =>
    /\ Apart(queue, "SendDescriptor")
    /\ conn \notin sources => Followed(queue, "SendDescriptor")
    /\ conn \in sources /\ peer[conn].described => Preceded(queue, "SendDescriptor")
    /\ peer[conn].hash # NoHash => peer[conn].described

\* A step that neither describes nor replaces the connection.
LEMMA AsideDescribed ==
  ASSUME DescribedInv, UNCHANGED <<conn, sources, orphaned>>,
         peer'[conn].described = peer[conn].described,
         peer'[conn].hash # NoHash => peer[conn].hash # NoHash \/ peer[conn].described,
         Apart(queue, "SendDescriptor") => Apart(queue, "SendDescriptor")',
         Followed(queue, "SendDescriptor") => Followed(queue, "SendDescriptor")',
         Preceded(queue, "SendDescriptor") => Preceded(queue, "SendDescriptor")'
  PROVE  DescribedInv'
  BY DEF DescribedInv

\* The connection is replaced, or will be, and the new one is not described.
LEMMA NewDescribed ==
  ASSUME ~orphaned' => Apart(queue, "SendDescriptor")',
         ~orphaned' => peer'[conn'] = Idle,
         ~orphaned' /\ conn' \notin sources' => Followed(queue, "SendDescriptor")'
  PROVE  DescribedInv'
  BY DEF DescribedInv, Idle

\* What handlers do not touch connections push.
LEMMA LinkKept ==
  ASSUME TypeOK, Dispatch, ~Exit,
         Head(queue).action \notin {"Connect", "Reconnect", "SendDescriptor"}
  PROVE  /\ UNCHANGED <<conn, sources, orphaned>>
         /\ peer'[conn].described = peer[conn].described
         /\ peer'[conn].hash = peer[conn].hash
         /\ \E a \in Actions \ {"SendDescriptor", "SetSession", "Reconnect"} :
              Then(<<>>) \/ Then(<<Rq(a)>>)
<1>1. {"Connect", "Quit", "StartStream"} \subseteq Actions \ {"SendDescriptor", "SetSession", "Reconnect"}
  BY DEF Actions
<1>2. CASE RequestSession
  <2>1. UNCHANGED <<conn, sources, orphaned>> /\ Then(<<>>)
        /\ (peer' = peer \/ peer' = [peer EXCEPT ![conn].asked = @ + 1])
    BY <1>2 DEF RequestSession
  <2>2. peer \in [Conn -> [described: BOOLEAN, asked: Nat, hash: MaybeHash]] /\ conn \in Conn
    BY DEF TypeOK, Peers
  <2>3. peer'[conn].described = peer[conn].described /\ peer'[conn].hash = peer[conn].hash
    BY <2>1, <2>2
  <2>4. QED
    BY <1>1, <2>1, <2>3
<1>3. CASE PrepareData
  <2>1. UNCHANGED link
    BY <1>3 DEF PrepareData
  <2>2. Then(<<Rq("Connect")>>) \/ Then(<<Rq("Quit")>>)
    BY <1>3 DEF PrepareData
  <2>3. QED
    BY <1>1, <2>1, <2>2 DEF link
<1>4. CASE SetSession
  <2>1. UNCHANGED link
    BY <1>4 DEF SetSession
  <2>2. Then(<<Rq("Quit")>>) \/ Then(<<Rq("StartStream")>>) \/ Then(<<>>)
    BY <1>4 DEF SetSession
  <2>3. QED
    BY <1>1, <2>1, <2>2 DEF link
<1>5. CASE StartStream \/ ProcessData \/ (Status /\ ~Exit)
  <2>1. UNCHANGED link /\ Then(<<>>)
    BY <1>5 DEF StartStream, ProcessData, Status
  <2>2. QED
    BY <1>1, <2>1 DEF link
<1>6. QED
  BY <1>2, <1>3, <1>4, <1>5 DEF Dispatch, Throw, Quit, Connect, Reconnect, SendDescriptor, Turn

\* A connection attempt starts without a connection that feeds the reader.
LEMMA AttemptIs ==
  ASSUME LoopInv, Connect \/ (\E up \in BOOLEAN : Reconnect(up)), ~orphaned'
  PROVE  /\ ~orphaned /\ conn \notin sources /\ conn' \in Conn \ sources
         /\ peer' = peer /\ peer[conn'] = Idle
         /\ \/ Then(<<Rq("SendDescriptor")>>) /\ sources' = sources \cup {conn'}
            \/ Then(<<Rq("Reconnect")>>) /\ sources' = sources
<1>1. CASE Connect
  <2>1. queue # <<>> /\ Head(queue).action = "Connect" /\ queue \in Seq(Requests)
    BY <1>1 DEF Connect, Turn, LoopInv, TypeOK
  <2>2. sources = {}
    BY <2>1, HeadPending DEF LoopInv, DbDiscipline, Booting, Starting
  <2>3. UNCHANGED <<conn, orphaned>> /\ conn \in Conn
    BY <1>1 DEF Connect, LoopInv, TypeOK
  <2>4. \E up \in BOOLEAN : TryConnect(up)
    BY <1>1 DEF Connect
  <2>5. peer' = peer /\ \/ Then(<<Rq("SendDescriptor")>>) /\ sources' = sources \cup {conn'}
                        \/ Then(<<Rq("Reconnect")>>) /\ sources' = sources
    BY <2>4 DEF TryConnect
  <2>6. QED
    BY <2>2, <2>3, <2>5 DEF LoopInv, AttributionInv, LinkInv
<1>2. CASE \E up \in BOOLEAN : Reconnect(up)
  <2>1. /\ conn' \in Conn \ sources /\ orphaned' = (orphaned \/ conn \in sources)
        /\ \E up \in BOOLEAN : TryConnect(up)
    BY <1>2 DEF Reconnect, ResetConnection
  <2>2. ~orphaned /\ conn \notin sources
    BY <2>1 DEF LoopInv, TypeOK
  <2>3. peer' = peer /\ \/ Then(<<Rq("SendDescriptor")>>) /\ sources' = sources \cup {conn'}
                        \/ Then(<<Rq("Reconnect")>>) /\ sources' = sources
    BY <2>1 DEF TryConnect
  <2>4. QED
    BY <2>1, <2>2, <2>3 DEF LoopInv, AttributionInv, LinkInv
<1>3. QED
  BY <1>1, <1>2

LEMMA DispatchDescribed ==
  ASSUME LoopInv, DescribedInv, Dispatch, ~Exit
  PROVE  DescribedInv'
<1>1. queue \in Seq(Requests) /\ queue # <<>>
  BY DispatchHandled DEF LoopInv, TypeOK
<1>2. "SendDescriptor" # "Reconnect" /\ {"SendDescriptor", "Reconnect", "RequestSession"} \subseteq Actions
  BY DEF Actions
<1>3. CASE Connect \/ \E up \in BOOLEAN : Reconnect(up)
  <2> SUFFICES ASSUME ~orphaned'
               PROVE  /\ Apart(queue, "SendDescriptor")' /\ peer'[conn'] = Idle
                      /\ conn' \notin sources' => Followed(queue, "SendDescriptor")'
    BY NewDescribed
  <2>1. /\ ~orphaned /\ conn \notin sources /\ peer'[conn'] = Idle
        /\ \/ Then(<<Rq("SendDescriptor")>>) /\ sources' = sources \cup {conn'}
           \/ Then(<<Rq("Reconnect")>>) /\ sources' = sources
    BY <1>3, AttemptIs
  <2>2. Apart(queue, "SendDescriptor") /\ Followed(queue, "SendDescriptor")
    BY <2>1 DEF DescribedInv
  <2>3. Apart(queue, "SendDescriptor")'
    BY <1>1, <1>2, <2>1, <2>2, HandledBehind
  <2>4. Then(<<Rq("Reconnect")>>) => Followed(queue, "SendDescriptor")'
    BY <1>1, <1>2, HandledBehind
  <2>5. QED
    BY <2>1, <2>3, <2>4
<1>4. CASE SendDescriptor
  <2>1. /\ UNCHANGED <<conn, sources, orphaned>> /\ Head(queue).action = "SendDescriptor"
        /\ Then(<<Rq("RequestSession")>>) \/ Then(<<Rq("Reconnect")>>)
        /\ peer' = peer \/ (conn \in sources /\ peer' = [peer EXCEPT ![conn].described = TRUE])
    BY <1>4 DEF SendDescriptor, Turn
  <2>2. peer \in [Conn -> [described: BOOLEAN, asked: Nat, hash: MaybeHash]] /\ conn \in Conn
    BY DEF LoopInv, TypeOK, Peers
  <2>3. peer'[conn].hash = peer[conn].hash /\ (peer[conn].described => peer'[conn].described)
    BY <2>1, <2>2
  <2>4. ASSUME ~orphaned
        PROVE  /\ Apart(queue, "SendDescriptor")' /\ Preceded(queue, "SendDescriptor")'
               /\ conn \notin sources => Followed(queue, "SendDescriptor")'
    <3>1. Apart(queue, "SendDescriptor") /\ (conn \notin sources => Followed(queue, "SendDescriptor"))
      BY <2>4 DEF DescribedInv
    <3>2. CASE Then(<<Rq("RequestSession")>>)
      BY <1>1, <1>2, <2>1, <3>1, <3>2, HandledBehind
    <3>3. CASE Then(<<Rq("Reconnect")>>)
      BY <1>1, <1>2, <2>1, <3>1, <3>3, HandledBehind
    <3>4. QED
      BY <2>1, <3>2, <3>3
  <2>5. QED
    BY <2>1, <2>3, <2>4 DEF DescribedInv
<1>5. CASE Head(queue).action \notin {"Connect", "Reconnect", "SendDescriptor"}
  <2>1. /\ UNCHANGED <<conn, sources, orphaned>>
        /\ peer'[conn].described = peer[conn].described /\ peer'[conn].hash = peer[conn].hash
        /\ \E a \in Actions \ {"SendDescriptor", "SetSession", "Reconnect"} :
             Then(<<>>) \/ Then(<<Rq(a)>>)
    BY <1>5, LinkKept DEF LoopInv
  <2>2. /\ Apart(queue, "SendDescriptor") => Apart(queue, "SendDescriptor")'
        /\ Followed(queue, "SendDescriptor") => Followed(queue, "SendDescriptor")'
        /\ Preceded(queue, "SendDescriptor") => Preceded(queue, "SendDescriptor")'
    BY <1>1, <1>2, <1>5, <2>1, HandledBehind
  <2>3. QED
    BY <2>1, <2>2, AsideDescribed
<1>6. Throw => Exit
  BY DEF Throw
<1>7. QED
  BY <1>3, <1>4, <1>5, <1>6
  DEF Dispatch, PrepareData, RequestSession, SetSession, StartStream, ProcessData, Status, Quit, Turn

LEMMA DropDescribed ==
  ASSUME LoopInv, DescribedInv, DropConnection
  PROVE  DescribedInv'
<1>1. /\ Unregistered(conn) /\ conn' \in Conn \ (sources \ {conn}) /\ orphaned' = orphaned
      /\ IF conn \in sources THEN Push(Rq("Reconnect")) ELSE UNCHANGED queue
  BY DEF DropConnection, ResetConnection, LoopInv, TypeOK
<1>2. queue \in Seq(Requests) /\ Rq("Reconnect") \in Requests /\ Rq("Reconnect").action = "Reconnect"
  BY RqType DEF Actions, Rq, LoopInv, TypeOK
<1>3. peer'[conn'] = Idle /\ conn' \notin sources'
  <2>1. \A c \in Conn \ sources : peer[c] = Idle
    BY DEF LoopInv, AttributionInv, LinkInv
  <2>2. QED
    BY <1>1, <2>1 DEF Unregistered, LoopInv, TypeOK
<1>4. ASSUME ~orphaned PROVE Apart(queue, "SendDescriptor")' /\ Followed(queue, "SendDescriptor")'
  <2>1. Apart(queue, "SendDescriptor") /\ (conn \notin sources => Followed(queue, "SendDescriptor"))
    BY <1>4 DEF DescribedInv
  <2>2. CASE conn \in sources
    BY <1>1, <1>2, <2>1, <2>2, PushedBehind
  <2>3. CASE conn \notin sources
    BY <1>1, <2>1, <2>3
  <2>4. QED
    BY <2>2, <2>3
<1>5. QED
  BY <1>1, <1>3, <1>4, NewDescribed

LEMMA EventDescribed ==
  ASSUME LoopInv, DescribedInv, NEW c \in Conn,
         ReceiveSession(c) \/ ReceiveData(c) \/ ReceiveStatus(c) \/ ConnectionLost(c)
  PROVE  DescribedInv'
<1>1. PICK rq \in Requests : /\ Push(rq)
                             /\ rq.action \in {"SetSession", "ProcessData", "Status", "Reconnect"}
  BY EventPush DEF LoopInv
<1>2. queue \in Seq(Requests) /\ "SendDescriptor" # "Reconnect" /\ rq.action # "SendDescriptor"
  BY <1>1 DEF LoopInv, TypeOK
<1>3. /\ Apart(queue, "SendDescriptor") => Apart(queue, "SendDescriptor")'
      /\ Followed(queue, "SendDescriptor") => Followed(queue, "SendDescriptor")'
      /\ Preceded(queue, "SendDescriptor") => Preceded(queue, "SendDescriptor")'
  BY <1>1, <1>2, PushedBehind
<1>4. CASE ReceiveSession(c)
  <2>1. /\ UNCHANGED <<conn, sources, orphaned>> /\ peer[c].described
        /\ \E h \in Hash : peer' = [peer EXCEPT ![c].asked = @ - 1, ![c].hash = h]
    BY <1>4 DEF ReceiveSession, Receive
  <2>2. peer \in [Conn -> [described: BOOLEAN, asked: Nat, hash: MaybeHash]] /\ conn \in Conn
    BY DEF LoopInv, TypeOK, Peers
  <2>3. /\ peer'[conn].described = peer[conn].described
        /\ peer'[conn].hash = peer[conn].hash \/ peer[conn].described
    BY <2>1, <2>2
  <2>4. QED
    BY <1>3, <2>1, <2>3, AsideDescribed
<1>5. CASE ReceiveData(c) \/ ReceiveStatus(c)
  <2>1. UNCHANGED <<conn, sources, orphaned, peer>>
    BY <1>5 DEF ReceiveData, ReceiveStatus, Receive
  <2>2. QED
    BY <1>3, <2>1, AsideDescribed
<1>6. CASE ConnectionLost(c)
  <2>1. c \in sources /\ Unregistered(c) /\ UNCHANGED <<conn, orphaned>> /\ Push(Rq("Reconnect"))
    BY <1>6 DEF ConnectionLost
  <2>2. ~orphaned => c = conn
    BY <2>1 DEF LoopInv, AttributionInv, LinkInv
  <2>3. ~orphaned => peer'[conn] = Idle
    BY <2>1, <2>2 DEF Unregistered, LoopInv, TypeOK
  <2>4. Rq("Reconnect") \in Requests /\ Rq("Reconnect").action = "Reconnect"
    BY RqType DEF Actions, Rq
  <2>5. Followed(queue, "SendDescriptor")'
    BY <1>2, <2>1, <2>4, PushedBehind
  <2>6. ~orphaned => Apart(queue, "SendDescriptor")'
    BY <1>3 DEF DescribedInv
  <2>7. QED
    BY <2>1, <2>3, <2>5, <2>6, NewDescribed
<1>7. QED
  BY <1>4, <1>5, <1>6

LEMMA DescribedKept ==
  ASSUME LoopInv, DescribedInv, [RecorderNext]_everything
  PROVE  DescribedInv'
<1>1. CASE \E d \in Device, init, removed \in BOOLEAN : Start(d, init, removed)
  <2>1. /\ queue' = <<Rq("PrepareData")>> /\ peer' = [c \in Conn |-> Idle] /\ conn' \in Conn
    BY <1>1 DEF Start
  <2>2. \A i \in 1 .. Len(queue') : queue'[i].action # "SendDescriptor"
    BY <2>1 DEF Rq
  <2>3. Apart(queue, "SendDescriptor")' /\ Followed(queue, "SendDescriptor")'
    BY <2>2 DEF Apart, Followed
  <2>4. QED
    BY <2>1, <2>3, NewDescribed
<1>2. CASE UNCHANGED <<queue, link>>
  BY <1>2 DEF DescribedInv, link
<1>3. CASE Crash
  BY <1>2, <1>3 DEF Crash, Exit, loop
<1>4. CASE Dispatch
  BY <1>2, <1>4, DispatchDescribed DEF Exit, loop
<1>5. CASE DbStep
  BY <1>2, <1>5 DEF DbStep, CheckDatabase, InitDatabase, AddDevice, AddSession, EndSession,
     AddData, DbHandles
<1>6. ASSUME NEW c \in Conn,
             ReceiveSession(c) \/ ReceiveData(c) \/ ReceiveStatus(c) \/ ConnectionLost(c)
      PROVE  DescribedInv'
  BY <1>6, EventDescribed
<1>7. CASE SessionTimerExpires \/ InactivityTick
  BY <1>2, <1>7, DropDescribed DEF SessionTimerExpires, InactivityTick
<1>8. CASE UNCHANGED vars
  BY <1>2, <1>8 DEF vars, loop
<1>9. QED
  BY <1>1, <1>3, <1>4, <1>5, <1>6, <1>7, <1>8, StepIs DEF Next

-----------------------------------------------------------------------------
(* Data finds an open row *)

\* The run's own row of the current session is open, or about to be inserted, and
\* not about to be ended.
Row == \E s \in sessions : OwnRow(s)
Here == DbHolds({"AddSession"}) \/ (Row /\ ~DbHolds({"EndSession"}))

\* As long as no connection was replaced while it was registered, and unless the
\* program is about to end: data that waits, data that may come, and data in the
\* database queue.
DataInv ==
  ~exited /\ ~orphaned /\ ~Pending({"Quit"}) =>
    /\ \A i \in 1 .. Len(queue) : queue[i].action = "ProcessData" => Alive(queue, Here, i)
    /\ conn \in sources /\ peer[conn].hash # NoHash => Alive(queue, Here, Len(queue) + 1)
    /\ DbHolds({"AddData"}) => Row

\* A step of the event loop with the tables in it.
LEMMA TakesIs ==
  ASSUME RecorderDispatch
  PROVE  Dispatch /\ UNCHANGED <<created, devices, sessions, data, born, run, device, forced>>
<1>1. Dispatch
  BY DEF RecorderDispatch, TakeSession, Other, Dispatch
<1>2. CASE TakeSession
  BY <1>1, <1>2 DEF TakeSession, DB!SetSession, DB!file
<1>3. CASE UNCHANGED tables
  BY <1>1, <1>3 DEF tables
<1>4. QED
  BY <1>2, <1>3 DEF RecorderDispatch

\* The dispatcher runs only when the database queue is empty, but for the start.
LEMMA EmptyAtTurn ==
  ASSUME LoopInv, ~exited => dbServing, Dispatch, Head(queue).action \notin Starting
  PROVE  dbQueue = <<>>
<1>1. queue # <<>> /\ ~dbTurn /\ ~exited
  BY DEF Dispatch, PrepareData, Connect, Reconnect, Throw, SendDescriptor, RequestSession,
         SetSession, StartStream, ProcessData, Status, Quit, Turn
<1>2. ASSUME dbQueue # <<>> PROVE FALSE
  <2>1. Pending({"Connect"})
    BY <1>1, <1>2 DEF LoopInv, DbDiscipline, DbOneRequest
  <2>2. Pending(Starting)
    BY <2>1 DEF Pending, Starting
  <2>3. Len(queue) = 1 /\ queue \in Seq(Requests)
    BY <2>2 DEF LoopInv, DbDiscipline, Booting, TypeOK
  <2>4. QED
    BY <1>1, <2>2, <2>3, HeadAtStart
<1>3. QED
  BY <1>2

\* What a dispatcher callback pushes on an empty database queue.
LEMMA DbPushIs ==
  ASSUME dbQueue = <<>>, dbServing, NEW a, NEW h, NEW A
  PROVE  /\ ~DbHolds(A)
         /\ NoDbPush => ~DbHolds(A)'
         /\ DbPush(a, h, TRUE) => (DbHolds(A)' <=> a \in A)
<1>1. ~DbHolds(A)
  BY DEF DbHolds
<1>2. NoDbPush => ~DbHolds(A)'
  BY DEF NoDbPush, DbAfter, DbHolds
<1>3. ASSUME DbPush(a, h, TRUE) PROVE DbHolds(A)' <=> a \in A
  <2> DEFINE r == [action |-> a, hash |-> h]
  <2>1. r.action = a
    OBVIOUS
  <2> HIDE DEF r
  <2>2. dbQueue' = Append(<<>>, r)
    BY <1>3 DEF DbPush, DbAfter, r
  <2>3. DOMAIN dbQueue' = {1} /\ dbQueue'[1] = r
    BY <2>2
  <2>4. QED
    BY <2>1, <2>3 DEF DbHolds
<1>4. QED
  BY <1>1, <1>2, <1>3

LEMMA RowSame ==
  ASSUME UNCHANGED <<sessions, born, run>>, session'.hash = session.hash
  PROVE  Row' <=> Row
  BY DEF Row, OwnRow

\* The request o, or what o becomes when the first request is handled, is there for
\* the ones behind it.
LEMMA DataMoves ==
  ASSUME queue \in Seq(Requests), queue # <<>>, NEW a \in Quiet,
         Then(<<>>) \/ Then(<<Rq(a)>>), NEW o, NEW t,
         Head(queue).action = "SetSession" => t,
         Head(queue).action \notin {"SetSession", "Reconnect"} /\ o => t
  PROVE  /\ (\A i \in 1 .. Len(queue) : queue[i].action = "ProcessData" => Alive(queue, o, i))
            => \A i \in 1 .. Len(queue') : queue'[i].action = "ProcessData" => Alive(queue', t, i)
         /\ (a # "Reconnect" \/ Then(<<>>)) /\ Alive(queue, o, Len(queue) + 1)
            => Alive(queue', t, Len(queue') + 1)
<1> DEFINE p == Tail(queue)
           n == Len(queue)
<1>1. /\ Shorter(p, queue) /\ Head(queue) = queue[1]
      /\ Then(<<>>) => queue' = p
      /\ Then(<<Rq(a)>>) => Longer(queue', p, Rq(a))
  BY ThenShape DEF Quiet
<1>2. /\ Len(queue') >= n - 1 /\ n \in Nat \ {0} /\ queue' \in Seq(Requests)
      /\ \A k \in 1 .. n - 1 : queue'[k] = queue[k + 1]
      /\ \A k \in n .. Len(queue') : queue'[k].action \in Quiet
  BY HandledQueue DEF Handled
<1>3. Rq(a).action = a
  BY DEF Rq
<1> HIDE DEF p
<1>4. Len(p) = n - 1
  BY <1>1 DEF Shorter
<1>5. \A k \in 1 .. n : Alive(queue, o, k + 1) => Alive(p, t, k)
  <2> SUFFICES ASSUME NEW k \in 1 .. n, Alive(queue, o, k + 1) PROVE Alive(p, t, k)
    OBVIOUS
  <2>1. k \in Nat \ {0} /\ k <= Len(queue)
    BY <1>2
  <2>2. QED
    BY <1>1, <2>1, ShorterAlive
<1>6. \A k \in 1 .. n : Alive(p, t, k) => Alive(queue', t, k)
  <2>1. CASE queue' = p
    BY <2>1
  <2>2. CASE Longer(queue', p, Rq(a))
    <3>1. \A k \in 1 .. Len(p) + 1 : Alive(p, t, k) => Alive(queue', t, k)
      BY <2>2, LongerAlive
    <3>2. QED
      BY <1>2, <1>4, <3>1
  <2>3. QED
    BY <1>1, <2>1, <2>2
<1>7. ASSUME \A i \in 1 .. n : queue[i].action = "ProcessData" => Alive(queue, o, i),
             NEW i \in 1 .. Len(queue'), queue'[i].action = "ProcessData"
      PROVE  Alive(queue', t, i)
  <2>1. "ProcessData" \notin Quiet
    BY DEF Quiet
  <2>2. i \in 1 .. n - 1
    BY <1>2, <1>7, <2>1
  <2>3. i \in 1 .. n /\ i + 1 \in 1 .. n /\ queue[i + 1].action = "ProcessData"
    BY <1>2, <1>7, <2>2
  <2>4. QED
    BY <1>5, <1>6, <1>7, <2>3
<1>8. ASSUME a # "Reconnect" \/ Then(<<>>), Alive(queue, o, n + 1)
      PROVE  Alive(queue', t, Len(queue') + 1)
  <2>1. Alive(p, t, Len(p) + 1)
    BY <1>2, <1>4, <1>5, <1>8
  <2>2. CASE queue' = p
    BY <2>1, <2>2
  <2>3. CASE Longer(queue', p, Rq(a)) /\ a # "Reconnect"
    BY <1>3, <2>1, <2>3, LongerAlive
  <2>4. QED
    BY <1>1, <1>8, <2>2, <2>3
<1>9. QED
  BY <1>7, <1>8

\* What a dispatcher callback that does not end the program finds and leaves.
LEMMA TurnIs ==
  ASSUME RecorderInv, Dispatch, ~Exit, ~orphaned', ~exited', ~Pending({"Quit"})'
  PROVE  /\ queue \in Seq(Requests) /\ queue # <<>>
         /\ ~exited /\ dbServing /\ ~orphaned /\ ~Pending({"Quit"})
         /\ \A c \in sources' : peer'[c].hash # NoHash => c \in sources /\ peer'[c].hash = peer[c].hash
<1> USE DEF RecorderInv, LoopInv
<1>1. queue \in Seq(Requests) /\ queue # <<>> /\ Handled
  BY DispatchHandled DEF TypeOK
<1>2. ~exited /\ Head(queue).action # "Quit"
  BY DEF Dispatch, PrepareData, Connect, Reconnect, Throw, SendDescriptor, RequestSession,
         SetSession, StartStream, ProcessData, Status, Quit, Turn
<1>3. dbServing
  BY <1>2, Served
<1>4. Ungranted
  BY DispatchLink DEF AttributionInv
<1>5. \E r \in Seq(Requests) : Then(r)
  <2>1. <<>> \in Seq(Requests) /\ \A a \in Quiet : <<Rq(a)>> \in Seq(Requests)
    BY RqType DEF Quiet
  <2>2. QED
    BY <1>1, <2>1 DEF Handled
<1>6. ~Pending({"Quit"})
  BY <1>1, <1>2, <1>5, PendingKept
<1>7. QED
  BY <1>1, <1>2, <1>3, <1>4, <1>6 DEF Ungranted

\* The start: nothing of a session waits, and nothing can come.
LEMMA StartingData ==
  ASSUME RecorderInv, DataInv, RecorderDispatch, ~Exit, Head(queue).action \in Starting
  PROVE  DataInv'
<1> SUFFICES ASSUME ~orphaned', ~exited', ~Pending({"Quit"})'
             PROVE  /\ \A i \in 1 .. Len(queue') : queue'[i].action # "ProcessData"
                    /\ \A c \in sources' : peer'[c].hash = NoHash
                    /\ DbHolds({"AddData"})' => Row'
  BY NextType, TakesIs DEF DataInv, RecorderInv, LoopInv, TypeOK, Next
<1> USE DEF RecorderInv, LoopInv
<1>1. /\ queue \in Seq(Requests) /\ queue # <<>>
      /\ ~exited /\ ~orphaned /\ ~Pending({"Quit"})
      /\ \A c \in sources' : peer'[c].hash # NoHash => c \in sources
      /\ Dispatch /\ UNCHANGED <<sessions, born, run>>
  BY TurnIs, TakesIs
<1>2. Len(queue) = 1 /\ sources = {}
  BY <1>1, HeadPending DEF DbDiscipline, Booting
<1>3. \A i \in 1 .. Len(queue') : queue'[i].action # "ProcessData"
  <2>1. /\ queue' \in Seq(Requests)
        /\ \A k \in Len(queue) .. Len(queue') : queue'[k].action \in Quiet
    BY <1>1, DispatchHandled, HandledQueue
  <2>2. QED
    BY <1>2, <2>1 DEF Quiet
<1>4. DbHolds({"AddData"})' => DbHolds({"AddData"})
  <2>1. CASE PrepareData
    <3> DEFINE r == [action |-> "InitDatabase", hash |-> session.hash]
    <3>1. dbQueue' = dbQueue \/ dbQueue' = Append(dbQueue, r)
      BY <2>1 DEF PrepareData, DbPush, NoDbPush, DbAfter
    <3>2. r \in DbRequests /\ r.action = "InitDatabase" /\ dbQueue \in Seq(DbRequests)
      BY DEF DbRequests, DbActions, TypeOK
    <3> HIDE DEF r
    <3>3. CASE dbQueue' = dbQueue
      BY <3>3 DEF DbHolds
    <3>4. CASE dbQueue' = Append(dbQueue, r)
      <4>1. DbHolds({"AddData"})' <=> DbHolds({"AddData"}) \/ r.action \in {"AddData"}
        BY <3>2, <3>4, DbHoldsAppend
      <4>2. QED
        BY <3>2, <4>1
    <3>5. QED
      BY <3>1, <3>3, <3>4
  <2>2. CASE Connect
    BY <2>2 DEF Connect, NoDbPush, DbAfter, DbHolds
  <2>3. QED
    BY <1>1, <2>1, <2>2 DEF Starting, Dispatch, Reconnect, Throw, SendDescriptor, RequestSession,
         SetSession, StartStream, ProcessData, Status, Quit, Turn
<1>5. DbHolds({"AddData"})' => Row'
  <2>1. session'.hash = session.hash
    BY <1>1, DispatchHandled DEF Starting
  <2>2. Row' <=> Row
    BY <1>1, <2>1, RowSame
  <2>3. QED
    BY <1>1, <1>4, <2>2 DEF DataInv
<1>6. QED
  BY <1>1, <1>2, <1>3, <1>5

\* The end of a session is pushed behind its data and before that of the next.
LEMMA ReconnectData ==
  ASSUME RecorderInv, DataInv, RecorderDispatch, \E up \in BOOLEAN : Reconnect(up)
  PROVE  DataInv'
<1> SUFFICES ASSUME ~orphaned', ~exited', ~Pending({"Quit"})'
             PROVE  /\ \A i \in 1 .. Len(queue') : queue'[i].action = "ProcessData" =>
                         Alive(queue', Here', i)
                    /\ peer'[conn'].hash = NoHash
                    /\ ~DbHolds({"AddData"})'
  BY DEF DataInv
<1> USE DEF RecorderInv, LoopInv
<1>1. ~Exit /\ Head(queue).action = "Reconnect"
  BY DEF Reconnect, Exit, Turn
<1>2. /\ queue \in Seq(Requests) /\ queue # <<>> /\ dbServing
      /\ ~exited /\ ~orphaned /\ ~Pending({"Quit"}) /\ Dispatch
  BY <1>1, TurnIs, TakesIs
<1>3. /\ peer'[conn'] = Idle
      /\ Then(<<Rq("SendDescriptor")>>) \/ Then(<<Rq("Reconnect")>>)
  BY AttemptIs
<1>4. \A i \in 1 .. Len(queue') : queue'[i].action = "ProcessData" => Alive(queue', Here', i)
  <2>1. {"SendDescriptor", "Reconnect"} \subseteq Quiet
    BY DEF Quiet, Actions
  <2>2. \A i \in 1 .. Len(queue) : queue[i].action = "ProcessData" => Alive(queue, Here, i)
    BY <1>2 DEF DataInv, TypeOK
  <2>3. QED
    BY <1>1, <1>2, <1>3, <2>1, <2>2, DataMoves
<1>5. ~DbHolds({"AddData"})'
  <2>1. dbQueue = <<>>
    BY <1>1, <1>2, EmptyAtTurn DEF Starting
  <2>2. NoDbPush \/ \E ok \in BOOLEAN : DbPush("EndSession", session.hash, ok)
    BY OptionAssumption DEF Reconnect
  <2>3. QED
    BY <2>1, <2>2 DEF NoDbPush, DbPush, DbAfter, DbHolds
<1>6. QED
  BY <1>3, <1>4, <1>5 DEF Idle

\* Any other handler: what it leaves is enough for the requests behind it.
LEMMA TurnData ==
  ASSUME RecorderInv, DataInv, RecorderDispatch, ~Exit,
         Head(queue).action \notin {"Reconnect"},
         ~orphaned', ~exited', ~Pending({"Quit"})',
         NEW a \in Quiet, Then(<<>>) \/ Then(<<Rq(a)>>),
         Head(queue).action = "SetSession" \/ Here => Here',
         conn \in sources /\ peer[conn].hash # NoHash => a # "Reconnect",
         DbHolds({"AddData"})' => Row'
  PROVE  DataInv'
<1> USE DEF RecorderInv, LoopInv
<1>1. /\ queue \in Seq(Requests) /\ queue # <<>>
      /\ ~exited /\ ~orphaned /\ ~Pending({"Quit"})
      /\ \A c \in sources' : peer'[c].hash # NoHash => c \in sources /\ peer'[c].hash = peer[c].hash
  BY TurnIs, TakesIs
<1>2. /\ \A i \in 1 .. Len(queue) : queue[i].action = "ProcessData" => Alive(queue, Here, i)
      /\ conn \in sources /\ peer[conn].hash # NoHash => Alive(queue, Here, Len(queue) + 1)
  BY <1>1 DEF DataInv
<1>3. sources \subseteq {conn}
  BY <1>1 DEF AttributionInv, LinkInv
<1>4. \A i \in 1 .. Len(queue') : queue'[i].action = "ProcessData" => Alive(queue', Here', i)
  BY <1>1, <1>2, DataMoves
<1>5. conn' \in sources' /\ peer'[conn'].hash # NoHash => Alive(queue', Here', Len(queue') + 1)
  <2> SUFFICES ASSUME conn' \in sources', peer'[conn'].hash # NoHash
               PROVE  Alive(queue', Here', Len(queue') + 1)
    OBVIOUS
  <2>1. conn \in sources /\ peer[conn].hash # NoHash
    BY <1>1, <1>3
  <2>2. QED
    BY <1>1, <1>2, <2>1, DataMoves
<1>6. QED
  BY <1>4, <1>5 DEF DataInv

LEMMA DispatchData ==
  ASSUME PushResults = {TRUE}, RecorderInv, DescribedInv, DataInv, RecorderDispatch
  PROVE  DataInv'
<1> USE DEF RecorderInv, LoopInv
<1> DEFINE a == Head(queue).action
<1>1. CASE Exit
  BY <1>1 DEF Exit, DataInv
<1>2. CASE a \in Starting
  BY <1>1, <1>2, StartingData
<1>3. CASE \E up \in BOOLEAN : Reconnect(up)
  BY <1>3, ReconnectData
<1>4. ASSUME ~Exit, a \notin Starting, a # "Reconnect" PROVE DataInv'
  <2> SUFFICES ASSUME ~orphaned', ~exited', ~Pending({"Quit"})' PROVE DataInv'
    BY DEF DataInv
  <2>1. /\ queue \in Seq(Requests) /\ queue # <<>> /\ dbServing
        /\ ~exited /\ ~orphaned /\ ~Pending({"Quit"})
        /\ Dispatch /\ UNCHANGED <<sessions, born, run>>
    BY <1>4, TurnIs, TakesIs
  <2>2. dbQueue = <<>>
    BY <1>4, <2>1, EmptyAtTurn
  <2>3. {"RequestSession", "Reconnect", "StartStream"} \subseteq Quiet
    BY DEF Quiet, Actions
  <2>4. \A A : ~DbHolds(A) /\ (NoDbPush => ~DbHolds(A)')
    BY <2>1, <2>2, DbPushIs
  <2>5. a # "SetSession" => (Row' <=> Row)
    BY <1>4, <2>1, DispatchHandled, RowSame
  <2>6. CASE SendDescriptor
    <3>1. /\ Head(queue).action = "SendDescriptor" /\ NoDbPush
          /\ Then(<<Rq("RequestSession")>>) \/ Then(<<Rq("Reconnect")>>)
      BY <2>6 DEF SendDescriptor, Turn
    <3>2. ~(conn \in sources /\ peer[conn].hash # NoHash)
      <4> SUFFICES ASSUME conn \in sources, peer[conn].hash # NoHash PROVE FALSE
        OBVIOUS
      <4>1. Preceded(queue, "SendDescriptor")
        BY <2>1 DEF DescribedInv
      <4>2. 1 \in 1 .. Len(queue) /\ queue[1].action = "SendDescriptor"
        BY <2>1, <3>1
      <4>3. \E j \in 1 .. 1 - 1 : queue[j].action = "Reconnect"
        BY <4>1, <4>2 DEF Preceded
      <4>4. QED
        BY <4>3
    <3>3. ~DbHolds({"AddData"})' /\ (Here => Here')
      BY <2>4, <2>5, <3>1 DEF Here
    <3>4. QED
      BY <1>4, <2>3, <3>1, <3>2, <3>3, TurnData
  <2>7. CASE RequestSession \/ StartStream \/ Status
    <3>1. Head(queue).action # "SetSession" /\ NoDbPush /\ Then(<<>>)
      BY <1>4, <2>7 DEF RequestSession, StartStream, Status, Turn
    <3>2. ~DbHolds({"AddData"})' /\ (Here => Here')
      BY <2>4, <2>5, <3>1 DEF Here
    <3>3. QED
      BY <1>4, <2>3, <3>1, <3>2, TurnData
  <2>8. CASE SetSession
    <3>1. ~Refused(Head(queue))
      <4>1. "Quit" \in Actions
        BY DEF Actions
      <4>2. Refused(Head(queue)) => Then(<<Rq("Quit")>>)
        BY <2>8 DEF SetSession
      <4>3. Then(<<Rq("Quit")>>) => Pending({"Quit"})'
        BY <2>1, <4>1, PendingPushed
      <4>4. QED
        BY <4>2, <4>3
    <3>2. DbPush("AddSession", Head(queue).hash, TRUE) /\ Then(<<Rq("StartStream")>>)
      BY <2>8, <3>1, DatabaseAssumption DEF SetSession
    <3>3. \A A : DbHolds(A)' <=> "AddSession" \in A
      BY <2>1, <2>2, <3>2, DbPushIs
    <3>4. DbHolds({"AddSession"})' /\ ~DbHolds({"AddData"})'
      BY <3>3
    <3>5. Here'
      BY <3>4 DEF Here
    <3>6. QED
      BY <1>4, <2>3, <3>2, <3>4, <3>5, TurnData
  <2>9. CASE ProcessData
    <3>1. /\ Head(queue).action = "ProcessData" /\ Then(<<>>)
          /\ DbPush("AddData", session.hash, TRUE)
      BY <2>9, DatabaseAssumption DEF ProcessData, Turn
    <3>2. ~DbHolds({"EndSession"})'
      <4>1. \A A : DbHolds(A)' <=> "AddData" \in A
        BY <2>1, <2>2, <3>1, DbPushIs
      <4>2. QED
        BY <4>1
    <3>3. Here => Row
      BY <2>4 DEF Here
    <3>4. Alive(queue, Here, 1)
      <4>1. 1 \in 1 .. Len(queue) /\ queue[1].action = "ProcessData"
        BY <2>1, <3>1
      <4>2. QED
        BY <2>1, <4>1 DEF DataInv
    <3>5. Here
      BY <3>4 DEF Alive
    <3>6. Here' /\ Row'
      BY <2>5, <3>1, <3>2, <3>3, <3>5 DEF Here
    <3>7. QED
      BY <1>4, <2>3, <3>1, <3>6, TurnData
  <2>10. QED
    BY <1>4, <2>1, <2>6, <2>7, <2>8, <2>9
    DEF Dispatch, PrepareData, Connect, Reconnect, Throw, Quit, Turn, Starting
<1>5. QED
  <2>1. Dispatch
    BY TakesIs
  <2>2. a = "Reconnect" => Exit \/ \E up \in BOOLEAN : Reconnect(up)
    BY <2>1 DEF Dispatch, PrepareData, Connect, Throw, SendDescriptor, RequestSession,
         SetSession, StartStream, ProcessData, Status, Quit, Turn
  <2>3. QED
    BY <1>1, <1>2, <1>3, <1>4, <2>2

\* The database queue holds the request that is handled, and after it none but the
\* AddDevice of the start.
LEMMA StoreIs ==
  ASSUME LoopInv, DbStep, NEW A
  PROVE  /\ ~exited /\ dbServing /\ UNCHANGED <<queue, conn, sources, peer, orphaned, exited>>
         /\ session'.hash = session.hash
         /\ DbHolds(A) <=> Head(dbQueue).action \in A
         /\ DbHolds(A)' => "AddDevice" \in A
<1> USE DEF LoopInv
<1>1. /\ ~exited /\ dbServing /\ dbQueue # <<>>
      /\ UNCHANGED <<queue, conn, sources, peer, orphaned, exited>>
  BY DEF DbStep, CheckDatabase, InitDatabase, AddDevice, AddSession, EndSession, AddData,
         DbHandles, link
<1>2. session'.hash = session.hash
  BY DEF DbStep, CheckDatabase, InitDatabase, AddDevice, AddSession, EndSession, AddData, TypeOK
<1>3. Len(dbQueue) = 1 /\ dbQueue \in Seq(DbRequests)
  BY <1>1 DEF DbDiscipline, DbOneRequest, TypeOK
<1>4. Tail(dbQueue) = <<>> /\ Head(dbQueue) = dbQueue[1] /\ DOMAIN dbQueue = {1}
  BY <1>3, TailOfOne
<1>5. DbHolds(A) <=> Head(dbQueue).action \in A
  BY <1>4 DEF DbHolds
<1>6. DbHolds(A)' => "AddDevice" \in A
  <2>1. CASE dbQueue' = <<>>
    BY <2>1 DEF DbHolds
  <2>2. CASE InitDatabase
    <3> DEFINE r == [action |-> "AddDevice", hash |-> session.hash]
    <3>1. r.action = "AddDevice"
      OBVIOUS
    <3>2. dbQueue' = <<>> \o <<r>> \/ dbQueue' = <<>> \o <<>>
      BY <1>4, <2>2 DEF InitDatabase
    <3> HIDE DEF r
    <3>3. dbQueue' = <<r>> \/ dbQueue' = <<>>
      BY <3>2
    <3>4. dbQueue' = <<r>> => DOMAIN dbQueue' = {1} /\ dbQueue'[1] = r
      OBVIOUS
    <3>5. QED
      BY <2>1, <3>1, <3>3, <3>4 DEF DbHolds
  <2>3. QED
    BY <1>4, <2>1, <2>2 DEF DbStep, CheckDatabase, AddDevice, AddSession, EndSession, AddData
<1>7. QED
  BY <1>1, <1>2, <1>5, <1>6

\* In the phases of the start no row is of the current session.
LEMMA BootRow ==
  ASSUME RecorderInv, Phase = "InitDatabase"
  PROVE  ~Row
<1>1. session.hash = NoHash /\ \A s \in sessions : s.hash \in Hash
  BY DEF RecorderInv, T!TablesInv, T!Prepared, T!TypeInv, T!TypeOK, T!SessionRows
<1>2. QED
  BY <1>1, HashAssumption DEF Row, OwnRow

\* The rows that AddSession leaves.
LEMMA InsertedIs ==
  ASSUME RecorderInv, T!AddSession
  PROVE  \E r \in sessions' :
           /\ r.open /\ r.hash = session.hash /\ r.born = Len(born')
           /\ sessions' = {s \in sessions : s.hash # session.hash} \cup {r}
           /\ Len(born') = Len(born) + 1 /\ Len(born) \in Nat
           /\ \A i \in DOMAIN born : born'[i] = born[i] /\ i \in DOMAIN born'
           /\ \A i \in DOMAIN born' : i \in DOMAIN born \/ i = Len(born')
           /\ born'[Len(born')].run = run /\ run' = run /\ session'.hash = session.hash
<1>1. /\ \E d \in T!DeviceIds :
           sessions' = T!WithoutHash(sessions, session.hash) \cup {T!SessionRow(d)}
      /\ born' = Append(born, T!Birth) /\ run' = run /\ session'.hash = session.hash
  BY T!AddSessionIs, HashAssumption, OptionAssumption, RecorderAssumption
  DEF RecorderInv, T!TablesInv
<1>2. born \in Seq(T!Births)
  BY DEF RecorderInv, T!TablesInv, T!TypeInv, T!TypeOK
<1>3. PICK d \in T!DeviceIds :
        sessions' = T!WithoutHash(sessions, session.hash) \cup {T!SessionRow(d)}
  BY <1>1
<1> DEFINE r == T!SessionRow(d)
<1>4. r.open /\ r.hash = session.hash /\ r.born = Len(born) + 1
  BY DEF T!SessionRow
<1>5. T!Birth.run = run
  BY DEF T!Birth
<1> DEFINE b == T!Birth
           n == Len(born)
<1>6. /\ Len(born') = n + 1 /\ n \in Nat /\ born'[n + 1] = b
      /\ DOMAIN born = 1 .. n /\ DOMAIN born' = 1 .. n + 1
      /\ \A i \in 1 .. n : born'[i] = born[i]
  BY <1>1, <1>2
<1>7. sessions' = {s \in sessions : s.hash # session.hash} \cup {r}
  BY <1>3 DEF T!WithoutHash
<1> HIDE DEF r, b, n
<1>8. r \in sessions' /\ r.open /\ r.hash = session.hash /\ r.born = Len(born')
  BY <1>4, <1>6, <1>7 DEF r, n
<1>9. /\ \A i \in DOMAIN born : born'[i] = born[i] /\ i \in DOMAIN born'
      /\ \A i \in DOMAIN born' : i \in DOMAIN born \/ i = Len(born')
      /\ born'[Len(born')].run = run
  BY <1>5, <1>6 DEF b
<1>10. Len(born') = Len(born) + 1 /\ Len(born) \in Nat
  BY <1>6 DEF n
<1>11. QED
  BY <1>1, <1>7, <1>8, <1>9, <1>10

\* Only EndSession takes an own open row of the current session away.
LEMMA StoreData ==
  ASSUME RecorderInv, DataInv, Store
  PROVE  DataInv'
<1> USE DEF RecorderInv, LoopInv
<1>1. DbStep
  BY DEF Store, DbStep
<1>2. /\ UNCHANGED <<queue, conn, sources, peer, orphaned, exited>>
      /\ session'.hash = session.hash
      /\ \A A : DbHolds(A) <=> Head(dbQueue).action \in A
      /\ \A A : DbHolds(A)' => "AddDevice" \in A
  BY <1>1, StoreIs
<1>3. ~DbHolds({"AddData"})' /\ ~DbHolds({"EndSession"})' /\ ~DbHolds({"AddSession"})'
  BY <1>2
<1>4. Here => Here'
  <2> SUFFICES ASSUME Here PROVE Row'
    BY <1>3 DEF Here
  <2>1. CASE CheckDatabase \/ AddDevice \/ AddData
    <3>1. Head(dbQueue).action # "AddSession"
      BY <2>1 DEF CheckDatabase, AddDevice, AddData, DbHandles
    <3>2. UNCHANGED <<sessions, born, run>>
      BY <2>1 DEF Store, tables, CheckDatabase, InitDatabase, AddDevice, AddSession, EndSession,
         AddData, DbHandles, DB!AddDevice, DB!AddData, DB!process
    <3>3. QED
      BY <1>2, <3>1, <3>2, RowSame DEF Here
  <2>2. CASE InitDatabase
    <3>1. Head(dbQueue).action = "InitDatabase"
      BY <2>2 DEF InitDatabase, DbHandles
    <3>2. DbHolds({"InitDatabase"}) /\ ~DbHolds({"AddSession"})
      BY <1>2, <3>1
    <3>3. Phase = "InitDatabase"
      BY <1>1, <3>2, StoreIs, PhaseIs DEF Boots
    <3>4. QED
      BY <3>2, <3>3, BootRow DEF Here
  <2>3. CASE AddSession
    <3>1. T!AddSession
      BY <2>3, SameHandlers DEF Store, CheckDatabase, InitDatabase, AddDevice, AddSession,
         EndSession, AddData, DbHandles
    <3>2. PICK r \in sessions' :
            /\ r.open /\ r.hash = session.hash /\ r.born = Len(born')
            /\ born'[Len(born')].run = run /\ run' = run /\ session'.hash = session.hash
      BY <3>1, InsertedIs
    <3>3. QED
      BY <3>2 DEF Row, OwnRow
  <2>4. CASE EndSession
    <3>1. Head(dbQueue).action = "EndSession"
      BY <2>4 DEF EndSession, DbHandles
    <3>2. QED
      BY <1>2, <3>1 DEF Here
  <2>5. QED
    BY <1>1, <2>1, <2>2, <2>3, <2>4 DEF DbStep
<1>5. ASSUME ~exited', ~orphaned', ~Pending({"Quit"})'
      PROVE  /\ \A i \in 1 .. Len(queue) : queue[i].action = "ProcessData" => Alive(queue, Here, i)
             /\ conn \in sources /\ peer[conn].hash # NoHash => Alive(queue, Here, Len(queue) + 1)
  BY <1>2, <1>5 DEF DataInv, Pending
<1>6. \A i : Alive(queue, Here, i) => Alive(queue, Here', i)
  BY <1>4, AliveMore
<1>7. QED
  BY <1>2, <1>3, <1>5, <1>6 DEF DataInv

LEMMA DataPushed ==
  ASSUME queue \in Seq(Requests), NEW rq \in Requests, Push(rq), NEW o
  PROVE  /\ (\A i \in 1 .. Len(queue) : queue[i].action = "ProcessData" => Alive(queue, o, i))
            /\ (rq.action = "ProcessData" => Alive(queue, o, Len(queue) + 1))
            => \A i \in 1 .. Len(queue') : queue'[i].action = "ProcessData" => Alive(queue', o, i)
         /\ Alive(queue, o, Len(queue) + 1) /\ rq.action # "Reconnect"
            => Alive(queue', o, Len(queue') + 1)
         /\ rq.action = "SetSession" => Alive(queue', o, Len(queue') + 1)
<1>1. Longer(queue', queue, rq)
  BY PushShape
<1>2. /\ \A n \in 1 .. Len(queue) + 1 : Alive(queue, o, n) => Alive(queue', o, n)
      /\ Alive(queue, o, Len(queue) + 1) /\ rq.action # "Reconnect"
           => Alive(queue', o, Len(queue') + 1)
      /\ rq.action = "SetSession" => Alive(queue', o, Len(queue') + 1)
  BY <1>1, LongerAlive
<1>3. ASSUME \A i \in 1 .. Len(queue) : queue[i].action = "ProcessData" => Alive(queue, o, i),
             rq.action = "ProcessData" => Alive(queue, o, Len(queue) + 1),
             NEW i \in 1 .. Len(queue'), queue'[i].action = "ProcessData"
      PROVE  Alive(queue', o, i)
  <2> DEFINE n == Len(queue)
  <2>1. /\ n \in Nat /\ Len(queue') = n + 1 /\ queue'[n + 1] = rq
        /\ \A k \in 1 .. n : queue'[k] = queue[k]
    BY <1>1 DEF Longer
  <2> HIDE DEF n
  <2>2. i \in 1 .. n \/ i = n + 1
    BY <2>1
  <2>3. Alive(queue, o, i) /\ i \in 1 .. n + 1
    BY <1>3, <2>1, <2>2 DEF n
  <2>4. QED
    BY <1>2, <2>3 DEF n
<1>4. QED
  BY <1>2, <1>3

\* The step of a socket or a timer leaves what the database knows.
LEMMA HereKept ==
  ASSUME UNCHANGED <<dbQueue, session, tables>>
  PROVE  (Here' <=> Here) /\ (DbHolds({"AddData"})' <=> DbHolds({"AddData"})) /\ (Row' <=> Row)
<1>1. \A A : DbHolds(A)' <=> DbHolds(A)
  BY DEF DbHolds
<1>2. Row' <=> Row
  BY RowSame DEF tables
<1>3. QED
  BY <1>1, <1>2 DEF Here

\* A connection goes away; none can send.
LEMMA GoneData ==
  ASSUME RecorderInv, DataInv, UNCHANGED <<dbQueue, session, tables, exited, orphaned>>,
         queue' = queue \/ Push(Rq("Reconnect")),
         ~orphaned' => conn' \notin sources'
  PROVE  DataInv'
<1> SUFFICES ASSUME ~exited', ~orphaned', ~Pending({"Quit"})'
             PROVE  \A i \in 1 .. Len(queue') : queue'[i].action = "ProcessData" =>
                      Alive(queue', Here, i)
  <2>1. UNCHANGED <<dbQueue, session, tables>>
    OBVIOUS
  <2>2. /\ (Here' <=> Here) /\ (DbHolds({"AddData"})' <=> DbHolds({"AddData"}))
        /\ (Row' <=> Row)
    BY <2>1, HereKept
  <2>3. /\ queue \in Seq(Requests) /\ Rq("Reconnect") \in Requests
    BY RqType DEF Actions, RecorderInv, LoopInv, TypeOK
  <2>4. Pending({"Quit"}) => Pending({"Quit"})'
    BY <2>3, PendingPush DEF Pending
  <2>5. \A i : Alive(queue', Here, i) => Alive(queue', Here', i)
    BY <2>2, AliveMore
  <2>6. QED
    BY <2>2, <2>4, <2>5 DEF DataInv
<1>1. /\ queue \in Seq(Requests) /\ Rq("Reconnect") \in Requests
      /\ Rq("Reconnect").action = "Reconnect"
  BY RqType DEF Actions, Rq, RecorderInv, LoopInv, TypeOK
<1>2. Pending({"Quit"}) => Pending({"Quit"})'
  BY <1>1, PendingPush DEF Pending
<1>3. \A i \in 1 .. Len(queue) : queue[i].action = "ProcessData" => Alive(queue, Here, i)
  BY <1>2 DEF DataInv
<1>4. CASE queue' = queue
  BY <1>3, <1>4
<1>5. CASE Push(Rq("Reconnect"))
  BY <1>1, <1>3, <1>5, DataPushed
<1>6. QED
  BY <1>4, <1>5

LEMMA EventData ==
  ASSUME RecorderInv, DataInv, UNCHANGED tables, NEW c \in Conn,
         ReceiveSession(c) \/ ReceiveData(c) \/ ReceiveStatus(c) \/ ConnectionLost(c)
  PROVE  DataInv'
<1> USE DEF RecorderInv, LoopInv
<1>1. /\ c \in sources /\ UNCHANGED <<dbQueue, session, exited, orphaned, conn>>
  BY DEF ReceiveSession, ReceiveData, ReceiveStatus, ConnectionLost, Receive
<1>2. CASE ConnectionLost(c)
  <2>1. Push(Rq("Reconnect")) /\ Unregistered(c)
    BY <1>2 DEF ConnectionLost
  <2>2. ~orphaned => conn' \notin sources'
    BY <1>1, <2>1 DEF AttributionInv, LinkInv, Unregistered
  <2>3. UNCHANGED <<dbQueue, session, tables, exited, orphaned>>
    BY <1>1
  <2>4. QED
    BY <2>1, <2>2, <2>3, GoneData
<1>3. CASE ~ConnectionLost(c)
  <2> SUFFICES ASSUME ~exited', ~orphaned', ~Pending({"Quit"})' PROVE DataInv'
    BY DEF DataInv
  <2>1. PICK rq \in Requests :
          /\ Push(rq) /\ sources' = sources /\ rq.action # "Reconnect"
          /\ rq.action = "ProcessData" => peer[c].hash # NoHash
          /\ rq.action = "SetSession" \/ peer' = peer
    <3>1. PICK rq \in Requests : Push(rq) /\ rq.action \in {"SetSession", "ProcessData", "Status", "Reconnect"}
      BY EventPush
    <3>2. CASE ReceiveSession(c)
      <4>1. PICK h \in Hash, fit \in {TRUE, ~Strict} :
              Receive(c, [action |-> "SetSession", hash |-> h, fit |-> fit])
        BY <3>2 DEF ReceiveSession
      <4> DEFINE r == [action |-> "SetSession", hash |-> h, fit |-> fit]
      <4>2. r \in Requests /\ r.action = "SetSession"
        BY OptionAssumption DEF Requests, Actions, MaybeHash
      <4>3. QED
        BY <4>1, <4>2 DEF Receive
    <3>3. CASE ReceiveData(c)
      <4> DEFINE r == [action |-> "ProcessData", hash |-> peer[c].hash, fit |-> TRUE]
      <4>1. r \in Requests /\ r.action = "ProcessData"
        BY DEF Requests, Actions, TypeOK, Peers
      <4>2. QED
        BY <3>3, <4>1 DEF ReceiveData, Receive
    <3>4. CASE ReceiveStatus(c)
      <4>1. PICK fit \in BOOLEAN : Receive(c, [action |-> "Status", hash |-> NoHash, fit |-> fit])
        BY <3>4 DEF ReceiveStatus
      <4> DEFINE r == [action |-> "Status", hash |-> NoHash, fit |-> fit]
      <4>2. r \in Requests /\ r.action = "Status"
        BY DEF Requests, Actions, MaybeHash
      <4>3. QED
        BY <3>4, <4>1, <4>2 DEF ReceiveStatus, Receive
    <3>5. QED
      BY <1>3, <3>2, <3>3, <3>4
  <2>2. queue \in Seq(Requests)
    BY DEF TypeOK
  <2>3. Pending({"Quit"}) => Pending({"Quit"})'
    BY <2>1, <2>2, PendingPush
  <2>4. UNCHANGED <<dbQueue, session, tables>>
    BY <1>1
  <2>5. /\ (Here' <=> Here) /\ (DbHolds({"AddData"})' <=> DbHolds({"AddData"}))
        /\ (Row' <=> Row)
    BY <2>4, HereKept
  <2>6. c = conn
    BY <1>1 DEF AttributionInv, LinkInv
  <2>7. /\ \A i \in 1 .. Len(queue) : queue[i].action = "ProcessData" => Alive(queue, Here, i)
        /\ peer[conn].hash # NoHash => Alive(queue, Here, Len(queue) + 1)
        /\ DbHolds({"AddData"}) => Row
    BY <1>1, <2>3, <2>6 DEF DataInv
  <2>8. \A i \in 1 .. Len(queue') : queue'[i].action = "ProcessData" => Alive(queue', Here, i)
    BY <2>1, <2>2, <2>6, <2>7, DataPushed
  <2>9. peer'[conn'].hash # NoHash => Alive(queue', Here, Len(queue') + 1)
    BY <1>1, <2>1, <2>2, <2>7, DataPushed
  <2>10. \A i : Alive(queue', Here, i) => Alive(queue', Here', i)
    BY <2>5, AliveMore
  <2>11. QED
    BY <2>5, <2>7, <2>8, <2>9, <2>10 DEF DataInv
<1>4. QED
  BY <1>2, <1>3

LEMMA NextData ==
  ASSUME PushResults = {TRUE}, RecorderInv, DescribedInv, DataInv, [RecorderNext]_everything
  PROVE  DataInv'
<1>1. CASE \E d \in Device, init, removed \in BOOLEAN : Start(d, init, removed)
  <2>1. /\ queue' = <<Rq("PrepareData")>> /\ sources' = {}
        /\ dbQueue' = <<[action |-> "CheckDatabase", hash |-> NoHash]>>
    BY <1>1 DEF Start
  <2>2. \A i \in 1 .. Len(queue') : queue'[i].action # "ProcessData"
    BY <2>1 DEF Rq
  <2>3. ~DbHolds({"AddData"})'
    BY <2>1 DEF DbHolds
  <2>4. QED
    BY <2>1, <2>2, <2>3 DEF DataInv
<1>2. CASE Crash
  BY <1>2 DEF Crash, Exit, DataInv
<1>3. CASE RecorderDispatch
  BY <1>3, DispatchData
<1>4. CASE Store
  BY <1>4, StoreData
<1>5. ASSUME UNCHANGED tables, NEW c \in Conn,
             ReceiveSession(c) \/ ReceiveData(c) \/ ReceiveStatus(c) \/ ConnectionLost(c)
      PROVE  DataInv'
  BY <1>5, EventData
<1>6. ASSUME UNCHANGED <<queue, dbQueue, conn, sources, peer, orphaned, session, tables, exited>>
      PROVE  DataInv'
  <2>1. (Here' <=> Here) /\ (DbHolds({"AddData"})' <=> DbHolds({"AddData"})) /\ (Row' <=> Row)
    BY <1>6, HereKept
  <2>2. \A i : Alive(queue, Here, i) => Alive(queue, Here', i)
    BY <2>1, AliveMore
  <2>3. Pending({"Quit"})' <=> Pending({"Quit"})
    BY <1>6 DEF Pending
  <2>4. QED
    BY <1>6, <2>1, <2>2, <2>3 DEF DataInv
<1>7. CASE (SessionTimerExpires \/ InactivityTick) /\ UNCHANGED tables
  <2>1. UNCHANGED <<dbQueue, session, tables, exited>>
        /\ (UNCHANGED <<queue, link>> \/ DropConnection)
    BY <1>7 DEF SessionTimerExpires, InactivityTick
  <2>2. CASE UNCHANGED <<queue, link>>
    BY <1>6, <2>1, <2>2 DEF link
  <2>3. CASE DropConnection
    <3>1. /\ Unregistered(conn) /\ conn' \in Conn \ (sources \ {conn})
          /\ queue' = queue \/ Push(Rq("Reconnect"))
          /\ orphaned' = orphaned
      BY <2>3 DEF DropConnection, ResetConnection, RecorderInv, LoopInv, TypeOK
    <3>2. conn' \notin sources'
      BY <3>1 DEF Unregistered
    <3>3. UNCHANGED <<dbQueue, session, tables, exited, orphaned>>
      BY <2>1, <3>1
    <3>4. QED
      BY <3>1, <3>2, <3>3, GoneData
  <2>4. QED
    BY <2>1, <2>2, <2>3
<1>8. CASE UNCHANGED everything
  BY <1>6, <1>8 DEF everything, vars, loop, link
<1>9. QED
  BY <1>1, <1>2, <1>3, <1>4, <1>5, <1>7, <1>8 DEF RecorderNext, Event, Grant

-----------------------------------------------------------------------------
(* No other row of the run is open *)

\* Runs are numbered upwards.
RunsInv == \A i \in DOMAIN born : born[i].run <= run

\* A row this run inserted is open, or one is about to be inserted and not about to
\* be ended.
OpenOwn(s) == s.open /\ born[s.born].run = run
SomeOpen == \E s \in sessions : OpenOwn(s)
Unended == DbHolds({"AddSession"}) \/ (SomeOpen /\ ~DbHolds({"EndSession"}))

\* The current connection was granted a session.
Granting == conn \in sources /\ peer[conn].hash # NoHash

Settled == ~exited /\ ~orphaned /\ ~regranted /\ ~Pending({"Quit"})

\* The open row of the run is the last one inserted, the current session's, and the
\* program has not ended it in memory.
OpenInv ==
  Settled => \A s \in sessions : OpenOwn(s) =>
    /\ s.hash = session.hash /\ s.born = Len(born)
    /\ ~DbHolds({"AddSession"}) /\ ~session.ended

\* Between two sessions that wait, and before the first while one has not been ended,
\* the connection is replaced.
GrantInv ==
  Settled =>
    /\ Apart(queue, "SetSession")
    /\ Unended => Preceded(queue, "SetSession")
    /\ ~Granting => Followed(queue, "SetSession") /\ (Unended => Pending({"Reconnect"}))

\* What a step of the handlers does to the requests for rows.
LEMMA OtherHolds ==
  ASSUME PushResults = {TRUE}, TypeOK, dbServing, Other, ~Exit
  PROVE  /\ DbHolds({"AddSession"})' <=> DbHolds({"AddSession"})
         /\ DbHolds({"EndSession"}) => DbHolds({"EndSession"})'
         /\ session'.hash = session.hash /\ session'.ended = session.ended
<1>1. dbQueue \in Seq(DbRequests)
  BY DEF TypeOK
<1>2. ASSUME NEW r \in DbRequests, dbQueue' = Append(dbQueue, r), r.action # "AddSession"
      PROVE  /\ DbHolds({"AddSession"})' <=> DbHolds({"AddSession"})
             /\ DbHolds({"EndSession"}) => DbHolds({"EndSession"})'
  <2>1. /\ DbHolds({"AddSession"})' <=> DbHolds({"AddSession"}) \/ r.action \in {"AddSession"}
        /\ DbHolds({"EndSession"})' <=> DbHolds({"EndSession"}) \/ r.action \in {"EndSession"}
    BY <1>1, <1>2, DbHoldsAppend
  <2>2. QED
    BY <1>2, <2>1
<1>3. CASE PrepareData
  <2> DEFINE r == [action |-> "InitDatabase", hash |-> session.hash]
  <2>1. dbQueue' = Append(dbQueue, r) /\ session' = session
    BY <1>3, PreparePhase
  <2>2. r \in DbRequests /\ r.action # "AddSession"
    BY DEF DbRequests, DbActions, TypeOK
  <2> HIDE DEF r
  <2>3. QED
    BY <1>2, <2>1, <2>2
<1>4. CASE ~PrepareData
  <2>1. /\ DbPushed /\ session'.hash = session.hash /\ session'.ended = session.ended
    BY <1>4, OtherPushed
  <2>2. CASE dbQueue' = dbQueue
    BY <2>1, <2>2 DEF DbHolds
  <2>3. ASSUME NEW a \in {"EndSession", "AddData"},
               dbQueue' = Append(dbQueue, [action |-> a, hash |-> session.hash])
        PROVE  /\ DbHolds({"AddSession"})' <=> DbHolds({"AddSession"})
               /\ DbHolds({"EndSession"}) => DbHolds({"EndSession"})'
    <3> DEFINE r == [action |-> a, hash |-> session.hash]
    <3>1. r \in DbRequests /\ r.action # "AddSession"
      BY DEF DbRequests, DbActions, TypeOK
    <3> HIDE DEF r
    <3>2. dbQueue' = Append(dbQueue, r)
      BY <2>3 DEF r
    <3>3. QED
      BY <1>2, <3>1, <3>2
  <2>4. QED
    BY <2>1, <2>2, <2>3 DEF DbPushed
<1>5. QED
  BY <1>3, <1>4

LEMMA RunsKept ==
  ASSUME RecorderInv, RunsInv, [RecorderNext]_everything
  PROVE  RunsInv'
<1>1. run \in Nat /\ born \in Seq(T!Births) /\ \A i \in DOMAIN born : born[i].run \in Nat
  <2>1. run \in Nat /\ born \in Seq(T!Births)
    BY DEF RecorderInv, T!TablesInv, T!TypeInv, T!TypeOK
  <2>2. \A i \in DOMAIN born : born[i] \in T!Births
    BY <2>1
  <2>3. \A b \in T!Births : b.run \in Nat
    BY DEF T!Births
  <2>4. QED
    BY <2>1, <2>2, <2>3
<1>2. CASE \E d \in Device, init, removed \in BOOLEAN : Start(d, init, removed)
  <2>1. born' = born /\ run' = run + 1
    BY <1>2 DEF Start, DB!StartProgram
  <2>2. QED
    BY <1>1, <2>1 DEF RunsInv
<1>3. CASE born' = born /\ run' = run
  BY <1>3 DEF RunsInv
<1>4. CASE Crash \/ RecorderDispatch
  BY <1>3, <1>4, TakesIs DEF Crash, DB!StopProgram, DB!file
<1>5. CASE T!AddSession
  <2>1. /\ \A i \in DOMAIN born : born'[i] = born[i]
        /\ \A i \in DOMAIN born' : i \in DOMAIN born \/ i = Len(born')
        /\ born'[Len(born')].run = run /\ run' = run
    BY <1>5, InsertedIs
  <2>2. QED
    BY <1>1, <2>1 DEF RunsInv
<1>6. CASE Store
  BY <1>3, <1>5, <1>6, SameHandlers DEF Store, tables, DB!InitDatabase, DB!AddDevice,
     DB!EndSession, DB!AddData, DB!process
<1>7. CASE UNCHANGED tables
  BY <1>3, <1>7 DEF tables
<1>8. QED
  BY <1>2, <1>4, <1>6, <1>7 DEF RecorderNext, everything

\* No row is of a run that starts.
LEMMA StartOpen ==
  ASSUME RecorderInv, RunsInv, NEW d, NEW init, NEW removed, Start(d, init, removed)
  PROVE  ~SomeOpen'
<1>1. run \in Nat /\ \A s \in sessions : s.born \in DOMAIN born /\ born[s.born].run <= run
      /\ born[s.born].run \in Nat
  <2>1. run \in Nat /\ born \in Seq(T!Births) /\ \A s \in sessions : s.born \in DOMAIN born
    BY DEF RecorderInv, T!TablesInv, T!TypeInv, T!TypeOK, T!Known
  <2>2. \A i \in DOMAIN born : born[i] \in T!Births
    BY <2>1
  <2>3. \A b \in T!Births : b.run \in Nat
    BY DEF T!Births
  <2>4. QED
    BY <2>1, <2>2, <2>3 DEF RunsInv
<1>2. born' = born /\ run' = run + 1 /\ (sessions' = {} \/ sessions' = sessions)
  BY DEF Start, DB!StartProgram
<1>3. QED
  BY <1>1, <1>2 DEF SomeOpen, OpenOwn

\* Rows as they were, at most fewer.
LEMMA RowsOpen ==
  ASSUME NEW t, t \in sessions', sessions' = {} \/ sessions' = sessions, UNCHANGED <<born, run>>
  PROVE  t \in sessions /\ (OpenOwn(t)' <=> OpenOwn(t))
  BY DEF OpenOwn

\* What a database request leaves open was there, or is the row that AddSession inserts.
LEMMA StoreOpen ==
  ASSUME RecorderInv, OpenInv, Store, UNCHANGED regranted
  PROVE  OpenInv' /\ (Settled' => (Unended' => Unended))
<1> USE DEF RecorderInv, LoopInv
<1>1. DbStep
  BY DEF Store, DbStep
<1>2. /\ UNCHANGED <<queue, conn, sources, peer, orphaned, exited>>
      /\ session'.hash = session.hash
      /\ \A A : DbHolds(A) <=> Head(dbQueue).action \in A
      /\ \A A : DbHolds(A)' => "AddDevice" \in A
  BY <1>1, StoreIs
<1>3. ~DbHolds({"AddData"})' /\ ~DbHolds({"EndSession"})' /\ ~DbHolds({"AddSession"})'
  BY <1>2
<1> SUFFICES ASSUME Settled'
             PROVE  /\ \A t \in sessions' : OpenOwn(t)' =>
                         t.hash = session.hash /\ t.born = Len(born') /\ ~session'.ended
                    /\ SomeOpen' => Unended
  BY <1>2, <1>3 DEF OpenInv, Unended
<1>4. Settled
  BY <1>2 DEF Settled, Pending
<1>5. \A s \in sessions : OpenOwn(s) =>
        /\ s.hash = session.hash /\ s.born = Len(born)
        /\ ~DbHolds({"AddSession"}) /\ ~session.ended
  BY <1>4 DEF OpenInv
<1>6. CASE CheckDatabase \/ InitDatabase \/ AddDevice \/ AddData
  <2>1. /\ sessions' = {} \/ sessions' = sessions
        /\ UNCHANGED <<born, run, session>>
    <3>1. CASE CheckDatabase
      BY <3>1 DEF Store, tables, CheckDatabase, InitDatabase, AddDevice, AddSession, EndSession,
         AddData, DbHandles
    <3>2. CASE InitDatabase
      <4>1. T!InitDatabase /\ session' = session
        BY <3>2, SameHandlers DEF Store, CheckDatabase, InitDatabase, AddDevice, AddSession,
           EndSession, AddData, DbHandles
      <4>2. QED
        BY <4>1, T!InitDatabaseIs, HashAssumption, OptionAssumption, RecorderAssumption
    <3>3. CASE AddDevice \/ AddData
      BY <3>3 DEF Store, tables, CheckDatabase, InitDatabase, AddDevice, AddSession, EndSession,
         AddData, DbHandles, DB!AddDevice, DB!AddData, DB!process
    <3>4. QED
      BY <1>6, <3>1, <3>2, <3>3
  <2>2. \A t \in sessions' : t \in sessions /\ (OpenOwn(t)' <=> OpenOwn(t))
    BY <2>1, RowsOpen
  <2>3. Head(dbQueue).action # "EndSession"
    BY <1>6 DEF CheckDatabase, InitDatabase, AddDevice, AddData, DbHandles
  <2>4. SomeOpen' => SomeOpen
    BY <2>2 DEF SomeOpen
  <2>5. QED
    BY <1>2, <1>5, <2>1, <2>2, <2>3, <2>4 DEF Unended
<1>7. CASE AddSession
  <2>1. T!AddSession /\ Head(dbQueue).action = "AddSession"
    BY <1>7, SameHandlers DEF Store, CheckDatabase, InitDatabase, AddDevice, AddSession,
       EndSession, AddData, DbHandles
  <2>2. DbHolds({"AddSession"}) /\ Unended
    BY <1>2, <2>1 DEF Unended
  <2>3. session'.ended = FALSE
    BY <2>1, T!AddSessionIs, HashAssumption, OptionAssumption, RecorderAssumption
    DEF T!TablesInv
  <2>4. PICK r \in sessions' :
          /\ r.open /\ r.hash = session.hash /\ r.born = Len(born')
          /\ sessions' = {s \in sessions : s.hash # session.hash} \cup {r}
          /\ \A i \in DOMAIN born : born'[i] = born[i]
          /\ run' = run
    BY <2>1, InsertedIs
  <2>5. \A s \in sessions : s.born \in DOMAIN born
    BY DEF T!TablesInv, T!Known
  <2>6. \A t \in sessions' : t = r \/ (t \in sessions /\ (OpenOwn(t)' <=> OpenOwn(t)))
    BY <2>4, <2>5 DEF OpenOwn
  <2>7. \A t \in sessions' : OpenOwn(t)' => t = r
    BY <1>5, <2>2, <2>6
  <2>8. QED
    BY <2>2, <2>3, <2>4, <2>7
<1>8. CASE EndSession
  <2>1. T!EndSession
    BY <1>8, SameHandlers DEF Store, CheckDatabase, InitDatabase, AddDevice, AddSession,
       EndSession, AddData, DbHandles
  <2>2. sessions' = T!Stamped(sessions, session.hash) /\ UNCHANGED <<born, run>>
    BY <2>1, T!EndSessionIs, HashAssumption, OptionAssumption, RecorderAssumption
    DEF T!TablesInv
  <2>3. sessions \in SUBSET T!SessionRows
    BY DEF T!TablesInv, T!TypeInv, T!TypeOK
  <2>4. \A t \in T!Stamped(sessions, session.hash) : \E s \in sessions :
          /\ t.hash = s.hash /\ t.born = s.born
          /\ t.open = (s.open /\ s.hash # session.hash)
    BY <2>3, T!StampedIs, HashAssumption, OptionAssumption, RecorderAssumption
  <2>5. ASSUME NEW t \in sessions', OpenOwn(t)' PROVE FALSE
    <3>1. PICK s \in sessions :
            t.hash = s.hash /\ t.born = s.born /\ t.open = (s.open /\ s.hash # session.hash)
      BY <2>2, <2>4
    <3>2. s.open /\ s.hash # session.hash /\ OpenOwn(s)
      BY <2>2, <2>5, <3>1 DEF OpenOwn
    <3>3. QED
      BY <1>5, <3>2
  <2>6. QED
    BY <2>5 DEF SomeOpen
<1>9. QED
  BY <1>1, <1>6, <1>7, <1>8 DEF DbStep

\* The dispatcher's step before which nothing is owed to the database leaves rows alone.
LEMMA DispatchOpen ==
  ASSUME PushResults = {TRUE}, RecorderInv, OpenInv, GrantInv, RecorderDispatch,
         UNCHANGED regranted
  PROVE  /\ OpenInv'
         /\ Settled' /\ ~Exit => /\ Settled
                                 /\ Head(queue).action # "SetSession" => (Unended' => Unended)
<1> USE DEF RecorderInv, LoopInv
<1>1. Dispatch /\ UNCHANGED <<sessions, born, run>>
  BY TakesIs
<1>2. (SomeOpen' <=> SomeOpen) /\ \A s : OpenOwn(s)' <=> OpenOwn(s)
  BY <1>1 DEF SomeOpen, OpenOwn
<1>3. CASE Exit
  BY <1>3 DEF Exit, OpenInv, Settled
<1>4. ASSUME ~Exit, Settled'
      PROVE  /\ Settled
             /\ \A s \in sessions' : OpenOwn(s)' =>
                  /\ s.hash = session'.hash /\ s.born = Len(born')
                  /\ ~DbHolds({"AddSession"})' /\ ~session'.ended
             /\ Head(queue).action # "SetSession" => (Unended' => Unended)
  <2>1. /\ Settled /\ queue \in Seq(Requests) /\ queue # <<>> /\ dbServing
    BY <1>1, <1>4, TurnIs DEF Settled
  <2>2. \A s \in sessions : OpenOwn(s) =>
          /\ s.hash = session.hash /\ s.born = Len(born)
          /\ ~DbHolds({"AddSession"}) /\ ~session.ended
    BY <2>1 DEF OpenInv
  <2>3. CASE Other
    <3>1. /\ DbHolds({"AddSession"})' <=> DbHolds({"AddSession"})
          /\ DbHolds({"EndSession"}) => DbHolds({"EndSession"})'
          /\ session'.hash = session.hash /\ session'.ended = session.ended
      BY <1>4, <2>1, <2>3, OtherHolds
    <3>2. Unended' => Unended
      BY <1>2, <3>1 DEF Unended
    <3>3. QED
      BY <1>1, <1>2, <2>1, <2>2, <3>1, <3>2
  <2>4. CASE TakeSession
    <3>1. Head(queue).action = "SetSession"
      BY <2>4 DEF TakeSession, SetSession, Turn
    <3>2. dbQueue = <<>>
      BY <1>1, <2>1, <3>1, EmptyAtTurn DEF Starting
    <3>3. ~DbHolds({"EndSession"})
      BY <3>2 DEF DbHolds
    <3>4. ~Unended
      <4> SUFFICES ASSUME Unended PROVE FALSE
        OBVIOUS
      <4>1. Preceded(queue, "SetSession")
        BY <2>1 DEF GrantInv
      <4>2. 1 \in 1 .. Len(queue) /\ queue[1].action = "SetSession"
        BY <2>1, <3>1
      <4>3. \E j \in 1 .. 1 - 1 : queue[j].action = "Reconnect"
        BY <4>1, <4>2 DEF Preceded
      <4>4. QED
        BY <4>3
    <3>5. ~SomeOpen
      BY <3>3, <3>4 DEF Unended
    <3>6. QED
      BY <1>1, <1>2, <2>1, <3>1, <3>5 DEF SomeOpen
  <2>5. QED
    BY <2>3, <2>4 DEF RecorderDispatch
<1>5. QED
  BY <1>3, <1>4 DEF OpenInv

\* No session waits and nothing is to be ended.
LEMMA NoGrant ==
  ASSUME \A i \in 1 .. Len(queue') : queue'[i].action # "SetSession", ~Unended'
  PROVE  GrantInv'
  BY DEF GrantInv, Apart, Followed, Preceded

LEMMA DispatchGrant ==
  ASSUME PushResults = {TRUE}, RecorderInv, OpenInv, GrantInv, RecorderDispatch,
         UNCHANGED regranted
  PROVE  GrantInv'
<1> USE DEF RecorderInv, LoopInv
<1> DEFINE a == Head(queue).action
           A == "SetSession"
<1>1. CASE Exit
  BY <1>1 DEF Exit, GrantInv, Settled
<1>2. ASSUME ~Exit PROVE GrantInv'
  <2> SUFFICES ASSUME Settled' PROVE GrantInv'
    BY DEF GrantInv
  <2>1. /\ Settled /\ Dispatch /\ queue \in Seq(Requests) /\ queue # <<>> /\ dbServing
        /\ a # "SetSession" => (Unended' => Unended)
        /\ UNCHANGED <<sessions, born, run>> /\ ~orphaned' /\ ~exited' /\ ~Pending({"Quit"})'
    BY <1>2, TakesIs, DispatchOpen, TurnIs DEF Settled
  <2>2. /\ Apart(queue, A)
        /\ Unended => Preceded(queue, A)
        /\ ~Granting => Followed(queue, A) /\ (Unended => Pending({"Reconnect"}))
    BY <2>1 DEF GrantInv
  <2>3. A # "Reconnect" /\ {"SendDescriptor", "Reconnect", "RequestSession"} \subseteq Actions \ {A}
    BY DEF Actions
  <2>4. CASE a \in Starting
    <3>1. Len(queue) = 1 /\ sources = {}
      BY <2>1, <2>4, HeadPending DEF DbDiscipline, Booting
    <3>2. ~Unended
      <4>1. ~Pending({"Reconnect"})
        BY <2>1, <2>4, <3>1, HeadAtStart DEF Starting
      <4>2. QED
        BY <2>2, <3>1, <4>1 DEF Granting
    <3>3. \A i \in 1 .. Len(queue') : queue'[i].action # "SetSession"
      <4>1. /\ queue' \in Seq(Requests)
            /\ \A k \in Len(queue) .. Len(queue') : queue'[k].action \in Quiet
        BY <1>2, <2>1, DispatchHandled, HandledQueue
      <4>2. QED
        BY <3>1, <4>1 DEF Quiet
    <3>4. QED
      BY <2>1, <2>4, <3>2, <3>3, NoGrant DEF Starting
  <2>5. CASE \E up \in BOOLEAN : Reconnect(up)
    <3>1. /\ conn \notin sources /\ peer'[conn'] = Idle /\ a = "Reconnect"
          /\ Then(<<Rq("SendDescriptor")>>) \/ Then(<<Rq("Reconnect")>>)
      BY <2>1, <2>5, AttemptIs DEF Reconnect, Turn
    <3>2. Followed(queue, A)
      BY <2>2, <3>1 DEF Granting
    <3>3. Apart(queue, A)' /\ Followed(queue, A)'
      BY <2>1, <2>2, <2>3, <3>1, <3>2, HandledBehind
    <3>4. ~Unended'
      <4>1. dbQueue = <<>>
        BY <2>1, <3>1, EmptyAtTurn DEF Starting
      <4>2. PICK up \in BOOLEAN : Reconnect(up)
        BY <2>5
      <4>3. CASE session.hash # NoHash /\ ~session.ended
        <5>1. DbPush("EndSession", session.hash, TRUE)
          BY <4>2, <4>3, DatabaseAssumption DEF Reconnect
        <5>2. \A B : DbHolds(B)' <=> "EndSession" \in B
          BY <2>1, <4>1, <5>1, DbPushIs
        <5>3. QED
          BY <5>2 DEF Unended
      <4>4. CASE ~(session.hash # NoHash /\ ~session.ended)
        <5>1. ~SomeOpen
          <6>1. \A s \in sessions : s.hash \in Hash
            BY DEF T!TablesInv, T!TypeInv, T!TypeOK, T!SessionRows
          <6>2. QED
            BY <2>1, <4>4, <6>1, HashAssumption DEF OpenInv, SomeOpen
        <5>2. ~Unended
          BY <4>1, <5>1 DEF Unended, DbHolds
        <5>3. QED
          BY <2>1, <3>1, <5>2
      <4>5. QED
        BY <4>3, <4>4
    <3>5. QED
      BY <3>3, <3>4 DEF GrantInv
  <2>6. CASE SendDescriptor
    <3>1. /\ a = "SendDescriptor" /\ UNCHANGED <<conn, sources>>
          /\ Then(<<Rq("RequestSession")>>) \/ Then(<<Rq("Reconnect")>>)
          /\ peer' = peer \/ peer' = [peer EXCEPT ![conn].described = TRUE]
      BY <2>6 DEF SendDescriptor, Turn
    <3>2. peer \in [Conn -> [described: BOOLEAN, asked: Nat, hash: MaybeHash]] /\ conn \in Conn
      BY DEF TypeOK, Peers
    <3>3. peer'[conn].hash = peer[conn].hash
      BY <3>1, <3>2
    <3>4. Granting' <=> Granting
      BY <3>1, <3>3 DEF Granting
    <3>5. /\ Apart(queue, A)' /\ (Preceded(queue, A) => Preceded(queue, A)')
          /\ Followed(queue, A) => Followed(queue, A)'
      BY <2>1, <2>2, <2>3, <3>1, HandledBehind
    <3>6. Pending({"Reconnect"}) => Pending({"Reconnect"})'
      <4>1. <<Rq("RequestSession")>> \in Seq(Requests) /\ <<Rq("Reconnect")>> \in Seq(Requests)
        BY RqType DEF Actions
      <4>2. QED
        BY <2>1, <3>1, <4>1, PendingKept
    <3>7. QED
      BY <2>1, <2>2, <3>1, <3>4, <3>5, <3>6 DEF GrantInv
  <2>7. CASE a \notin {"PrepareData", "Connect", "Reconnect", "SendDescriptor"}
    <3>1. /\ UNCHANGED <<conn, sources>> /\ peer'[conn].hash = peer[conn].hash
          /\ \E b \in Actions \ {"SendDescriptor", A, "Reconnect"} :
               Then(<<>>) \/ Then(<<Rq(b)>>)
      BY <1>2, <2>1, <2>7, LinkKept
    <3>2. PICK b \in Actions \ {"SendDescriptor", A, "Reconnect"} : Then(<<>>) \/ Then(<<Rq(b)>>)
      BY <3>1
    <3>3. Granting' <=> Granting
      BY <3>1 DEF Granting
    <3>4. /\ Apart(queue, A)' /\ (Preceded(queue, A) => Preceded(queue, A)')
          /\ Followed(queue, A) => Followed(queue, A)'
          /\ a = A => Preceded(queue, A)'
      BY <2>1, <2>2, <2>3, <2>7, <3>2, HandledBehind
    <3>5. Pending({"Reconnect"}) => Pending({"Reconnect"})'
      <4>1. <<>> \in Seq(Requests) /\ <<Rq(b)>> \in Seq(Requests)
        BY RqType
      <4>2. QED
        BY <2>1, <2>7, <3>2, <4>1, PendingKept
    <3>6. CASE a = A
      <4>1. Followed(queue, A) => Pending({"Reconnect"})'
        BY <2>1, <2>3, <3>2, <3>6, FollowedPending
      <4>2. QED
        BY <2>2, <3>3, <3>4, <3>6, <4>1 DEF GrantInv
    <3>7. CASE a # A
      BY <2>1, <2>2, <3>3, <3>4, <3>5, <3>7 DEF GrantInv
    <3>8. QED
      BY <3>6, <3>7
  <2>8. QED
    BY <1>2, <2>1, <2>4, <2>5, <2>6, <2>7
    DEF Dispatch, PrepareData, Connect, Throw, RequestSession, SetSession, StartStream,
        ProcessData, Status, Quit, Turn, Starting
<1>3. QED
  BY <1>1, <1>2

\* Sockets and timers leave rows, and what is owed to them, alone.
LEMMA QuietOpen ==
  ASSUME OpenInv, UNCHANGED <<dbQueue, session, tables>>, Settled' => Settled
  PROVE  OpenInv' /\ (Unended' <=> Unended)
<1>1. \A B : DbHolds(B)' <=> DbHolds(B)
  BY DEF DbHolds
<1>2. (SomeOpen' <=> SomeOpen) /\ \A s : OpenOwn(s)' <=> OpenOwn(s)
  BY DEF tables, SomeOpen, OpenOwn
<1>3. Unended' <=> Unended
  BY <1>1, <1>2 DEF Unended
<1>4. OpenInv'
  BY <1>1, <1>2 DEF OpenInv, tables
<1>5. QED
  BY <1>3, <1>4

LEMMA SettledBefore ==
  ASSUME TypeOK, queue' = queue \/ \E rq \in Requests : Push(rq),
         UNCHANGED <<exited, orphaned>>, regranted => regranted', Settled'
  PROVE  Settled
<1>1. queue \in Seq(Requests)
  BY DEF TypeOK
<1>2. Pending({"Quit"}) => Pending({"Quit"})'
  BY <1>1, PendingPush DEF Pending
<1>3. QED
  BY <1>2 DEF Settled

\* The connection goes away, and will be replaced.
LEMMA GoneGrant ==
  ASSUME TypeOK, GrantInv, Settled' => Settled, Unended' <=> Unended,
         Push(Rq("Reconnect")) \/ (queue' = queue /\ ~Granting), Settled' => ~Granting'
  PROVE  GrantInv'
<1> SUFFICES ASSUME Settled' PROVE GrantInv'
  BY DEF GrantInv
<1>1. /\ queue \in Seq(Requests) /\ Rq("Reconnect") \in Requests
      /\ Rq("Reconnect").action = "Reconnect" /\ "SetSession" # "Reconnect"
  BY RqType DEF Actions, Rq, TypeOK
<1>2. /\ Apart(queue, "SetSession")
      /\ Unended => Preceded(queue, "SetSession")
      /\ ~Granting => Followed(queue, "SetSession") /\ (Unended => Pending({"Reconnect"}))
  BY DEF GrantInv
<1>3. CASE Push(Rq("Reconnect"))
  <2>1. /\ Apart(queue, "SetSession")' /\ Followed(queue, "SetSession")'
        /\ Preceded(queue, "SetSession") => Preceded(queue, "SetSession")'
    BY <1>1, <1>2, <1>3, PushedBehind
  <2>2. Pending({"Reconnect"})'
    BY <1>1, <1>3, PendingPush
  <2>3. QED
    BY <1>2, <2>1, <2>2 DEF GrantInv
<1>4. CASE queue' = queue /\ ~Granting
  <2>1. Pending({"Reconnect"})' <=> Pending({"Reconnect"})
    BY <1>4 DEF Pending
  <2>2. QED
    BY <1>2, <1>4, <2>1 DEF GrantInv
<1>5. QED
  BY <1>3, <1>4

LEMMA EventGrant ==
  ASSUME RecorderInv, OpenInv, GrantInv, UNCHANGED tables, NEW c \in Conn,
         Grant(c) \/ ((ReceiveData(c) \/ ReceiveStatus(c) \/ ConnectionLost(c)) /\ UNCHANGED regranted)
  PROVE  OpenInv' /\ GrantInv'
<1> USE DEF RecorderInv, LoopInv
<1>1. ReceiveSession(c) \/ ReceiveData(c) \/ ReceiveStatus(c) \/ ConnectionLost(c)
  BY DEF Grant
<1>2. /\ c \in sources /\ UNCHANGED <<dbQueue, session, exited, orphaned, conn>>
      /\ regranted => regranted'
  <2>1. c \in sources /\ UNCHANGED <<dbQueue, session, exited, orphaned, conn>>
    BY <1>1 DEF ReceiveSession, ReceiveData, ReceiveStatus, ConnectionLost, Receive
  <2>2. regranted => regranted'
    BY Zenon DEF Grant
  <2>3. QED
    BY <2>1, <2>2
<1>3. PICK rq \in Requests :
        Push(rq) /\ rq.action \in {"SetSession", "ProcessData", "Status", "Reconnect"}
  BY <1>1, EventPush
<1>4. Settled' => Settled
  BY <1>2, <1>3, SettledBefore
<1>5. OpenInv' /\ (Unended' <=> Unended)
  <2>1. UNCHANGED <<dbQueue, session, tables>>
    BY <1>2
  <2>2. QED
    BY <1>4, <2>1, QuietOpen
<1>6. GrantInv'
  <2> SUFFICES ASSUME Settled' PROVE GrantInv'
    BY DEF GrantInv
  <2>1. c = conn
    BY <1>2, <1>4 DEF AttributionInv, LinkInv, Settled
  <2>2. /\ Apart(queue, "SetSession")
        /\ Unended => Preceded(queue, "SetSession")
        /\ ~Granting => Followed(queue, "SetSession") /\ (Unended => Pending({"Reconnect"}))
    BY <1>4 DEF GrantInv
  <2>3. queue \in Seq(Requests) /\ "SetSession" # "Reconnect"
    BY DEF TypeOK
  <2>4. CASE ConnectionLost(c)
    <3>1. Push(Rq("Reconnect")) /\ Unregistered(c)
      BY <2>4 DEF ConnectionLost
    <3>2. ~Granting'
      BY <1>2, <2>1, <3>1 DEF Granting, Unregistered
    <3>3. QED
      BY <1>4, <1>5, <3>1, <3>2, GoneGrant
  <2>5. CASE ReceiveData(c) \/ ReceiveStatus(c)
    <3>1. PICK r \in Requests : /\ Push(r) /\ r.action \notin {"SetSession", "Reconnect"}
                                /\ UNCHANGED <<sources, peer>>
      <4>1. CASE ReceiveData(c)
        <5> DEFINE r == [action |-> "ProcessData", hash |-> peer[c].hash, fit |-> TRUE]
        <5>1. r \in Requests /\ r.action = "ProcessData"
          BY DEF Requests, Actions, TypeOK, Peers
        <5>2. QED
          BY <4>1, <5>1 DEF ReceiveData, Receive
      <4>2. CASE ReceiveStatus(c)
        <5>1. PICK fit \in BOOLEAN : Receive(c, [action |-> "Status", hash |-> NoHash, fit |-> fit])
          BY <4>2 DEF ReceiveStatus
        <5> DEFINE r == [action |-> "Status", hash |-> NoHash, fit |-> fit]
        <5>2. r \in Requests /\ r.action = "Status"
          BY DEF Requests, Actions, MaybeHash
        <5>3. QED
          BY <4>2, <5>1, <5>2 DEF ReceiveStatus, Receive
      <4>3. QED
        BY <2>5, <4>1, <4>2
    <3>2. /\ Apart(queue, "SetSession")'
          /\ Followed(queue, "SetSession") => Followed(queue, "SetSession")'
          /\ Preceded(queue, "SetSession") => Preceded(queue, "SetSession")'
      BY <2>2, <2>3, <3>1, PushedBehind
    <3>3. Pending({"Reconnect"}) => Pending({"Reconnect"})'
      BY <2>3, <3>1, PendingPush
    <3>4. Granting' <=> Granting
      BY <1>2, <3>1 DEF Granting
    <3>5. QED
      BY <1>5, <2>2, <3>2, <3>3, <3>4 DEF GrantInv
  <2>6. CASE Grant(c)
    <3>1. ReceiveSession(c) /\ peer[c].hash = NoHash
      BY <2>6 DEF Grant, Settled
    <3>2. PICK h \in Hash, fit \in {TRUE, ~Strict} :
            /\ Receive(c, [action |-> "SetSession", hash |-> h, fit |-> fit])
            /\ peer' = [peer EXCEPT ![c].asked = @ - 1, ![c].hash = h]
      BY <3>1 DEF ReceiveSession
    <3> DEFINE r == [action |-> "SetSession", hash |-> h, fit |-> fit]
    <3>3. r \in Requests
      BY OptionAssumption DEF Requests, Actions, MaybeHash
    <3>4. Push(r) /\ sources' = sources
      BY <3>2 DEF Receive
    <3>5. ~Granting
      BY <2>1, <3>1 DEF Granting
    <3>6. Granting'
      <4>1. peer \in [Conn -> [described: BOOLEAN, asked: Nat, hash: MaybeHash]]
        BY DEF TypeOK, Peers
      <4>2. peer'[c].hash = h
        BY <3>2, <4>1
      <4>3. QED
        BY <1>2, <2>1, <3>4, <4>2, HashAssumption DEF Granting
    <3> HIDE DEF r
    <3>7. /\ Apart(queue, "SetSession")'
          /\ Preceded(queue, "SetSession") /\ Pending({"Reconnect"})
               => Preceded(queue, "SetSession")'
      BY <2>2, <2>3, <3>3, <3>4, <3>5, PushedBehind
    <3>8. QED
      BY <1>5, <2>2, <3>5, <3>6, <3>7 DEF GrantInv
  <2>7. QED
    BY <2>4, <2>5, <2>6
<1>7. QED
  BY <1>5, <1>6

LEMMA NextOpen ==
  ASSUME PushResults = {TRUE}, RecorderInv, RunsInv, OpenInv, GrantInv,
         [RecorderNext]_everything
  PROVE  OpenInv' /\ GrantInv'
<1> USE DEF RecorderInv, LoopInv
<1>1. CASE \E d \in Device, init, removed \in BOOLEAN : Start(d, init, removed)
  <2>1. ~SomeOpen'
    BY <1>1, StartOpen
  <2>2. /\ queue' = <<Rq("PrepareData")>>
        /\ dbQueue' = <<[action |-> "CheckDatabase", hash |-> NoHash]>>
    BY <1>1 DEF Start
  <2>3. \A i \in 1 .. Len(queue') : queue'[i].action # "SetSession"
    BY <2>2 DEF Rq
  <2>4. ~Unended'
    BY <2>1, <2>2 DEF Unended, DbHolds
  <2>5. QED
    BY <2>1, <2>3, <2>4, NoGrant DEF OpenInv, SomeOpen
<1>2. CASE Crash
  BY <1>2 DEF Crash, Exit, OpenInv, GrantInv, Settled
<1>3. CASE RecorderDispatch /\ UNCHANGED regranted
  BY <1>3, DispatchOpen, DispatchGrant
<1>4. CASE Store /\ UNCHANGED regranted
  <2>1. OpenInv' /\ (Settled' => (Unended' => Unended))
    BY <1>4, StoreOpen
  <2>2. UNCHANGED <<queue, conn, sources, peer, orphaned, exited>>
    BY <1>4, StoreIs DEF Store, DbStep
  <2>3. /\ Settled' => Settled
        /\ Pending({"Reconnect"})' <=> Pending({"Reconnect"})
        /\ Granting' <=> Granting
    BY <1>4, <2>2 DEF Settled, Pending, Granting
  <2>4. GrantInv'
    BY <2>1, <2>2, <2>3 DEF GrantInv
  <2>5. QED
    BY <2>1, <2>4
<1>5. ASSUME UNCHANGED tables, NEW c \in Conn,
             Grant(c) \/ ((ReceiveData(c) \/ ReceiveStatus(c) \/ ConnectionLost(c))
                          /\ UNCHANGED regranted)
      PROVE  OpenInv' /\ GrantInv'
  BY <1>5, EventGrant
<1>6. ASSUME UNCHANGED <<queue, dbQueue, conn, sources, peer, orphaned, session, tables, exited,
                         regranted>>
      PROVE  OpenInv' /\ GrantInv'
  <2>1. /\ Settled' => Settled
        /\ Pending({"Reconnect"})' <=> Pending({"Reconnect"})
        /\ Granting' <=> Granting
    BY <1>6 DEF Settled, Pending, Granting
  <2>2. UNCHANGED <<dbQueue, session, tables>>
    BY <1>6
  <2>3. OpenInv' /\ (Unended' <=> Unended)
    BY <2>1, <2>2, QuietOpen
  <2>4. GrantInv'
    BY <1>6, <2>1, <2>3 DEF GrantInv
  <2>5. QED
    BY <2>3, <2>4
<1>7. CASE (SessionTimerExpires \/ InactivityTick) /\ UNCHANGED <<tables, regranted>>
  <2>1. UNCHANGED <<dbQueue, session, tables, exited, regranted>>
        /\ (UNCHANGED <<queue, link>> \/ DropConnection)
    BY <1>7 DEF SessionTimerExpires, InactivityTick
  <2>2. CASE UNCHANGED <<queue, link>>
    BY <1>6, <2>1, <2>2 DEF link
  <2>3. CASE DropConnection
    <3>1. /\ Unregistered(conn) /\ conn' \in Conn \ (sources \ {conn})
          /\ IF conn \in sources THEN Push(Rq("Reconnect")) ELSE UNCHANGED queue
          /\ orphaned' = orphaned
      BY <2>3 DEF DropConnection, ResetConnection, TypeOK
    <3>2. ~Granting' /\ (Push(Rq("Reconnect")) \/ (queue' = queue /\ ~Granting))
      BY <3>1 DEF Unregistered, Granting
    <3>3. Rq("Reconnect") \in Requests
      BY RqType DEF Actions
    <3>4. UNCHANGED <<exited, orphaned>> /\ UNCHANGED <<dbQueue, session, tables>>
      BY <2>1, <3>1
    <3>5. Settled' => Settled
      BY <2>1, <3>2, <3>3, <3>4, SettledBefore
    <3>6. OpenInv' /\ (Unended' <=> Unended)
      BY <3>4, <3>5, QuietOpen
    <3>7. QED
      BY <3>2, <3>5, <3>6, GoneGrant
  <2>4. QED
    BY <2>1, <2>2, <2>3
<1>8. CASE UNCHANGED everything
  BY <1>6, <1>8 DEF everything, vars, loop, link
<1>9. QED
  BY <1>1, <1>2, <1>3, <1>4, <1>5, <1>7, <1>8 DEF RecorderNext, Event

-----------------------------------------------------------------------------
(* Requests meet the tables *)

\* The start asks for nothing but the file; what is asked for a session finds one,
\* and the end is asked for before the session has ended.
AskedInv ==
  ~exited =>
    /\ Pending({"PrepareData"}) => ~DbHolds(DbActions \ {"CheckDatabase"})
    /\ DbHolds({"AddSession", "EndSession", "AddData"}) => session.hash # NoHash
    /\ DbHolds({"EndSession"}) => ~session.ended

\* A callback that finds the database queue empty and pushes at most one request.
LEMMA PushedAsked ==
  ASSUME dbQueue = <<>>, dbServing, ~Pending({"PrepareData"})',
         \/ NoDbPush
         \/ DbPush("AddSession", session'.hash, TRUE) /\ session'.hash # NoHash
         \/ DbPush("AddData", session'.hash, TRUE) /\ session'.hash # NoHash
         \/ DbPush("EndSession", session'.hash, TRUE) /\ session'.hash # NoHash /\ ~session'.ended
  PROVE  AskedInv'
<1>1. CASE NoDbPush
  <2>1. \A A : ~DbHolds(A)'
    BY <1>1, DbPushIs
  <2>2. QED
    BY <2>1 DEF AskedInv
<1>2. CASE DbPush("AddSession", session'.hash, TRUE) /\ session'.hash # NoHash
  <2>1. \A A : DbHolds(A)' <=> "AddSession" \in A
    BY <1>2, DbPushIs
  <2>2. ~DbHolds({"EndSession"})'
    BY <2>1
  <2>3. QED
    BY <1>2, <2>2 DEF AskedInv
<1>3. CASE DbPush("AddData", session'.hash, TRUE) /\ session'.hash # NoHash
  <2>1. \A A : DbHolds(A)' <=> "AddData" \in A
    BY <1>3, DbPushIs
  <2>2. ~DbHolds({"EndSession"})'
    BY <2>1
  <2>3. QED
    BY <1>3, <2>2 DEF AskedInv
<1>4. CASE DbPush("EndSession", session'.hash, TRUE) /\ session'.hash # NoHash /\ ~session'.ended
  BY <1>4 DEF AskedInv
<1>5. QED
  BY <1>1, <1>2, <1>3, <1>4

\* PrepareData is alone in both queues, and the Connect it pushes changes neither.
LEMMA StartingAsked ==
  ASSUME PushResults = {TRUE}, RecorderInv, AskedInv, Dispatch, ~Exit,
         Head(queue).action \in Starting
  PROVE  AskedInv'
<1> USE DEF RecorderInv, LoopInv
<1>1. /\ queue \in Seq(Requests) /\ queue # <<>> /\ ~exited /\ ~dbTurn
      /\ PrepareData \/ Connect
  BY DEF TypeOK, Starting, Dispatch, PrepareData, Connect, Reconnect, Throw, SendDescriptor,
         RequestSession, SetSession, StartStream, ProcessData, Status, Quit, Turn
<1>2. dbServing /\ Len(queue) = 1
  BY <1>1, Served, HeadPending DEF DbDiscipline, Booting
<1>3. CASE PrepareData
  <2>1. Then(<<Rq("Connect")>>) /\ DbPush("InitDatabase", session.hash, TRUE)
    BY <1>3, DatabaseAssumption DEF PrepareData
  <2>2. Head(queue).action = "PrepareData"
    BY <1>3 DEF PrepareData, Turn
  <2>3. dbQueue = <<>>
    <3>1. Pending({"Connect"}) => Head(queue).action = "Connect"
      BY <1>1, <1>2, HeadAtStart
    <3>2. QED
      BY <1>1, <1>2, <2>2, <3>1 DEF DbDiscipline, DbOneRequest
  <2>4. \A A : DbHolds(A)' <=> "InitDatabase" \in A
    BY <1>2, <2>1, <2>3, DbPushIs
  <2>5. ~DbHolds({"AddSession", "EndSession", "AddData"})' /\ ~DbHolds({"EndSession"})'
    BY <2>4
  <2>6. ~Pending({"PrepareData"})'
    <3> DEFINE r == Rq("Connect")
    <3>1. Tail(queue) = <<>>
      BY <1>1, <1>2, TailOfOne
    <3>2. queue' = <<>> \o <<r>> /\ r.action = "Connect"
      BY <2>1, <3>1 DEF Then, Rq
    <3> HIDE DEF r
    <3>3. Len(queue') = 1 /\ queue'[1] = r /\ DOMAIN queue' = {1}
      BY <3>2
    <3>4. QED
      BY <3>2, <3>3 DEF Pending
  <2>7. QED
    BY <2>5, <2>6 DEF AskedInv
<1>4. CASE Connect
  <2>1. /\ UNCHANGED <<dbQueue, session>> /\ Head(queue).action = "Connect"
        /\ \E a \in Actions \ {"PrepareData"} : Then(<<Rq(a)>>)
    BY <1>4 DEF Connect, NoDbPush, DbAfter, TryConnect, Turn, Actions
  <2>2. ~Pending({"PrepareData"})
    BY <1>1, <1>2, <2>1, HeadAtStart
  <2>3. ~Pending({"PrepareData"})'
    BY <1>1, <2>1, <2>2, NotPendingThen
  <2>4. \A A : DbHolds(A)' <=> DbHolds(A)
    BY <2>1 DEF DbHolds
  <2>5. QED
    BY <1>1, <2>1, <2>3, <2>4 DEF AskedInv
<1>5. QED
  BY <1>1, <1>3, <1>4

\* A session that is granted has a hash, and data comes within a session.
LEMMA DispatchAsked ==
  ASSUME PushResults = {TRUE}, RecorderInv, AskedInv, Dispatch
  PROVE  AskedInv'
<1> USE DEF RecorderInv, LoopInv
<1> DEFINE a == Head(queue).action
<1>1. CASE Exit
  BY <1>1 DEF Exit, AskedInv
<1>2. CASE a \in Starting /\ ~Exit
  BY <1>2, StartingAsked
<1>3. CASE a \notin Starting /\ ~Exit
  <2>1. queue \in Seq(Requests) /\ queue # <<>> /\ ~exited
    BY DEF TypeOK, Dispatch, PrepareData, Connect, Reconnect, Throw, SendDescriptor,
         RequestSession, SetSession, StartStream, ProcessData, Status, Quit, Turn
  <2>2. dbQueue = <<>> /\ dbServing
    BY <1>3, <2>1, Served, EmptyAtTurn
  <2>3. ~Pending({"PrepareData"})'
    <3>1. ~Pending({"PrepareData"})
      <4>1. Pending({"PrepareData"}) => Pending(Starting)
        BY DEF Pending, Starting
      <4>2. Pending(Starting) => a \in Starting
        BY <2>1, HeadAtStart DEF DbDiscipline, Booting
      <4>3. QED
        BY <1>3, <4>1, <4>2
    <3>2. \E b \in Actions \ Starting : Then(<<>>) \/ Then(<<Rq(b)>>)
      BY <1>3, AfterStart
    <3>3. QED
      BY <2>1, <3>1, <3>2, NotPendingThen DEF Starting
  <2>4. 1 \in DOMAIN queue /\ queue[1] = Head(queue)
    BY <2>1
  <2>5. \/ NoDbPush
        \/ DbPush("AddSession", session'.hash, TRUE) /\ session'.hash # NoHash
        \/ DbPush("AddData", session'.hash, TRUE) /\ session'.hash # NoHash
        \/ DbPush("EndSession", session'.hash, TRUE) /\ session'.hash # NoHash /\ ~session'.ended
    <3>1. CASE SetSession
      <4>1. a = "SetSession" /\ (NoDbPush \/ DbPush("AddSession", Head(queue).hash, TRUE))
        BY <3>1, DatabaseAssumption DEF SetSession, Turn
      <4>2. session'.hash = Head(queue).hash
        BY <1>3, <4>1, DispatchHandled
      <4>3. Head(queue).hash \in Hash
        BY <2>4, <4>1 DEF GrantedInv
      <4>4. QED
        BY <4>1, <4>2, <4>3, HashAssumption
    <3>2. CASE ProcessData
      <4>1. a = "ProcessData" /\ session' = session /\ DbPush("AddData", session.hash, TRUE)
        BY <3>2, DatabaseAssumption DEF ProcessData, Turn
      <4>2. session.hash # NoHash
        BY <2>4, <4>1 DEF GrantedInv
      <4>3. QED
        BY <4>1, <4>2
    <3>3. CASE \E up \in BOOLEAN : Reconnect(up)
      BY <3>3 DEF Reconnect
    <3>4. CASE SendDescriptor \/ RequestSession \/ StartStream \/ Status
      BY <1>3, <3>4 DEF SendDescriptor, RequestSession, StartStream, Status
    <3>5. QED
      BY <1>3, <3>1, <3>2, <3>3, <3>4
      DEF Dispatch, PrepareData, Connect, Throw, Quit, Turn, Starting
  <2>6. QED
    BY <2>2, <2>3, <2>5, PushedAsked
<1>4. QED
  BY <1>1, <1>2, <1>3

LEMMA NextAsked ==
  ASSUME PushResults = {TRUE}, RecorderInv, AskedInv, [RecorderNext]_everything
  PROVE  AskedInv'
<1> USE DEF RecorderInv, LoopInv
<1>1. CASE \E d \in Device, init, removed \in BOOLEAN : Start(d, init, removed)
  <2>1. dbQueue' = <<[action |-> "CheckDatabase", hash |-> NoHash]>>
    BY <1>1 DEF Start
  <2>2. \A A : DbHolds(A)' <=> "CheckDatabase" \in A
    BY <2>1 DEF DbHolds
  <2>3. /\ ~DbHolds(DbActions \ {"CheckDatabase"})'
        /\ ~DbHolds({"AddSession", "EndSession", "AddData"})' /\ ~DbHolds({"EndSession"})'
    BY <2>2
  <2>4. QED
    BY <2>3 DEF AskedInv
<1>2. CASE Crash
  BY <1>2 DEF Crash, Exit, AskedInv
<1>3. CASE RecorderDispatch
  BY <1>3, TakesIs, DispatchAsked
<1>4. CASE Store
  <2>1. DbStep
    BY <1>4 DEF Store, DbStep
  <2>2. /\ ~exited /\ queue' = queue /\ \A A : DbHolds(A) <=> Head(dbQueue).action \in A
        /\ \A A : DbHolds(A)' => "AddDevice" \in A
    BY <2>1, StoreIs
  <2>3. ~DbHolds({"AddSession", "EndSession", "AddData"})' /\ ~DbHolds({"EndSession"})'
    BY <2>2
  <2>4. ASSUME Pending({"PrepareData"})', DbHolds(DbActions \ {"CheckDatabase"})' PROVE FALSE
    <3>1. ~DbHolds(DbActions \ {"CheckDatabase"})
      BY <2>2, <2>4 DEF AskedInv, Pending
    <3>2. ~InitDatabase
      BY <2>2, <3>1 DEF InitDatabase, DbHandles, DbActions
    <3>3. dbQueue' = <<>>
      <4>1. Len(dbQueue) = 1 /\ dbQueue \in Seq(DbRequests)
        BY <2>1 DEF DbDiscipline, DbOneRequest, TypeOK, DbStep, CheckDatabase, InitDatabase,
             AddDevice, AddSession, EndSession, AddData, DbHandles
      <4>2. dbQueue' = Tail(dbQueue)
        BY <2>1, <3>2 DEF DbStep, CheckDatabase, AddDevice, AddSession, EndSession, AddData
      <4>3. QED
        BY <4>1, <4>2, TailOfOne
    <3>4. QED
      BY <2>4, <3>3 DEF DbHolds
  <2>5. QED
    BY <2>3, <2>4 DEF AskedInv
<1>5. CASE Event \/ \E c \in Conn : Grant(c)
  <2>1. /\ UNCHANGED <<dbQueue, session, exited>> /\ queue \in Seq(Requests)
        /\ \/ queue' = queue
           \/ \E rq \in Requests : Push(rq) /\ rq.action # "PrepareData"
    <3>1. ASSUME NEW c \in Conn,
                 ReceiveSession(c) \/ ReceiveData(c) \/ ReceiveStatus(c) \/ ConnectionLost(c)
          PROVE  /\ UNCHANGED <<dbQueue, session, exited>> /\ queue \in Seq(Requests)
                 /\ \E rq \in Requests : Push(rq) /\ rq.action # "PrepareData"
      <4>1. UNCHANGED <<dbQueue, session, exited>>
        BY <3>1 DEF ReceiveSession, ReceiveData, ReceiveStatus, ConnectionLost, Receive
      <4>2. QED
        BY <3>1, <4>1, EventPush DEF TypeOK
    <3>2. CASE SessionTimerExpires \/ InactivityTick
      <4>1. UNCHANGED <<dbQueue, session, exited>>
        BY <3>2 DEF SessionTimerExpires, InactivityTick
      <4>2. queue' = queue \/ Push(Rq("Reconnect"))
        BY <3>2 DEF SessionTimerExpires, InactivityTick, DropConnection
      <4>3. Rq("Reconnect") \in Requests /\ Rq("Reconnect").action # "PrepareData"
        BY RqType DEF Actions, Rq
      <4>4. QED
        BY <4>1, <4>2, <4>3 DEF TypeOK
    <3>3. QED
      BY <1>5, <3>1, <3>2 DEF Event, Grant
  <2>2. Pending({"PrepareData"})' => Pending({"PrepareData"})
    <3>1. CASE queue' = queue
      BY <3>1 DEF Pending
    <3>2. CASE \E rq \in Requests : Push(rq) /\ rq.action # "PrepareData"
      BY <2>1, <3>2, NotPendingPush
    <3>3. QED
      BY <2>1, <3>1, <3>2
  <2>3. \A A : DbHolds(A)' <=> DbHolds(A)
    BY <2>1 DEF DbHolds
  <2>4. QED
    BY <2>1, <2>2, <2>3 DEF AskedInv
<1>6. CASE UNCHANGED everything
  <2>1. UNCHANGED <<queue, dbQueue, session, exited>>
    BY <1>6 DEF everything, vars, loop
  <2>2. (\A A : DbHolds(A)' <=> DbHolds(A)) /\ (Pending({"PrepareData"})' <=> Pending({"PrepareData"}))
    BY <2>1 DEF DbHolds, Pending
  <2>3. QED
    BY <2>1, <2>2 DEF AskedInv
<1>7. QED
  BY <1>1, <1>2, <1>3, <1>4, <1>5, <1>6 DEF RecorderNext

-----------------------------------------------------------------------------
(* Room for the sessions that are granted *)

\* How many requests of a queue are for action a.
Places(q, a) == {i \in DOMAIN q : q[i].action = a}
Count(q, a) == Cardinality(Places(q, a))

LEMMA PlacesFinite ==
  ASSUME NEW S, NEW q \in Seq(S), NEW a
  PROVE  IsFiniteSet(Places(q, a)) /\ Count(q, a) \in Nat
<1>1. Len(q) \in Nat /\ DOMAIN q = 1 .. Len(q)
  OBVIOUS
<1>2. IsFiniteSet(1 .. Len(q))
  BY <1>1, FS_Interval
<1>3. Places(q, a) \in SUBSET (1 .. Len(q))
  BY <1>1 DEF Places
<1>4. IsFiniteSet(Places(q, a))
  BY <1>2, <1>3, FS_Subset
<1>5. QED
  BY <1>4, FS_CardinalityType DEF Count

LEMMA CountEmpty ==
  ASSUME NEW a
  PROVE  Count(<<>>, a) = 0
<1>1. Places(<<>>, a) = {}
  BY DEF Places
<1>2. QED
  BY <1>1, FS_EmptySet DEF Count

LEMMA CountAppend ==
  ASSUME NEW S, NEW q \in Seq(S), NEW r \in S, NEW a
  PROVE  Count(Append(q, r), a) = Count(q, a) + (IF r.action = a THEN 1 ELSE 0)
<1> DEFINE n == Len(q)
           p == Append(q, r)
<1>1. /\ n \in Nat /\ DOMAIN q = 1 .. n /\ DOMAIN p = 1 .. n + 1
      /\ \A i \in 1 .. n : p[i] = q[i]
      /\ p[n + 1] = r
  OBVIOUS
<1> HIDE DEF n, p
<1>2. 1 .. n + 1 = (1 .. n) \cup {n + 1} /\ n + 1 \notin 1 .. n
  BY <1>1
<1>3. IsFiniteSet(Places(q, a)) /\ Count(q, a) \in Nat /\ n + 1 \notin Places(q, a)
  BY <1>1, <1>2, PlacesFinite DEF Places
<1>4. CASE r.action = a
  <2>1. Places(p, a) = Places(q, a) \cup {n + 1}
    BY <1>1, <1>2, <1>4 DEF Places
  <2>2. Cardinality(Places(q, a) \cup {n + 1}) = Cardinality(Places(q, a)) + 1
    BY <1>3, FS_AddElement
  <2>3. QED
    BY <1>4, <2>1, <2>2 DEF Count, p
<1>5. CASE r.action # a
  <2>1. Places(p, a) = Places(q, a)
    BY <1>1, <1>2, <1>5 DEF Places
  <2>2. QED
    BY <1>3, <1>5, <2>1 DEF Count, p
<1>6. QED
  BY <1>4, <1>5

LEMMA CountTail ==
  ASSUME NEW S, NEW q \in Seq(S), q # <<>>, NEW a
  PROVE  Count(Tail(q), a) = Count(q, a) - (IF Head(q).action = a THEN 1 ELSE 0)
<1> DEFINE n == Len(q)
           t == Tail(q)
           P == Places(q, a) \ {1}
           f == [i \in Places(t, a) |-> i + 1]
<1>1. /\ n \in Nat \ {0} /\ DOMAIN q = 1 .. n /\ DOMAIN t = 1 .. n - 1 /\ Head(q) = q[1]
      /\ t \in Seq(S)
      /\ \A i \in 1 .. n - 1 : t[i] = q[i + 1]
  OBVIOUS
<1> HIDE DEF n, t
<1>2. IsFiniteSet(Places(q, a)) /\ Count(q, a) \in Nat /\ IsFiniteSet(Places(t, a))
  BY <1>1, PlacesFinite
<1>3. \A i \in Places(t, a) : i \in Nat /\ i + 1 \in P
  BY <1>1 DEF Places
<1>4. \A k \in P : k - 1 \in Places(t, a) /\ k \in Nat
  BY <1>1 DEF Places
<1> HIDE DEF P
<1>5. f \in Bijection(Places(t, a), P)
  <2>1. f \in Injection(Places(t, a), P)
    BY <1>3 DEF Injection, IsInjective
  <2>2. \A k \in P : \E i \in Places(t, a) : f[i] = k
    <3> SUFFICES ASSUME NEW k \in P PROVE f[k - 1] = k
      BY <1>4
    <3>1. QED
      BY <1>4
  <2>3. f \in Surjection(Places(t, a), P)
    BY <2>1, <2>2 DEF Surjection, Injection
  <2>4. QED
    BY <2>1, <2>3 DEF Bijection
<1>6. Cardinality(P) = Cardinality(Places(t, a))
  BY <1>2, <1>5, FS_Bijection DEF ExistsBijection
<1>7. Cardinality(P) = IF 1 \in Places(q, a) THEN Count(q, a) - 1 ELSE Count(q, a)
  BY <1>2, FS_RemoveElement DEF P, Count
<1>8. 1 \in Places(q, a) <=> Head(q).action = a
  BY <1>1 DEF Places
<1>9. QED
  BY <1>2, <1>6, <1>7, <1>8 DEF Count, t

\* What is granted and what has a row are within the bound.
RoomLeft == Len(born) + Granted <= MaxSessions

Waiting == Count(queue, "SetSession") + Count(dbQueue, "AddSession")

LEMMA GrantedIs == Granted = Waiting
BY DEF Granted, Waiting, Count, Places

\* A handler of the dispatcher takes its request and asks for one row at most, and
\* only SetSession for a session's.
LEMMA DispatchWaiting ==
  ASSUME TypeOK, Dispatch
  PROVE  Waiting' <= Waiting /\ Waiting' \in Nat /\ Waiting \in Nat
<1> DEFINE a == Head(queue).action
           q == Count(queue, "SetSession")
           d == Count(dbQueue, "AddSession")
<1>1. /\ queue \in Seq(Requests) /\ dbQueue \in Seq(DbRequests)
      /\ q \in Nat /\ d \in Nat
  BY PlacesFinite DEF TypeOK
<1>2. CASE UNCHANGED <<queue, dbQueue>>
  BY <1>1, <1>2 DEF Waiting, Count, Places
<1>3. CASE ~Exit
  <2>1. queue # <<>>
    BY <1>3, DispatchHandled
  <2>2. \E b \in Actions \ {"SetSession"} : Then(<<>>) \/ Then(<<Rq(b)>>)
    <3> DEFINE B == Actions \ {"SetSession"}
    <3>1. {"Connect", "Quit", "SendDescriptor", "Reconnect", "RequestSession", "StartStream"}
            \subseteq B
      BY DEF Actions
    <3>2. CASE PrepareData
      <4>1. Then(<<Rq("Connect")>>) \/ Then(<<Rq("Quit")>>)
        BY <3>2 DEF PrepareData
      <4>2. QED
        BY <3>1, <4>1
    <3>3. CASE Connect \/ \E up \in BOOLEAN : Reconnect(up)
      <4>1. Then(<<Rq("SendDescriptor")>>) \/ Then(<<Rq("Reconnect")>>)
        BY <3>3 DEF Connect, Reconnect, TryConnect
      <4>2. QED
        BY <3>1, <4>1
    <3>4. CASE SendDescriptor
      <4>1. Then(<<Rq("RequestSession")>>) \/ Then(<<Rq("Reconnect")>>)
        BY <3>4 DEF SendDescriptor
      <4>2. QED
        BY <3>1, <4>1
    <3>5. CASE SetSession
      <4>1. Then(<<Rq("Quit")>>) \/ Then(<<Rq("StartStream")>>) \/ Then(<<>>)
        BY <3>5 DEF SetSession
      <4>2. QED
        BY <3>1, <4>1
    <3>6. CASE RequestSession \/ StartStream \/ ProcessData \/ Status
      <4>1. Then(<<>>)
        BY <1>3, <3>6 DEF RequestSession, StartStream, ProcessData, Status
      <4>2. QED
        BY <3>1, <4>1
    <3>7. QED
      BY <1>3, <3>2, <3>3, <3>4, <3>5, <3>6 DEF Dispatch, Throw, Quit
  <2>3. /\ Count(queue, "SetSession")' = q - (IF a = "SetSession" THEN 1 ELSE 0)
        /\ Count(queue, "SetSession")' \in Nat
    <3> DEFINE t == Tail(queue)
    <3>1. t \in Seq(Requests) /\ t \o <<>> = t
      BY <1>1, <2>1
    <3>2. Count(t, "SetSession") = q - (IF a = "SetSession" THEN 1 ELSE 0)
      BY <1>1, <2>1, CountTail
    <3>3. PICK b \in Actions \ {"SetSession"} : queue' = t \o <<>> \/ queue' = t \o <<Rq(b)>>
      BY <2>2 DEF Then
    <3> DEFINE r == Rq(b)
    <3>4. r \in Requests /\ r.action # "SetSession"
      BY RqType DEF Rq
    <3> HIDE DEF r, t
    <3>5. Count(queue', "SetSession") = Count(t, "SetSession")
      <4>1. queue' = t \/ queue' = Append(t, r)
        BY <3>1, <3>3, <3>4 DEF r
      <4>2. /\ Count(Append(t, r), "SetSession") = Count(t, "SetSession") + 0
            /\ Count(t, "SetSession") \in Nat
        BY <3>1, <3>4, CountAppend, PlacesFinite
      <4>3. CASE queue' = t
        BY <4>3
      <4>4. CASE queue' = Append(t, r)
        <5>1. Count(queue', "SetSession") = Count(Append(t, r), "SetSession")
          BY <4>4
        <5>2. QED
          BY <4>2, <5>1
      <4>5. QED
        BY <4>1, <4>3, <4>4
    <3>6. Count(queue, "SetSession")' = Count(queue', "SetSession")
      BY DEF Count, Places
    <3>7. Count(t, "SetSession") \in Nat
      BY <3>1, PlacesFinite
    <3>8. QED
      BY <3>2, <3>5, <3>6, <3>7
  <2>4. Count(dbQueue, "AddSession")' \in {d, d + (IF a = "SetSession" THEN 1 ELSE 0)}
    <3>1. \/ dbQueue' = dbQueue
          \/ \E r \in DbRequests : /\ dbQueue' = Append(dbQueue, r)
                                   /\ r.action = "AddSession" => a = "SetSession"
      <4> DEFINE New(b, h) == [action |-> b, hash |-> h]
      <4>1. Head(queue) \in Requests
        BY <1>1, <2>1
      <4>2. Head(queue).hash \in MaybeHash /\ session.hash \in MaybeHash
        BY <4>1 DEF Requests, TypeOK
      <4>3. \A b \in DbActions, h \in MaybeHash : New(b, h) \in DbRequests /\ New(b, h).action = b
        BY DEF DbRequests
      <4>4. \A b, h, ok : DbPush(b, h, ok) => dbQueue' = dbQueue \/ dbQueue' = Append(dbQueue, New(b, h))
        BY DEF DbPush, DbAfter
      <4>5. NoDbPush => dbQueue' = dbQueue
        BY DEF NoDbPush, DbAfter
      <4> HIDE DEF New
      <4>6. CASE SetSession
        <5>1. a = "SetSession" /\ (NoDbPush \/ \E ok : DbPush("AddSession", Head(queue).hash, ok))
          BY <4>6 DEF SetSession, Turn
        <5>2. QED
          BY <4>2, <4>3, <4>4, <4>5, <5>1 DEF DbActions
      <4>7. CASE PrepareData \/ ProcessData \/ \E up \in BOOLEAN : Reconnect(up)
        <5>1. NoDbPush \/ \E b \in {"InitDatabase", "AddData", "EndSession"} : \E ok :
                            DbPush(b, session.hash, ok)
          BY <4>7 DEF PrepareData, ProcessData, Reconnect
        <5>2. QED
          BY <4>2, <4>3, <4>4, <4>5, <5>1 DEF DbActions
      <4>8. CASE Connect \/ SendDescriptor \/ RequestSession \/ StartStream \/ (Status /\ ~Exit)
        BY <4>5, <4>8 DEF Connect, SendDescriptor, RequestSession, StartStream, Status
      <4>9. QED
        BY <1>3, <4>6, <4>7, <4>8 DEF Dispatch, Throw, Quit
    <3>2. Count(dbQueue, "AddSession")' = Count(dbQueue', "AddSession")
      BY DEF Count, Places
    <3>3. ASSUME NEW r \in DbRequests
          PROVE  Count(Append(dbQueue, r), "AddSession")
                   = d + (IF r.action = "AddSession" THEN 1 ELSE 0)
      BY <1>1, CountAppend
    <3>4. CASE dbQueue' = dbQueue
      BY <3>2, <3>4
    <3>5. ASSUME NEW r \in DbRequests, dbQueue' = Append(dbQueue, r),
                 r.action = "AddSession" => a = "SetSession"
          PROVE  Count(dbQueue', "AddSession") \in {d, d + (IF a = "SetSession" THEN 1 ELSE 0)}
      <4>1. Count(dbQueue', "AddSession") = d + (IF r.action = "AddSession" THEN 1 ELSE 0)
        BY <3>3, <3>5
      <4> HIDE DEF d, a
      <4>2. d \in Nat
        BY <1>1
      <4>3. QED
        BY <3>5, <4>1, <4>2
    <3>6. QED
      BY <3>1, <3>2, <3>4, <3>5
  <2> HIDE DEF q, d, a
  <2>5. QED
    BY <1>1, <2>3, <2>4 DEF Waiting, q, d
<1>4. QED
  BY <1>2, <1>3 DEF Exit, loop

LEMMA StoreWaiting ==
  ASSUME TypeOK, DbStep
  PROVE  /\ Waiting' \in Nat /\ Waiting \in Nat
         /\ Waiting' <= Waiting - (IF AddSession THEN 1 ELSE 0)
<1> DEFINE q == Count(queue, "SetSession")
           d == Count(dbQueue, "AddSession")
           t == Tail(dbQueue)
<1>1. /\ queue \in Seq(Requests) /\ dbQueue \in Seq(DbRequests)
      /\ q \in Nat /\ d \in Nat
  BY PlacesFinite DEF TypeOK
<1>2. /\ queue' = queue /\ dbQueue # <<>>
      /\ AddSession => Head(dbQueue).action = "AddSession"
  BY DEF DbStep, CheckDatabase, InitDatabase, AddDevice, AddSession, EndSession, AddData, DbHandles
<1>3. t \in Seq(DbRequests)
  BY <1>1, <1>2
<1>4. /\ Count(t, "AddSession") \in Nat
      /\ Count(t, "AddSession") = d - (IF Head(dbQueue).action = "AddSession" THEN 1 ELSE 0)
  BY <1>1, <1>2, <1>3, CountTail, PlacesFinite
<1>5. Count(dbQueue', "AddSession") = Count(t, "AddSession")
  <2>1. CASE dbQueue' = t
    BY <2>1
  <2>2. CASE InitDatabase
    <3> DEFINE r == [action |-> "AddDevice", hash |-> session.hash]
    <3>1. r \in DbRequests /\ r.action # "AddSession"
      BY DEF DbRequests, DbActions, TypeOK
    <3>2. dbQueue' = t \o <<r>> \/ dbQueue' = t \o <<>>
      BY <2>2 DEF InitDatabase
    <3> HIDE DEF r, t
    <3>3. dbQueue' = Append(t, r) \/ dbQueue' = t
      BY <1>3, <3>1, <3>2
    <3>4. Count(Append(t, r), "AddSession") = Count(t, "AddSession")
      BY <1>3, <1>4, <3>1, CountAppend
    <3>5. QED
      BY <3>3, <3>4
  <2>3. QED
    BY <2>1, <2>2 DEF DbStep, CheckDatabase, AddDevice, AddSession, EndSession, AddData
<1>6. /\ Count(dbQueue, "AddSession")' = Count(dbQueue', "AddSession")
      /\ Count(queue, "SetSession")' = q
  BY <1>2 DEF Count, Places
<1> HIDE DEF q, d, t
<1>7. QED
  BY <1>1, <1>2, <1>4, <1>5, <1>6 DEF Waiting, q, d

\* A request that joins the dispatcher queue from elsewhere.
LEMMA PushWaiting ==
  ASSUME TypeOK, NEW rq \in Requests, Push(rq), dbQueue' = dbQueue
  PROVE  /\ Waiting \in Nat
         /\ Waiting' = Waiting + (IF rq.action = "SetSession" THEN 1 ELSE 0)
<1>1. /\ queue \in Seq(Requests) /\ dbQueue \in Seq(DbRequests)
      /\ Count(queue, "SetSession") \in Nat /\ Count(dbQueue, "AddSession") \in Nat
  BY PlacesFinite DEF TypeOK
<1>2. Count(queue', "SetSession")
        = Count(queue, "SetSession") + (IF rq.action = "SetSession" THEN 1 ELSE 0)
  BY <1>1, CountAppend DEF Push
<1>3. /\ Count(queue, "SetSession")' = Count(queue', "SetSession")
      /\ Count(dbQueue, "AddSession")' = Count(dbQueue, "AddSession")
  BY DEF Count, Places
<1>4. QED
  BY <1>1, <1>2, <1>3 DEF Waiting

LEMMA WaitingSame ==
  ASSUME UNCHANGED <<queue, dbQueue>>
  PROVE  Waiting' = Waiting
BY DEF Waiting, Count, Places

LEMMA RoomInit == RecorderInit => RoomLeft
<1> SUFFICES ASSUME RecorderInit PROVE RoomLeft
  OBVIOUS
<1>1. queue = <<>> /\ dbQueue = <<>> /\ born = <<>>
  BY SameInit DEF RecorderInit, T!Init
<1>2. Waiting = 0
  BY <1>1, CountEmpty DEF Waiting
<1>3. QED
  BY <1>1, <1>2, GrantedIs, RecorderAssumption DEF RoomLeft

LEMMA RoomNext ==
  ASSUME RecorderInv, RoomLeft, [RecorderNext]_everything
  PROVE  RoomLeft'
<1> DEFINE n == Len(born)
<1>1. /\ TypeOK /\ n \in Nat /\ MaxSessions \in Nat /\ n + Waiting <= MaxSessions
  BY GrantedIs, RecorderAssumption
  DEF RecorderInv, LoopInv, T!TablesInv, T!TypeInv, T!TypeOK, RoomLeft
<1>2. Waiting \in Nat
  BY <1>1, PlacesFinite DEF TypeOK, Waiting
<1>3. SUFFICES Len(born') + Waiting' <= MaxSessions
  BY GrantedIs DEF RoomLeft, Granted, Waiting, Count, Places
<1>4. CASE \E d \in Device, init, removed \in BOOLEAN : Start(d, init, removed)
  <2>1. /\ queue' = <<Rq("PrepareData")>> /\ born' = born
        /\ dbQueue' = <<[action |-> "CheckDatabase", hash |-> NoHash]>>
    BY <1>4 DEF Start, DB!StartProgram, DB!file
  <2>2. Places(queue, "SetSession")' = {} /\ Places(dbQueue, "AddSession")' = {}
    BY <2>1 DEF Places, Rq
  <2>3. Waiting' = 0
    BY <2>2, FS_EmptySet DEF Waiting, Count
  <2>4. QED
    BY <1>1, <1>2, <2>1, <2>3
<1>5. CASE Crash
  <2>1. UNCHANGED <<queue, dbQueue, born>>
    BY <1>5 DEF Crash, Exit, loop, DB!StopProgram, DB!file
  <2>2. QED
    BY <1>1, <2>1, WaitingSame
<1>6. CASE RecorderDispatch
  <2>1. Dispatch /\ born' = born
    BY <1>6, TakesIs
  <2>2. QED
    BY <1>1, <2>1, DispatchWaiting
<1>7. CASE Store
  <2>1. DbStep /\ (AddSession => Len(born') \in {n, n + 1}) /\ (~AddSession => born' = born)
    <3>1. DbStep
      BY <1>7 DEF Store, DbStep
    <3>2. ASSUME AddSession PROVE Len(born') \in {n, n + 1}
      <4>1. born' = born \/ \E x : born' = Append(born, x)
        <5>1. DB!AddSession
          BY <1>7, <3>2 DEF Store, AddSession, CheckDatabase, InitDatabase, AddDevice, EndSession,
             AddData, DbHandles
        <5>2. QED
          BY <5>1 DEF DB!AddSession
      <4>2. \E S : born \in Seq(S)
        BY DEF RecorderInv, T!TablesInv, T!TypeInv, T!TypeOK
      <4>3. \A x : Len(Append(born, x)) = n + 1
        BY <4>2
      <4>4. QED
        BY <4>1, <4>3
    <3>3. ASSUME ~AddSession PROVE born' = born
      BY <1>7, <3>3 DEF Store, tables, DB!InitDatabase, DB!AddDevice, DB!EndSession, DB!AddData,
         DB!file
    <3>4. QED
      BY <3>1, <3>2, <3>3
  <2>2. /\ Waiting' \in Nat
        /\ Waiting' <= Waiting - (IF AddSession THEN 1 ELSE 0)
    BY <1>1, <2>1, StoreWaiting
  <2> HIDE DEF n
  <2>3. QED
    BY <1>1, <1>2, <2>1, <2>2 DEF n
<1>8. CASE \E c \in Conn : Grant(c) /\ UNCHANGED tables
  <2>1. PICK c \in Conn : Grant(c) /\ UNCHANGED tables
    BY <1>8
  <2>2. n + Waiting < MaxSessions /\ born' = born /\ ReceiveSession(c) /\ dbQueue' = dbQueue
    BY <2>1, GrantedIs DEF Grant, tables, ReceiveSession, Receive
  <2>3. PICK rq \in Requests : Push(rq)
    BY <1>1, <2>2, EventPush
  <2>4. Waiting' <= Waiting + 1 /\ Waiting' \in Nat
    BY <1>1, <2>2, <2>3, PushWaiting
  <2>5. QED
    BY <1>1, <1>2, <2>2, <2>4
<1>9. CASE Event /\ UNCHANGED tables
  <2>1. born' = born
    BY <1>9 DEF tables
  <2>2. \/ UNCHANGED <<queue, dbQueue>>
        \/ \E rq \in Requests : Push(rq) /\ dbQueue' = dbQueue /\ rq.action # "SetSession"
    <3>1. ASSUME NEW c \in Conn, ReceiveData(c) \/ ReceiveStatus(c) \/ ConnectionLost(c)
          PROVE  \E rq \in Requests : Push(rq) /\ dbQueue' = dbQueue /\ rq.action # "SetSession"
      <4>1. PICK rq \in Requests : Push(rq)
        BY <1>1, <3>1, EventPush
      <4>2. queue \in Seq(Requests)
        BY <1>1 DEF TypeOK
      <4>3. dbQueue' = dbQueue
        BY <3>1 DEF ReceiveData, ReceiveStatus, ConnectionLost, Receive
      <4>4. \E x : Push(x) /\ x.action # "SetSession"
        <5>1. CASE ReceiveData(c)
          BY <5>1 DEF ReceiveData, Receive
        <5>2. CASE ReceiveStatus(c)
          BY <5>2 DEF ReceiveStatus, Receive
        <5>3. CASE ConnectionLost(c)
          BY <5>3 DEF ConnectionLost, Rq
        <5>4. QED
          BY <3>1, <5>1, <5>2, <5>3
      <4>5. \A x : Append(queue, x)[Len(queue) + 1] = x
        BY <4>2
      <4>6. QED
        BY <4>1, <4>3, <4>4, <4>5 DEF Push
    <3>2. CASE SessionTimerExpires \/ InactivityTick
      <4>1. dbQueue' = dbQueue
        BY <3>2 DEF SessionTimerExpires, InactivityTick
      <4>2. queue' = queue \/ Push(Rq("Reconnect"))
        BY <3>2 DEF SessionTimerExpires, InactivityTick, DropConnection
      <4>3. Rq("Reconnect") \in Requests /\ Rq("Reconnect").action # "SetSession"
        BY RqType DEF Actions, Rq
      <4>4. QED
        BY <4>1, <4>2, <4>3
    <3>3. QED
      BY <1>9, <3>1, <3>2 DEF Event
  <2>3. QED
    BY <1>1, <1>2, <2>1, <2>2, WaitingSame, PushWaiting
<1>10. CASE UNCHANGED everything
  <2>1. UNCHANGED <<queue, dbQueue, born>>
    BY <1>10 DEF everything, vars, loop, tables
  <2>2. QED
    BY <1>1, <2>1, WaitingSame
<1>11. QED
  BY <1>4, <1>5, <1>6, <1>7, <1>8, <1>9, <1>10 DEF RecorderNext

LEMMA RoomHere ==
  ASSUME TypeOK, RoomLeft, born \in Seq(DB!Births), queue # <<>>, Head(queue).action = "SetSession"
  PROVE  Len(born) < MaxSessions
<1>1. queue \in Seq(Requests) /\ dbQueue \in Seq(DbRequests) /\ Tail(queue) \in Seq(Requests)
  BY DEF TypeOK
<1>2. Count(Tail(queue), "SetSession") = Count(queue, "SetSession") - 1
  BY <1>1, CountTail
<1>3. /\ Count(Tail(queue), "SetSession") \in Nat /\ Count(queue, "SetSession") \in Nat
      /\ Count(dbQueue, "AddSession") \in Nat
  BY <1>1, PlacesFinite
<1>4. Waiting >= 1 /\ Waiting \in Nat
  BY <1>2, <1>3 DEF Waiting
<1>5. QED
  BY <1>4, GrantedIs, RecorderAssumption DEF RoomLeft

-----------------------------------------------------------------------------
(* Requests and tables *)

\* Whatever request is next finds the file in the phase it is for, and the session in
\* memory as the tables' handler expects it.
RequestsReady ==
  ~exited =>
    /\ dbServing
    /\ dbQueue # <<>> =>
         LET a == Head(dbQueue).action IN
         /\ a = "InitDatabase" => Phase = "InitDatabase"
         /\ a = "AddDevice" => Phase = "AddDevice"
         /\ a = "AddSession" => Phase = "AddSession" /\ session.hash # NoHash
         /\ a = "EndSession" => Phase = "recording" /\ session.hash # NoHash /\ ~session.ended
         /\ a = "AddData" => Phase = "recording" /\ session.hash # NoHash
    /\ ~dbTurn /\ queue # <<>> /\ Head(queue).action = "SetSession" =>
         Phase = "recording" /\ Len(born) < MaxSessions

LEMMA ReadyHere ==
  ASSUME RecorderInv, AskedInv, RoomLeft
  PROVE  RequestsReady
<1> USE DEF RecorderInv, LoopInv
<1> SUFFICES ASSUME ~exited PROVE RequestsReady
  BY DEF RequestsReady
<1>1. dbServing
  BY Served
<1>2. ASSUME dbQueue # <<>>, NEW a, a = Head(dbQueue).action
      PROVE  /\ a = "InitDatabase" => Phase = "InitDatabase"
             /\ a = "AddDevice" => Phase = "AddDevice"
             /\ a = "AddSession" => Phase = "AddSession" /\ session.hash # NoHash
             /\ a = "EndSession" => Phase = "recording" /\ session.hash # NoHash /\ ~session.ended
             /\ a = "AddData" => Phase = "recording" /\ session.hash # NoHash
  <2>1. Len(dbQueue) = 1 /\ dbQueue \in Seq(DbRequests)
    BY <1>1, <1>2 DEF DbDiscipline, DbOneRequest, TypeOK
  <2>2. \A A : DbHolds(A) <=> a \in A
    BY <1>2, <2>1 DEF DbHolds
  <2>3. a \in DbActions \ {"CheckDatabase"} => ~Pending({"PrepareData"})
    BY <2>2 DEF AskedInv
  <2>4. /\ DbHolds({"InitDatabase"}) <=> a = "InitDatabase"
        /\ DbHolds({"AddDevice"}) <=> a = "AddDevice"
        /\ DbHolds({"AddSession"}) <=> a = "AddSession"
        /\ DbHolds({"EndSession"}) <=> a = "EndSession"
        /\ DbHolds({"AddSession", "EndSession", "AddData"})
             <=> a \in {"AddSession", "EndSession", "AddData"}
    BY <2>2
  <2>5. QED
    BY <2>3, <2>4, PhaseIs DEF AskedInv, Boots, Adds, Sets, DbActions
<1>3. ASSUME ~dbTurn, queue # <<>>, Head(queue).action = "SetSession"
      PROVE  Phase = "recording"
  <2>1. ~Pending({"PrepareData"}) /\ ~Pending({"Connect"})
    <3>1. Pending({"PrepareData"}) \/ Pending({"Connect"}) => Pending(Starting)
      BY DEF Pending, Starting
    <3>2. Pending(Starting) => Head(queue).action \in Starting
      BY <1>3, HeadAtStart DEF DbDiscipline, Booting, TypeOK
    <3>3. QED
      BY <1>3, <3>1, <3>2 DEF Starting
  <2>2. dbQueue = <<>>
    BY <1>1, <1>3, <2>1 DEF DbDiscipline, DbOneRequest
  <2>3. \A A : ~DbHolds(A)
    BY <2>2 DEF DbHolds
  <2>4. QED
    BY <2>1, <2>3, PhaseIs DEF Boots, Adds, Sets
<1>4. queue # <<>> /\ Head(queue).action = "SetSession" => Len(born) < MaxSessions
  BY RoomHere DEF T!TablesInv, T!TypeInv, T!TypeOK, T!Births, DB!Births
<1>5. QED
  BY <1>1, <1>2, <1>3, <1>4 DEF RequestsReady

\* No request meets tables that cannot take it: HandlersMeet, said with the guards of
\* the tables' handlers, the bound included. Without it the order of requests could be
\* kept by a request that is never handled.
THEOREM RequestsMeet ==
  ASSUME PushResults = {TRUE}
  PROVE  RecorderSpec => []RequestsReady
<1>1. RecorderInit => RecorderInv /\ AskedInv /\ RoomLeft
  BY InitRecorder, RoomInit DEF RecorderInit, AskedInv
<1>2. RecorderInv /\ AskedInv /\ RoomLeft /\ [RecorderNext]_everything
        => (RecorderInv /\ AskedInv /\ RoomLeft)'
  BY NextRecorder, NextAsked, RoomNext
<1>3. RecorderInv /\ AskedInv /\ RoomLeft => RequestsReady
  BY ReadyHere
<1>4. QED
  BY <1>1, <1>2, <1>3, PTL DEF RecorderSpec

-----------------------------------------------------------------------------
(* The theorems *)

\* The whole program's inductive invariant.
RowsInv == RecorderInv /\ DescribedInv /\ DataInv /\ RunsInv /\ OpenInv /\ GrantInv

LEMMA InitRows == RecorderInit => RowsInv
<1> SUFFICES ASSUME RecorderInit PROVE RowsInv
  OBVIOUS
<1>1. /\ queue = <<>> /\ conn \in Conn /\ sources = {} /\ peer = [c \in Conn |-> Idle]
      /\ exited = TRUE /\ born = <<>>
  BY SameInit DEF RecorderInit, T!Init
<1>2. \A i \in 1 .. Len(queue) : queue[i].action # "SendDescriptor"
  BY <1>1
<1>3. DescribedInv
  BY <1>1, <1>2 DEF DescribedInv, Apart, Followed, Idle
<1>4. DataInv /\ OpenInv /\ GrantInv
  BY <1>1 DEF DataInv, OpenInv, GrantInv, Settled
<1>5. RunsInv
  BY <1>1 DEF RunsInv
<1>6. QED
  BY <1>3, <1>4, <1>5, InitRecorder DEF RowsInv

LEMMA NextRows ==
  ASSUME PushResults = {TRUE}, RowsInv, [RecorderNext]_everything
  PROVE  RowsInv'
<1>1. RecorderInv'
  BY NextRecorder DEF RowsInv
<1>2. DescribedInv'
  BY DescribedKept DEF RowsInv, RecorderInv
<1>3. DataInv'
  BY NextData DEF RowsInv
<1>4. RunsInv'
  BY RunsKept DEF RowsInv
<1>5. OpenInv' /\ GrantInv'
  BY NextOpen DEF RowsInv
<1>6. QED
  BY <1>1, <1>2, <1>3, <1>4, <1>5 DEF RowsInv

LEMMA RowsHold ==
  ASSUME PushResults = {TRUE}
  PROVE  RecorderSpec => []RowsInv
<1>1. RowsInv /\ [RecorderNext]_everything => RowsInv'
  BY NextRows
<1>2. QED
  BY <1>1, InitRows, PTL DEF RecorderSpec

\* No sample is lost between the connection and its row: data that reaches the
\* database queue finds an open row of the run's own session, however the sockets,
\* the timers and the two queues interleave, over any number of runs and crashes.
THEOREM DataFindsRow ==
  ASSUME PushResults = {TRUE}
  PROVE  RecorderSpec => []DataKept
<1>1. RowsInv => DataKept
  BY DEF RowsInv, DataInv, DataKept, Row
<1>2. QED
  BY <1>1, RowsHold, PTL

\* A session that is replaced has been ended before: a run never has two open rows,
\* unless a connection was replaced while it was registered or granted twice.
THEOREM OneRowOpen ==
  ASSUME PushResults = {TRUE}
  PROVE  RecorderSpec => []OneOpen
<1>1. RowsInv => OneOpen
  BY DEF RowsInv, OpenInv, OneOpen, Settled, OpenOwn
<1>2. QED
  BY <1>1, RowsHold, PTL

\* The end of a connection is on its way to the file for as long as the session is
\* open there: the Reconnect waits, and finds a session that it has to end, or the
\* request it pushed does.
THEOREM EndOnItsWay ==
  ASSUME PushResults = {TRUE}
  PROVE  RecorderSpec => []EndComing
<1>1. RowsInv => EndComing
  <2> SUFFICES ASSUME RowsInv, Settled, conn \notin sources, SomeOpen
               PROVE  ~session.ended /\ (Pending({"Reconnect"}) \/ DbHolds({"EndSession"}))
    BY DEF EndComing, OpenHere, SomeOpen, OpenOwn, Settled
  <2>1. ~session.ended
    BY DEF RowsInv, OpenInv, SomeOpen
  <2>2. ~Granting
    BY DEF Granting
  <2>3. Unended => Pending({"Reconnect"})
    BY <2>2 DEF RowsInv, GrantInv
  <2>4. QED
    BY <2>1, <2>3 DEF Unended
<1>2. QED
  BY <1>1, RowsHold, PTL

\* A handler of the dispatcher does not take a request from the database queue.
LEMMA DispatchAdds ==
  ASSUME PushResults = {TRUE}, LoopInv, ~exited => dbServing, RecorderDispatch, ~Exit,
         dbQueue # <<>>
  PROVE  dbQueue' # Tail(dbQueue)
<1> DEFINE n == Len(dbQueue)
<1>1. /\ dbQueue \in Seq(DbRequests) /\ n \in Nat \ {0} /\ Len(Tail(dbQueue)) = n - 1
      /\ \A r : Len(Append(dbQueue, r)) = n + 1
  BY DEF LoopInv, TypeOK
<1>2. CASE TakeSession
  <2>1. Dispatch /\ Head(queue).action = "SetSession"
    BY <1>2 DEF TakeSession, Dispatch, SetSession, Turn
  <2>2. QED
    BY <2>1, EmptyAtTurn DEF Starting
<1>3. CASE PrepareData
  <2>1. ~exited
    BY <1>3 DEF PrepareData, Turn
  <2>2. dbQueue' = Append(dbQueue, [action |-> "InitDatabase", hash |-> session.hash])
    BY <1>3, <2>1, PreparePhase DEF LoopInv
  <2> HIDE DEF n
  <2>3. QED
    BY <1>1, <2>2
<1>4. CASE Other /\ ~PrepareData
  <2>1. DbPushed
    BY <1>4, OtherPushed DEF LoopInv
  <2> HIDE DEF n
  <2>2. QED
    BY <1>1, <2>1 DEF DbPushed, n
<1>5. QED
  BY <1>2, <1>3, <1>4 DEF RecorderDispatch

\* A step that takes an AddData is the insertion.
LEMMA AddsData ==
  ASSUME PushResults = {TRUE}, RecorderInv, [RecorderNext]_everything, AddData
  PROVE  T!AddData
<1> USE DEF RecorderInv, LoopInv
<1>1. /\ ~exited /\ dbServing /\ dbQueue # <<>> /\ Head(dbQueue).action = "AddData"
      /\ dbQueue' = Tail(dbQueue) /\ exited' = exited
  BY DEF AddData, DbHandles
<1>2. dbQueue' # dbQueue
  <2>1. Len(dbQueue) = 1 /\ dbQueue \in Seq(DbRequests)
    BY <1>1 DEF DbDiscipline, DbOneRequest, TypeOK
  <2>2. Tail(dbQueue) = <<>>
    BY <2>1, TailOfOne
  <2>3. QED
    BY <1>1, <2>2
<1>3. ~(\E d \in Device, init, removed \in BOOLEAN : Start(d, init, removed))
  <2>1. Phase # "off"
    BY <1>1, PhaseIs
  <2>2. QED
    BY <2>1 DEF Start, DB!StartProgram
<1>4. ~Crash /\ ~Exit
  BY <1>1 DEF Crash, Exit
<1>5. ~RecorderDispatch
  BY <1>1, <1>4, DispatchAdds
<1>6. ~(\E c \in Conn : Grant(c)) /\ ~Event
  BY <1>2 DEF Grant, Event, ReceiveSession, ReceiveData, ReceiveStatus, Receive, ConnectionLost,
     SessionTimerExpires, InactivityTick
<1>7. UNCHANGED everything => dbQueue' = dbQueue
  BY DEF everything, vars, loop
<1>8. Store
  BY <1>2, <1>3, <1>4, <1>5, <1>6, <1>7 DEF RecorderNext
<1>9. DB!AddData
  BY <1>1, <1>8 DEF Store, CheckDatabase, InitDatabase, AddDevice, AddSession, EndSession,
     DbHandles
<1>10. QED
  BY <1>9, SameHandlers

\* A sample's request is handled in its session, and its insertion finds the row.
LEMMA SampleStep ==
  ASSUME PushResults = {TRUE}, RowsInv, [RecorderNext]_everything,
         ~exited, ~orphaned, ~Pending({"Quit"})
  PROVE  /\ ProcessData =>
              dbQueue' = Append(dbQueue, [action |-> "AddData", hash |-> Head(queue).hash])
         /\ AddData =>
              \E s \in sessions :
                /\ OwnRow(s) /\ s.hash = Head(dbQueue).hash
                /\ data' = data \cup {[session |-> s.id, born |-> s.born, run |-> run]}
<1> USE DEF RowsInv, RecorderInv, LoopInv
<1>1. dbServing
  BY Served
<1>2. ASSUME ProcessData
      PROVE  dbQueue' = Append(dbQueue, [action |-> "AddData", hash |-> Head(queue).hash])
  <2>1. queue # <<>> /\ Head(queue).action = "ProcessData"
    BY <1>2 DEF ProcessData, Turn
  <2>2. Head(queue).hash = session.hash
    BY <2>1, AttributionShows DEF Attributed
  <2>3. DbPush("AddData", session.hash, TRUE)
    BY <1>2, DatabaseAssumption DEF ProcessData
  <2>4. QED
    BY <1>1, <2>2, <2>3 DEF DbPush, DbAfter
<1>3. ASSUME AddData
      PROVE  \E s \in sessions :
               /\ OwnRow(s) /\ s.hash = Head(dbQueue).hash
               /\ data' = data \cup {[session |-> s.id, born |-> s.born, run |-> run]}
  <2>1. dbQueue # <<>> /\ Head(dbQueue).action = "AddData" /\ DbStep
    BY <1>3 DEF AddData, DbHandles, DbStep
  <2>2. Row
    <3>1. DbHolds({"AddData"})
      BY <2>1, StoreIs
    <3>2. QED
      BY <3>1 DEF DataInv
  <2>3. PICK s \in sessions : OwnRow(s)
    BY <2>2 DEF Row
  <2>4. Head(dbQueue).hash = session.hash
    <3>1. Len(dbQueue) = 1 /\ dbQueue[1].hash = session.hash /\ dbQueue \in Seq(DbRequests)
      BY <1>1, <2>1 DEF DbDiscipline, DbOneRequest, TypeOK
    <3>2. QED
      BY <3>1
  <2>5. \/ \E t \in T!OpenSessions : data' = data \cup {T!DataRow(t)}
        \/ T!OpenSessions = {}
    <3>1. T!AddData /\ T!TypeInv /\ T!Prepared
      BY <1>3, AddsData DEF T!TablesInv
    <3>2. QED
      BY <3>1, T!AddDataIs, HashAssumption, OptionAssumption, RecorderAssumption
  <2>6. T!OpenSessions = {s}
    <3>1. \A t \in sessions : t.hash = s.hash => t = s
      BY DEF T!TablesInv, T!Dense
    <3>2. QED
      BY <2>3, <3>1 DEF T!OpenSessions, OwnRow
  <2>7. data' = data \cup {T!DataRow(s)}
    BY <2>5, <2>6
  <2>8. QED
    BY <2>3, <2>4, <2>7 DEF T!DataRow, OwnRow
<1>4. QED
  BY <1>2, <1>3

\* Every sample ends in one row, of the session it was sampled in, in this run, and of
\* no other that the file has under the same hash; with --strict as well, where a
\* session that is refused is the current one until the program ends.
THEOREM SamplesReachRow ==
  ASSUME PushResults = {TRUE}
  PROVE  RecorderSpec => SampleStored
<1> DEFINE Ready == ~exited /\ ~orphaned /\ ~Pending({"Quit"})
           Stored ==
             /\ ProcessData =>
                  dbQueue' = Append(dbQueue, [action |-> "AddData", hash |-> Head(queue).hash])
             /\ AddData =>
                  \E s \in sessions :
                    /\ OwnRow(s) /\ s.hash = Head(dbQueue).hash
                    /\ data' = data \cup {[session |-> s.id, born |-> s.born, run |-> run]}
<1>1. RowsInv /\ [RecorderNext]_everything => (Ready => Stored)
  BY SampleStep
<1>2. SampleStored <=> [][Ready => Stored]_everything
  BY DEF SampleStored
<1> HIDE DEF Ready, Stored
<1>3. QED
  BY <1>1, <1>2, RowsHold, PTL DEF RecorderSpec

\* When no descriptor's write fails there is no exception for replaced connections:
\* whatever data reaches the database queue finds its row.
THEOREM DataFindsRowIfSent ==
  ASSUME PushResults = {TRUE}
  PROVE  RecorderSpec /\ [][Sent]_everything
           => [](~exited /\ ~Pending({"Quit"}) /\ DbHolds({"AddData"}) => Row)
<1>1. RowsInv /\ ~orphaned => (~exited /\ ~Pending({"Quit"}) /\ DbHolds({"AddData"}) => Row)
  BY DEF RowsInv, DataInv
<1>2. QED
  BY <1>1, RowsHold, OneConnectionInRuns, PTL

\* What Database promises of the file holds of the program that fills it: a session
\* stays with the device it was recorded from, data with a session of its hash, and
\* a hash has one row.
THEOREM FileSound ==
  ASSUME PushResults = {TRUE}
  PROVE  RecorderSpec => [](DB!OwnDevice /\ DB!SameHash /\ DB!OneRowPerHash)
<1>1. RecorderInv => DB!OwnDevice /\ DB!SameHash /\ DB!OneRowPerHash
  <2>1. T!OneRowPerHash <=> DB!OneRowPerHash
    BY DEF T!OneRowPerHash, DB!OneRowPerHash
  <2>2. T!TablesInv => T!OwnDevice /\ T!SameHash /\ T!OneRowPerHash
    BY DEF T!TablesInv, T!Dense, T!OneRowPerHash
  <2>3. (T!OwnDevice <=> DB!OwnDevice) /\ (T!SameHash <=> DB!SameHash)
    BY DEF T!OwnDevice, DB!OwnDevice, T!SameHash, DB!SameHash
  <2>4. QED
    BY <2>1, <2>2, <2>3 DEF RecorderInv
<1>2. QED
  BY <1>1, RecorderHolds, PTL

\* Without --strict, a step of the program is one of Recording.
LEMMA NextFile ==
  ASSUME PushResults = {TRUE}, Strict = FALSE, RecorderInv, T!CurrentInv,
         [RecorderNext]_everything
  PROVE  T!CurrentInv' /\ [DB!File!Next]_(DB!File!vars)
<1>1. [T!Next]_(T!vars) /\ T!TablesInv
  BY NextRecorder, SameNext DEF RecorderInv
<1>2. T!CurrentInv'
  BY <1>1, T!NextCurrent, HashAssumption, OptionAssumption, RecorderAssumption
<1>3. [T!File!Next]_(T!File!vars)
  BY <1>1, T!FileNext, HashAssumption, OptionAssumption, RecorderAssumption
<1>4. T!Active = DB!Active /\ T!Active' = DB!Active'
  BY DEF T!Active, DB!Active, T!OpenSessions, DB!OpenSessions
<1>5. [DB!File!Next]_(DB!File!vars) <=> [T!File!Next]_(T!File!vars)
  BY <1>4 DEF DB!File!Next, T!File!Next, DB!File!vars, T!File!vars, DB!File!Open, T!File!Open,
     DB!File!Feed, T!File!Feed, DB!File!Close, T!File!Close, DB!File!Abandon, T!File!Abandon,
     DB!File!Erase, T!File!Erase
<1>6. QED
  BY <1>2, <1>3, <1>5

LEMMA InitFile == RecorderInit => T!CurrentInv /\ DB!File!Init
<1> SUFFICES ASSUME RecorderInit PROVE T!CurrentInv /\ DB!File!Init
  OBVIOUS
<1>1. T!Init
  BY SameInit DEF RecorderInit
<1>2. T!CurrentInv
  BY <1>1, T!InitCurrent, HashAssumption, OptionAssumption, RecorderAssumption
<1>3. T!File!Init
  BY <1>1, T!FileInit, HashAssumption, OptionAssumption, RecorderAssumption
<1>4. T!Active = DB!Active
  BY DEF T!Active, DB!Active, T!OpenSessions, DB!OpenSessions
<1>5. QED
  BY <1>2, <1>3, <1>4 DEF DB!File!Init, T!File!Init

\* Without --strict no session becomes current that is not recorded, and the file is
\* what Recording describes, through the queues and the tables: what ended or was
\* left behind takes no data again, data is of its own run's session, and what the
\* program believes to have ended has an end in the file.
THEOREM FileKeepsRecording ==
  ASSUME PushResults = {TRUE}, Strict = FALSE
  PROVE  RecorderSpec => DB!KeepsRecording /\ [](DB!RecordedInThisRun /\ DB!EndedIsClosed)
<1> DEFINE Inv == RecorderInv /\ T!CurrentInv
<1>1. RecorderInit => Inv /\ DB!File!Init
  BY InitRecorder, InitFile
<1>2. Inv /\ [RecorderNext]_everything => Inv' /\ [DB!File!Next]_(DB!File!vars)
  BY NextRecorder, NextFile
<1>3. Inv => DB!RecordedInThisRun /\ DB!EndedIsClosed
  BY DEF T!CurrentInv, T!RecordedInThisRun, DB!RecordedInThisRun, T!EndedIsClosed,
     DB!EndedIsClosed
<1> HIDE DEF Inv
<1>4. QED
  BY <1>1, <1>2, <1>3, PTL DEF RecorderSpec, DB!KeepsRecording, DB!File!Spec
=============================================================================
