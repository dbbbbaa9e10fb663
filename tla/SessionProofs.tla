---------------------------- MODULE SessionProofs ----------------------------
(***************************************************************************)
(* Which session a request of Reader's dispatcher queue belongs to: the    *)
(* order of the SetSession and ProcessData requests in the queue, and what  *)
(* the monitor will send behind them, for every number of connections and  *)
(* hashes and a queue of any length.                                       *)
(***************************************************************************)
EXTENDS ReaderProofs

-----------------------------------------------------------------------------
(* The session in force at a place of the queue *)

\* When the requests of q before place i are handled in session s, the session is h:
\* the last of them that sets one sets h.
InForce(q, s, i, h) ==
  \/ h = s /\ \A k \in 1 .. i - 1 : q[k].action # "SetSession"
  \/ \E j \in 1 .. i - 1 :
       /\ q[j].action = "SetSession" /\ q[j].hash = h
       /\ \A k \in j + 1 .. i - 1 : q[k].action # "SetSession"

\* Behind requests that set no session the same one is in force.
LEMMA InForceBehind ==
  ASSUME NEW q, NEW s, NEW h, NEW i \in Nat \ {0}, NEW n \in Nat, i <= n,
         \A k \in i .. n - 1 : q[k].action # "SetSession", InForce(q, s, i, h)
  PROVE  InForce(q, s, n, h)
<1>1. CASE h = s /\ \A k \in 1 .. i - 1 : q[k].action # "SetSession"
  <2>1. \A k \in 1 .. n - 1 : k \in 1 .. i - 1 \/ k \in i .. n - 1
    OBVIOUS
  <2>2. \A k \in 1 .. n - 1 : q[k].action # "SetSession"
    BY <1>1, <2>1
  <2>3. QED
    BY <1>1, <2>2 DEF InForce
<1>2. ASSUME NEW j \in 1 .. i - 1, q[j].action = "SetSession", q[j].hash = h,
             \A k \in j + 1 .. i - 1 : q[k].action # "SetSession"
      PROVE  InForce(q, s, n, h)
  <2>1. j \in 1 .. n - 1
    OBVIOUS
  <2>2. \A k \in j + 1 .. n - 1 : k \in j + 1 .. i - 1 \/ k \in i .. n - 1
    OBVIOUS
  <2>3. \A k \in j + 1 .. n - 1 : q[k].action # "SetSession"
    BY <1>2, <2>2
  <2>4. QED
    BY <1>2, <2>1, <2>3 DEF InForce
<1>3. QED
  BY <1>1, <1>2 DEF InForce

\* Handling the first request makes its session current and moves the others up.
LEMMA InForceMoves ==
  ASSUME NEW q, NEW p, NEW s, NEW t, NEW h, NEW i \in Nat \ {0},
         \A k \in 1 .. i - 1 : p[k] = q[k + 1],
         t = IF q[1].action = "SetSession" THEN q[1].hash ELSE s,
         InForce(q, s, i + 1, h)
  PROVE  InForce(p, t, i, h)
<1>1. CASE h = s /\ \A k \in 1 .. i : q[k].action # "SetSession"
  <2>1. \A k \in 1 .. i - 1 : k + 1 \in 1 .. i
    OBVIOUS
  <2>2. \A k \in 1 .. i - 1 : p[k].action # "SetSession"
    BY <1>1, <2>1
  <2>3. t = s
    BY <1>1
  <2>4. QED
    BY <1>1, <2>2, <2>3 DEF InForce
<1>2. ASSUME NEW j \in 1 .. i, q[j].action = "SetSession", q[j].hash = h,
             \A k \in j + 1 .. i : q[k].action # "SetSession"
      PROVE  InForce(p, t, i, h)
  <2>1. CASE j = 1
    <3>1. \A k \in 1 .. i - 1 : k + 1 \in j + 1 .. i
      BY <2>1
    <3>2. \A k \in 1 .. i - 1 : p[k].action # "SetSession"
      BY <1>2, <3>1
    <3>3. t = h
      BY <1>2, <2>1
    <3>4. QED
      BY <3>2, <3>3 DEF InForce
  <2>2. CASE j # 1
    <3>1. j - 1 \in 1 .. i - 1 /\ p[j - 1] = q[j]
      BY <2>2
    <3>2. \A k \in j .. i - 1 : k \in 1 .. i - 1 /\ k + 1 \in j + 1 .. i
      OBVIOUS
    <3>3. \A k \in (j - 1) + 1 .. i - 1 : p[k].action # "SetSession"
      BY <1>2, <3>2
    <3>4. QED
      BY <1>2, <3>1, <3>3 DEF InForce
  <2>3. QED
    BY <2>1, <2>2
<1>3. (i + 1) - 1 = i
  OBVIOUS
<1>4. QED
  BY <1>1, <1>2, <1>3 DEF InForce

\* What is in force at a place depends on the requests before it.
LEMMA InForceSame ==
  ASSUME NEW q, NEW p, NEW s, NEW h, NEW i \in Nat,
         \A k \in 1 .. i - 1 : p[k] = q[k], InForce(q, s, i, h)
  PROVE  InForce(p, s, i, h)
<1>1. CASE h = s /\ \A k \in 1 .. i - 1 : q[k].action # "SetSession"
  BY <1>1 DEF InForce
<1>2. ASSUME NEW j \in 1 .. i - 1, q[j].action = "SetSession", q[j].hash = h,
             \A k \in j + 1 .. i - 1 : q[k].action # "SetSession"
      PROVE  InForce(p, s, i, h)
  <2>1. \A k \in j + 1 .. i - 1 : k \in 1 .. i - 1
    OBVIOUS
  <2>2. \A k \in j + 1 .. i - 1 : p[k].action # "SetSession"
    BY <1>2, <2>1
  <2>3. QED
    BY <1>2, <2>2 DEF InForce
<1>3. QED
  BY <1>1, <1>2 DEF InForce

-----------------------------------------------------------------------------
(* What the handlers do to the queue and the session *)

\* What handlers push: requests that neither set a session nor carry data.
Quiet == Actions \ {"SetSession", "ProcessData"}
Handled == Then(<<>>) \/ \E a \in Quiet : Then(<<Rq(a)>>)

LEMMA DispatchHandled ==
  ASSUME TypeOK, Dispatch, ~Exit
  PROVE  /\ queue # <<>> /\ Handled
         /\ session'.hash = IF Head(queue).action = "SetSession"
                            THEN Head(queue).hash ELSE session.hash
<1>1. {"Connect", "Reconnect", "Quit", "SendDescriptor", "RequestSession", "StartStream"}
        \subseteq Quiet
  BY DEF Quiet, Actions
<1>2. CASE PrepareData \/ Connect \/ SendDescriptor
  <2>1. Handled
    BY <1>1, <1>2 DEF PrepareData, Connect, SendDescriptor, TryConnect, Handled
  <2>2. queue # <<>> /\ Head(queue).action # "SetSession" /\ session' = session
    BY <1>2 DEF PrepareData, Connect, SendDescriptor, Turn
  <2>3. QED
    BY <2>1, <2>2
<1>3. ASSUME NEW up \in BOOLEAN, Reconnect(up)
      PROVE  /\ queue # <<>> /\ Handled
             /\ Head(queue).action # "SetSession" /\ session' = session
  <2>1. Handled
    BY <1>1, <1>3 DEF Reconnect, TryConnect, Handled
  <2>2. queue # <<>> /\ Head(queue).action # "SetSession" /\ session' = session
    BY <1>3 DEF Reconnect, Turn
  <2>3. QED
    BY <2>1, <2>2
<1>4. CASE RequestSession
  <2>1. Handled /\ queue # <<>> /\ Head(queue).action # "SetSession"
    BY <1>4 DEF RequestSession, Turn, Handled
  <2>2. session'.hash = session.hash
    BY <1>4 DEF RequestSession, ArmSessionTimer, TypeOK
  <2>3. QED
    BY <2>1, <2>2
<1>5. CASE SetSession
  <2>1. Then(<<Rq("Quit")>>) \/ Then(<<Rq("StartStream")>>) \/ Then(<<>>)
    BY <1>5, OptionAssumption DEF SetSession
  <2>2. queue # <<>> /\ Head(queue).action = "SetSession"
    BY <1>5 DEF SetSession, Turn
  <2>3. session'.hash = Head(queue).hash
    BY <1>5 DEF SetSession, TypeOK
  <2>4. QED
    BY <1>1, <2>1, <2>2, <2>3 DEF Handled
<1>6. CASE StartStream \/ ProcessData \/ (Status /\ ~Exit)
  <2>1. Handled
    BY <1>6 DEF StartStream, ProcessData, Status, Handled
  <2>2. queue # <<>> /\ Head(queue).action # "SetSession" /\ session' = session
    BY <1>6 DEF StartStream, ProcessData, Status, Turn
  <2>3. QED
    BY <2>1, <2>2
<1>7. QED
  BY <1>2, <1>3, <1>4, <1>5, <1>6 DEF Dispatch, Throw, Quit

\* The requests behind the one that is handled move up, and what is pushed is quiet.
LEMMA HandledQueue ==
  ASSUME queue \in Seq(Requests), queue # <<>>, Handled
  PROVE  /\ queue' \in Seq(Requests) /\ Len(queue') >= Len(queue) - 1
         /\ \A k \in 1 .. Len(queue) - 1 : queue'[k] = queue[k + 1]
         /\ \A k \in Len(queue) .. Len(queue') : queue'[k].action \in Quiet
<1>1. /\ Tail(queue) \in Seq(Requests) /\ Len(Tail(queue)) = Len(queue) - 1
      /\ \A k \in 1 .. Len(queue) - 1 : Tail(queue)[k] = queue[k + 1]
  OBVIOUS
<1> DEFINE q == Tail(queue)
           n == Len(queue)
<1>2. n \in Nat \ {0}
  OBVIOUS
<1> HIDE DEF q, n
<1>3. q \in Seq(Requests) /\ Len(q) = n - 1
  BY <1>1 DEF q, n
<1>4. CASE Then(<<>>)
  <2>1. queue' = q \o <<>>
    BY <1>4 DEF Then, q
  <2>2. queue' = q
    BY <1>3, <2>1, ConcatEmptySeq
  <2>3. \A k \in n .. Len(queue') : FALSE
    BY <1>2, <1>3, <2>2
  <2>4. QED
    BY <1>1, <1>3, <2>2, <2>3 DEF q, n
<1>5. ASSUME NEW a \in Quiet, Then(<<Rq(a)>>)
      PROVE  /\ queue' \in Seq(Requests) /\ Len(queue') >= n - 1
             /\ \A k \in 1 .. n - 1 : queue'[k] = q[k]
             /\ \A k \in n .. Len(queue') : queue'[k].action \in Quiet
  <2> DEFINE r == Rq(a)
  <2>1. r \in Requests /\ r.action = a
    BY RqType DEF Quiet, Rq
  <2> HIDE DEF r
  <2>2. queue' = q \o <<r>>
    BY <1>5 DEF Then, q, r
  <2>3. /\ queue' \in Seq(Requests) /\ Len(queue') = n
        /\ \A k \in 1 .. n - 1 : queue'[k] = q[k]
        /\ queue'[n] = r
    BY <1>2, <1>3, <2>1, <2>2
  <2>4. \A k \in n .. Len(queue') : k = n
    BY <1>2, <2>3
  <2>5. QED
    BY <1>2, <2>1, <2>3, <2>4
<1>6. QED
  BY <1>1, <1>4, <1>5 DEF Handled, q, n

-----------------------------------------------------------------------------
(* Data is sampled in the session that is in force when it is handled *)

\* A connection that is not registered is idle, and as long as none was replaced
\* while it was registered there is no other than the current one.
LinkInv ==
  /\ \A c \in Conn \ sources : peer[c] = Idle
  /\ ~orphaned => sources \subseteq {conn}

\* Data that waits belongs to the session that is in force at its place, and data
\* that the monitor sends next to the one in force behind the queue.
SampledInv ==
  ~orphaned =>
    /\ \A i \in DOMAIN queue : queue[i].action = "ProcessData" =>
         InForce(queue, session.hash, i, queue[i].hash)
    /\ \A c \in sources : peer[c].hash # NoHash =>
         InForce(queue, session.hash, Len(queue) + 1, peer[c].hash)

AttributionInv == LinkInv /\ SampledInv

LEMMA InitAttribution == Init => AttributionInv
<1> SUFFICES ASSUME Init PROVE AttributionInv
  OBVIOUS
<1>1. sources = {} /\ \A c \in Conn : peer[c] = Idle
  BY DEF Init
<1>2. \A i \in DOMAIN queue : queue[i].action = "PrepareData"
  BY DEF Init, Rq
<1>3. QED
  BY <1>1, <1>2 DEF AttributionInv, LinkInv, SampledInv

\* What a connection may send after a step it could send before: a hash is only
\* granted by the monitor (ReceiveSession).
Ungranted ==
  /\ ~orphaned' => ~orphaned
  /\ \A c \in sources' : peer'[c].hash # NoHash => c \in sources /\ peer'[c].hash = peer[c].hash

LEMMA IdleHash == Idle.hash = NoHash
  BY DEF Idle

LEMMA DispatchLink ==
  ASSUME TypeOK, LinkInv, Dispatch
  PROVE  LinkInv' /\ Ungranted
<1> USE DEF LinkInv, Ungranted, TypeOK
<1>1. CASE Connect
  <2>1. /\ UNCHANGED <<conn, orphaned, peer>>
        /\ sources' = sources \/ sources' = sources \cup {conn}
    BY <1>1 DEF Connect, TryConnect
  <2>2. QED
    BY <2>1, IdleHash
<1>2. ASSUME NEW up \in BOOLEAN, Reconnect(up) PROVE LinkInv' /\ Ungranted
  <2>1. /\ conn' \in Conn \ sources /\ peer' = peer
        /\ orphaned' = (orphaned \/ conn \in sources)
        /\ sources' = sources \/ sources' = sources \cup {conn'}
    BY <1>2 DEF Reconnect, ResetConnection, TryConnect
  <2>2. ~orphaned' => ~orphaned /\ sources = {}
    BY <2>1
  <2>3. QED
    BY <2>1, <2>2, IdleHash
<1>3. CASE SendDescriptor \/ RequestSession
  <2>1. UNCHANGED <<conn, sources, orphaned>>
    BY <1>3 DEF SendDescriptor, RequestSession
  <2>2. \A c \in Conn : peer'[c].hash = peer[c].hash /\ (c \notin sources => peer'[c] = peer[c])
    <3>1. \/ peer' = peer
          \/ conn \in sources /\ peer' = [peer EXCEPT ![conn].described = TRUE]
          \/ conn \in sources /\ peer' = [peer EXCEPT ![conn].asked = @ + 1]
      BY <1>3 DEF SendDescriptor, RequestSession
    <3>2. peer \in [Conn -> [described: BOOLEAN, asked: Nat, hash: MaybeHash]]
      BY DEF Peers
    <3>3. QED
      BY <3>1, <3>2
  <2>3. QED
    BY <2>1, <2>2
<1>4. CASE UNCHANGED link
  BY <1>4 DEF link
<1>5. QED
  BY <1>1, <1>2, <1>3, <1>4 DEF Dispatch, PrepareData, Throw, SetSession, StartStream,
     ProcessData, Status, Quit, Exit

\* Data that waited, and data that was to come, keep their session.
LEMMA DispatchSampled ==
  ASSUME TypeOK, SampledInv, Ungranted, Dispatch
  PROVE  SampledInv'
<1>1. CASE Exit
  <2>1. UNCHANGED <<queue, session, sources, peer, orphaned>>
    BY <1>1 DEF Exit, loop, link
  <2>2. QED
    BY <2>1 DEF SampledInv
<1>2. CASE ~Exit
  <2> DEFINE q == queue
             p == queue'
             s == session.hash
             t == session'.hash
             n == Len(queue)
  <2>1. q \in Seq(Requests) /\ q # <<>> /\ n \in Nat \ {0} /\ Head(q) = q[1]
    BY <1>2, DispatchHandled DEF TypeOK
  <2>2. Handled /\ t = IF q[1].action = "SetSession" THEN q[1].hash ELSE s
    BY <1>2, <2>1, DispatchHandled
  <2>3. /\ p \in Seq(Requests) /\ Len(p) >= n - 1
        /\ \A k \in 1 .. n - 1 : p[k] = q[k + 1]
        /\ \A k \in n .. Len(p) : p[k].action \in Quiet
    BY <2>1, <2>2, HandledQueue
  <2> SUFFICES ASSUME ~orphaned'
               PROVE  /\ \A i \in DOMAIN p : p[i].action = "ProcessData" =>
                           InForce(p, t, i, p[i].hash)
                      /\ \A c \in sources' : peer'[c].hash # NoHash =>
                           InForce(p, t, Len(p) + 1, peer'[c].hash)
    BY DEF SampledInv
  <2>4. ~orphaned
    BY DEF Ungranted
  <2>5. /\ \A i \in DOMAIN q : q[i].action = "ProcessData" => InForce(q, s, i, q[i].hash)
        /\ \A c \in sources : peer[c].hash # NoHash => InForce(q, s, n + 1, peer[c].hash)
    BY <2>4 DEF SampledInv
  <2>6. \A c \in sources' : peer'[c].hash # NoHash =>
          c \in sources /\ peer'[c].hash = peer[c].hash
    BY DEF Ungranted
  <2> HIDE DEF q, p, s, t, n
  <2>7. n = Len(q) /\ DOMAIN q = 1 .. n /\ DOMAIN p = 1 .. Len(p) /\ Len(p) \in Nat
    BY <2>1, <2>3 DEF n, q
  <2>8. ASSUME NEW i \in DOMAIN p, p[i].action = "ProcessData"
        PROVE  InForce(p, t, i, p[i].hash)
    <3>1. i \notin n .. Len(p)
      BY <2>3, <2>8 DEF Quiet
    <3>2. i \in 1 .. n - 1 /\ i + 1 \in DOMAIN q
      BY <2>1, <2>7, <3>1
    <3>3. InForce(q, s, i + 1, p[i].hash)
      BY <2>3, <2>5, <2>8, <3>2
    <3>4. \A k \in 1 .. i - 1 : p[k] = q[k + 1]
      BY <2>1, <2>3, <3>2
    <3>5. QED
      BY <2>2, <3>2, <3>3, <3>4, InForceMoves
  <2>9. ASSUME NEW c \in sources', peer'[c].hash # NoHash
        PROVE  InForce(p, t, Len(p) + 1, peer'[c].hash)
    <3>1. InForce(q, s, n + 1, peer'[c].hash)
      BY <2>5, <2>6, <2>9
    <3>2. InForce(p, t, n, peer'[c].hash)
      BY <2>1, <2>2, <2>3, <3>1, InForceMoves
    <3>3. \A k \in n .. (Len(p) + 1) - 1 : p[k].action # "SetSession"
      BY <2>3, <2>7 DEF Quiet
    <3>4. n <= Len(p) + 1 /\ Len(p) + 1 \in Nat
      BY <2>1, <2>3, <2>7
    <3>5. QED
      BY <2>1, <3>2, <3>3, <3>4, InForceBehind
  <2>10. QED
    BY <2>8, <2>9
<1>3. QED
  BY <1>1, <1>2

\* A request joins the end of the queue: data in the session in force there; a
\* granted session is in force behind it and the monitor samples in no other.
LEMMA PushSampled ==
  ASSUME TypeOK, SampledInv, NEW rq \in Requests, Push(rq), session' = session,
         ~orphaned' => ~orphaned,
         rq.action # "SetSession" => Ungranted,
         rq.action = "SetSession" /\ ~orphaned =>
           \A c \in sources' : peer'[c].hash # NoHash => peer'[c].hash = rq.hash,
         rq.action = "ProcessData" /\ ~orphaned =>
           InForce(queue, session.hash, Len(queue) + 1, rq.hash)
  PROVE  SampledInv'
<1> DEFINE q == queue
           p == queue'
           s == session.hash
           n == Len(queue)
<1>1. q \in Seq(Requests) /\ n \in Nat /\ DOMAIN q = 1 .. n
  BY DEF TypeOK
<1>2. /\ p \in Seq(Requests) /\ Len(p) = n + 1 /\ DOMAIN p = 1 .. n + 1
      /\ p[n + 1] = rq
      /\ \A k \in 1 .. n : p[k] = q[k]
  BY <1>1 DEF Push
<1> SUFFICES ASSUME ~orphaned'
             PROVE  /\ \A i \in DOMAIN p : p[i].action = "ProcessData" =>
                         InForce(p, s, i, p[i].hash)
                    /\ \A c \in sources' : peer'[c].hash # NoHash =>
                         InForce(p, s, Len(p) + 1, peer'[c].hash)
  BY DEF SampledInv
<1>3. /\ \A i \in DOMAIN q : q[i].action = "ProcessData" => InForce(q, s, i, q[i].hash)
      /\ \A c \in sources : peer[c].hash # NoHash => InForce(q, s, n + 1, peer[c].hash)
      /\ rq.action = "ProcessData" => InForce(q, s, n + 1, rq.hash)
  BY DEF SampledInv
<1>4. rq.action = "SetSession" =>
        \A c \in sources' : peer'[c].hash # NoHash => peer'[c].hash = rq.hash
  OBVIOUS
<1>5. rq.action # "SetSession" =>
        \A c \in sources' : peer'[c].hash # NoHash =>
          c \in sources /\ peer'[c].hash = peer[c].hash
  BY DEF Ungranted
<1> HIDE DEF q, p, s, n
<1>6. ASSUME NEW i \in DOMAIN p, p[i].action = "ProcessData"
      PROVE  InForce(p, s, i, p[i].hash)
  <2>1. i \in 1 .. n + 1 /\ i \in Nat
    BY <1>1, <1>2
  <2>2. InForce(q, s, i, p[i].hash)
    <3>1. CASE i = n + 1
      BY <1>2, <1>3, <1>6, <3>1
    <3>2. CASE i # n + 1
      <4>1. i \in 1 .. n
        BY <1>1, <2>1, <3>2
      <4>2. QED
        BY <1>1, <1>2, <1>3, <1>6, <4>1
    <3>3. QED
      BY <3>1, <3>2
  <2>3. \A k \in 1 .. i - 1 : p[k] = q[k]
    BY <1>1, <1>2, <2>1
  <2>4. QED
    BY <2>1, <2>2, <2>3, InForceSame
<1>7. ASSUME NEW c \in sources', peer'[c].hash # NoHash
      PROVE  InForce(p, s, Len(p) + 1, peer'[c].hash)
  <2>1. CASE rq.action = "SetSession"
    <3>1. peer'[c].hash = p[n + 1].hash /\ p[n + 1].action = "SetSession"
      BY <1>2, <1>4, <1>7, <2>1
    <3>2. n + 1 \in 1 .. (Len(p) + 1) - 1
      BY <1>1, <1>2
    <3>3. \A k \in (n + 1) + 1 .. (Len(p) + 1) - 1 : FALSE
      BY <1>1, <1>2
    <3>4. QED
      BY <3>1, <3>2, <3>3 DEF InForce
  <2>2. CASE rq.action # "SetSession"
    <3>1. InForce(q, s, n + 1, peer'[c].hash)
      BY <1>3, <1>5, <1>7, <2>2
    <3>2. \A k \in 1 .. (n + 1) - 1 : p[k] = q[k]
      BY <1>1, <1>2
    <3>3. InForce(p, s, n + 1, peer'[c].hash)
      BY <1>1, <3>1, <3>2, InForceSame
    <3>4. \A k \in n + 1 .. (n + 2) - 1 : p[k].action # "SetSession"
      BY <1>1, <1>2, <2>2
    <3>5. InForce(p, s, n + 2, peer'[c].hash)
      BY <1>1, <3>3, <3>4, InForceBehind
    <3>6. Len(p) + 1 = n + 2
      BY <1>1, <1>2
    <3>7. QED
      BY <3>5, <3>6
  <2>3. QED
    BY <2>1, <2>2
<1>8. QED
  BY <1>6, <1>7

\* Nothing joins the queue.
LEMMA UnpushedSampled ==
  ASSUME TypeOK, SampledInv, Ungranted, queue' = queue, session'.hash = session.hash
  PROVE  SampledInv'
  BY DEF SampledInv, Ungranted

LEMMA EventAttribution ==
  ASSUME TypeOK, AttributionInv, NEW c \in Conn,
         ReceiveSession(c) \/ ReceiveData(c) \/ ReceiveStatus(c) \/ ConnectionLost(c)
  PROVE  AttributionInv'
<1> USE DEF AttributionInv
<1>1. CASE ReceiveSession(c)
  <2>1. PICK h \in Hash, fit \in {TRUE, ~Strict} :
          /\ Receive(c, [action |-> "SetSession", hash |-> h, fit |-> fit])
          /\ peer' = [peer EXCEPT ![c].asked = @ - 1, ![c].hash = h]
    BY <1>1 DEF ReceiveSession
  <2> DEFINE rq == [action |-> "SetSession", hash |-> h, fit |-> fit]
  <2>2. rq \in Requests /\ rq.action = "SetSession" /\ rq.hash = h
    BY OptionAssumption DEF Requests, Actions, MaybeHash
  <2> HIDE DEF rq
  <2>3. /\ c \in sources /\ Push(rq) /\ UNCHANGED <<session, orphaned, sources, conn>>
    BY <2>1 DEF Receive, rq
  <2>4. /\ \A d \in Conn \ {c} : peer'[d] = peer[d]
        /\ peer'[c].hash = h
    BY <2>1 DEF TypeOK, Peers
  <2>5. LinkInv'
    BY <2>3, <2>4 DEF LinkInv
  <2>6. ~orphaned => \A d \in sources' : d = c
    BY <2>3 DEF LinkInv
  <2>7. SampledInv'
    BY <2>2, <2>3, <2>4, <2>6, PushSampled
  <2>8. QED
    BY <2>5, <2>7
<1>2. CASE ReceiveData(c)
  <2> DEFINE rq == [action |-> "ProcessData", hash |-> peer[c].hash, fit |-> TRUE]
  <2>1. rq \in Requests /\ rq.action = "ProcessData" /\ rq.hash = peer[c].hash
    BY DEF Requests, Actions, TypeOK, Peers
  <2> HIDE DEF rq
  <2>2. /\ c \in sources /\ peer[c].hash # NoHash
        /\ Push(rq) /\ UNCHANGED <<session, orphaned, sources, conn, peer>>
    BY <1>2 DEF ReceiveData, Receive, rq
  <2>3. ~orphaned => InForce(queue, session.hash, Len(queue) + 1, rq.hash)
    BY <2>1, <2>2 DEF SampledInv
  <2>4. Ungranted
    BY <2>2 DEF Ungranted
  <2>5. SampledInv'
    BY <2>1, <2>2, <2>3, <2>4, PushSampled
  <2>6. QED
    BY <2>2, <2>5 DEF LinkInv
<1>3. CASE ReceiveStatus(c)
  <2>1. PICK fit \in BOOLEAN :
          Receive(c, [action |-> "Status", hash |-> NoHash, fit |-> fit])
    BY <1>3 DEF ReceiveStatus
  <2> DEFINE rq == [action |-> "Status", hash |-> NoHash, fit |-> fit]
  <2>2. rq \in Requests /\ rq.action = "Status"
    BY DEF Requests, Actions, MaybeHash
  <2> HIDE DEF rq
  <2>3. Push(rq) /\ UNCHANGED <<session, orphaned, sources, conn, peer>>
    BY <1>3, <2>1 DEF ReceiveStatus, Receive, rq
  <2>4. Ungranted
    BY <2>3 DEF Ungranted
  <2>5. SampledInv'
    BY <2>2, <2>3, <2>4, PushSampled
  <2>6. QED
    BY <2>3, <2>5 DEF LinkInv
<1>4. CASE ConnectionLost(c)
  <2>1. Rq("Reconnect") \in Requests /\ Rq("Reconnect").action = "Reconnect"
    BY RqType DEF Actions, Rq
  <2>2. /\ Push(Rq("Reconnect")) /\ Unregistered(c)
        /\ UNCHANGED <<session, orphaned, conn>>
    BY <1>4 DEF ConnectionLost
  <2>3. /\ sources' = sources \ {c} /\ peer'[c] = Idle
        /\ \A d \in Conn \ {c} : peer'[d] = peer[d]
    BY <2>2 DEF Unregistered, TypeOK
  <2>4. Ungranted
    BY <2>2, <2>3 DEF Ungranted, TypeOK
  <2>5. SampledInv'
    BY <2>1, <2>2, <2>4, PushSampled
  <2>6. LinkInv'
    BY <2>2, <2>3 DEF LinkInv
  <2>7. QED
    BY <2>5, <2>6
<1>5. QED
  BY <1>1, <1>2, <1>3, <1>4

\* A timer that drops the current connection leaves none that could still be read.
LEMMA DropAttribution ==
  ASSUME TypeOK, AttributionInv, DropConnection, session' = session
  PROVE  AttributionInv'
<1> USE DEF AttributionInv
<1>1. /\ sources' = sources \ {conn} /\ peer'[conn] = Idle
      /\ \A d \in Conn \ {conn} : peer'[d] = peer[d]
      /\ orphaned' = orphaned
  BY DEF DropConnection, Unregistered, ResetConnection, TypeOK
<1>2. LinkInv'
  BY <1>1 DEF LinkInv
<1>3. Ungranted
  BY <1>1 DEF Ungranted, TypeOK
<1>4. SampledInv'
  <2>1. CASE conn \in sources
    <3>1. Push(Rq("Reconnect"))
      BY <2>1 DEF DropConnection
    <3>2. Rq("Reconnect") \in Requests /\ Rq("Reconnect").action = "Reconnect"
      BY RqType DEF Actions, Rq
    <3>3. QED
      BY <1>1, <1>3, <3>1, <3>2, PushSampled
  <2>2. CASE conn \notin sources
    <3>1. queue' = queue
      BY <2>2 DEF DropConnection
    <3>2. QED
      BY <1>3, <3>1, UnpushedSampled
  <2>3. QED
    BY <2>1, <2>2
<1>5. QED
  BY <1>2, <1>4

\* Steps that touch neither the queue nor a connection.
LEMMA AsideAttribution ==
  ASSUME TypeOK, AttributionInv, UNCHANGED <<queue, link>>, session'.hash = session.hash
  PROVE  AttributionInv'
<1>1. LinkInv' /\ Ungranted
  BY DEF AttributionInv, LinkInv, Ungranted, link
<1>2. QED
  BY <1>1, UnpushedSampled DEF AttributionInv

LEMMA NextAttribution == TypeOK /\ AttributionInv /\ [Next]_vars => AttributionInv'
<1> SUFFICES ASSUME TypeOK, AttributionInv, [Next]_vars PROVE AttributionInv'
  OBVIOUS
<1>1. CASE Dispatch
  BY <1>1, DispatchLink, DispatchSampled DEF AttributionInv
<1>2. CASE DbStep
  <2>1. UNCHANGED <<queue, link>>
    BY <1>2 DEF DbStep, CheckDatabase, InitDatabase, AddDevice, AddSession, EndSession,
       AddData, DbHandles
  <2>2. session'.hash = session.hash
    BY <1>2 DEF DbStep, CheckDatabase, InitDatabase, AddDevice, AddSession, EndSession,
       AddData, TypeOK
  <2>3. QED
    BY <2>1, <2>2, AsideAttribution
<1>3. ASSUME NEW c \in Conn,
             ReceiveSession(c) \/ ReceiveData(c) \/ ReceiveStatus(c) \/ ConnectionLost(c)
      PROVE  AttributionInv'
  BY <1>3, EventAttribution
<1>4. CASE SessionTimerExpires
  <2>1. session' = session /\ (UNCHANGED <<queue, link>> \/ DropConnection)
    BY <1>4 DEF SessionTimerExpires
  <2>2. QED
    BY <2>1, DropAttribution, AsideAttribution
<1>5. CASE InactivityTick
  <2>1. session' = session /\ (UNCHANGED <<queue, link>> \/ DropConnection)
    BY <1>5 DEF InactivityTick
  <2>2. QED
    BY <2>1, DropAttribution, AsideAttribution
<1>6. CASE UNCHANGED vars
  BY <1>6, AsideAttribution DEF vars, loop
<1>7. QED
  BY <1>1, <1>2, <1>3, <1>4, <1>5, <1>6 DEF Next

LEMMA AttributionShows == TypeOK /\ AttributionInv => Attributed
<1> SUFFICES ASSUME TypeOK, AttributionInv, ~orphaned, queue # <<>>,
                    Head(queue).action = "ProcessData"
             PROVE  Head(queue).hash = session.hash
  BY DEF Attributed
<1>1. 1 \in DOMAIN queue /\ Head(queue) = queue[1]
  BY DEF TypeOK
<1>2. InForce(queue, session.hash, 1, queue[1].hash)
  BY <1>1 DEF AttributionInv, SampledInv
<1>3. \A j \in 1 .. 1 - 1 : FALSE
  OBVIOUS
<1>4. QED
  BY <1>1, <1>2, <1>3 DEF InForce

\* As long as no registered connection was replaced, the data that is handled next
\* was sampled in the current session, however many sessions were granted, lost and
\* granted again while it waited (doProcessData records it under the current one).
THEOREM AttributedKept == Spec => []Attributed
<1>1. Spec => []AttributionInv
  BY TypeCorrect, InitAttribution, NextAttribution, PTL DEF Spec
<1>2. QED
  BY <1>1, TypeCorrect, AttributionShows, PTL

-----------------------------------------------------------------------------
(* One connection, when descriptors are sent *)

\* The requests that end in an attempt to connect; at most one waits.
Attempts == {"PrepareData", "Connect", "Reconnect"}
Once(q) ==
  \A i, k \in 1 .. Len(q) : q[i].action \in Attempts /\ q[k].action \in Attempts => i = k

\* The next connection is attempted once, and when the source of the last is gone.
OnceInv ==
  /\ ~orphaned /\ sources \subseteq {conn}
  /\ Once(queue)
  /\ Pending(Attempts) => conn \notin sources

\* A handler moves the requests up and may add one.
LEMMA ThenPlaces ==
  ASSUME queue \in Seq(Requests), queue # <<>>, NEW n, n = Len(queue)
  PROVE  /\ n \in Nat \ {0} /\ Head(queue) = queue[1]
         /\ Then(<<>>) =>
              /\ Len(queue') = n - 1 /\ queue' \in Seq(Requests)
              /\ \A k \in 1 .. n - 1 : queue'[k] = queue[k + 1]
         /\ \A a \in Actions : Then(<<Rq(a)>>) =>
              /\ Len(queue') = n /\ queue'[n].action = a /\ queue' \in Seq(Requests)
              /\ \A k \in 1 .. n - 1 : queue'[k] = queue[k + 1]
<1> DEFINE q == Tail(queue)
<1>1. /\ n \in Nat \ {0} /\ Head(queue) = queue[1]
      /\ q \in Seq(Requests) /\ Len(q) = n - 1
      /\ \A k \in 1 .. n - 1 : q[k] = queue[k + 1]
  OBVIOUS
<1> HIDE DEF q
<1>2. ASSUME Then(<<>>) PROVE queue' = q
  BY <1>1, <1>2, ConcatEmptySeq DEF Then, q
<1>3. ASSUME NEW a \in Actions, Then(<<Rq(a)>>)
      PROVE  /\ Len(queue') = n /\ queue'[n].action = a /\ queue' \in Seq(Requests)
             /\ \A k \in 1 .. n - 1 : queue'[k] = q[k]
  <2> DEFINE r == Rq(a)
  <2>1. r \in Requests /\ r.action = a
    BY RqType DEF Rq
  <2> HIDE DEF r
  <2>2. queue' = q \o <<r>>
    BY <1>3 DEF Then, q, r
  <2>3. QED
    BY <1>1, <2>1, <2>2
<1>4. QED
  BY <1>1, <1>2, <1>3

\* An attempt that is handled is gone, and so is the reason against another.
LEMMA OnceThen ==
  ASSUME queue \in Seq(Requests), queue # <<>>, Once(queue), NEW a \in Actions,
         Then(<<>>) \/ Then(<<Rq(a)>>)
  PROVE  /\ a \notin Attempts => Once(queue') /\ (Pending(Attempts)' => Pending(Attempts))
         /\ Head(queue).action \in Attempts =>
              Once(queue') /\ (a \notin Attempts => ~Pending(Attempts)')
<1> DEFINE n == Len(queue)
           m == Len(queue')
<1>1. /\ n \in Nat \ {0} /\ Head(queue) = queue[1] /\ m \in {n - 1, n}
      /\ queue' \in Seq(Requests)
      /\ \A k \in 1 .. n - 1 : queue'[k] = queue[k + 1]
      /\ m = n => queue'[n].action = a
  BY ThenPlaces
<1>2. DOMAIN queue = 1 .. n /\ DOMAIN queue' = 1 .. m
  BY <1>1
<1>3. /\ \A i, k \in 1 .. n : queue[i].action \in Attempts /\ queue[k].action \in Attempts => i = k
      /\ Once(queue') <=> \A i, k \in 1 .. m :
           queue'[i].action \in Attempts /\ queue'[k].action \in Attempts => i = k
  BY DEF Once
<1> HIDE DEF n, m
<1>4. \A k \in 1 .. m : \/ k \in 1 .. n - 1 /\ k + 1 \in 1 .. n /\ queue'[k] = queue[k + 1]
                        \/ k = n /\ m = n /\ queue'[k].action = a
  BY <1>1
<1>5. ASSUME a \notin Attempts PROVE Once(queue') /\ (Pending(Attempts)' => Pending(Attempts))
  <2>1. \A k \in 1 .. m : queue'[k].action \in Attempts =>
          k \in 1 .. n - 1 /\ k + 1 \in 1 .. n /\ queue[k + 1].action \in Attempts
    BY <1>4, <1>5
  <2>2. Once(queue')
    <3> SUFFICES ASSUME NEW i \in 1 .. m, NEW k \in 1 .. m,
                        queue'[i].action \in Attempts, queue'[k].action \in Attempts
                 PROVE  i = k
      BY <1>3
    <3>1. i + 1 = k + 1
      BY <1>3, <2>1
    <3>2. QED
      BY <1>1, <2>1, <3>1
  <2>3. Pending(Attempts)' => Pending(Attempts)
    BY <1>2, <2>1 DEF Pending
  <2>4. QED
    BY <2>2, <2>3
<1>6. ASSUME queue[1].action \in Attempts
      PROVE  Once(queue') /\ (a \notin Attempts => ~Pending(Attempts)')
  <2>1. \A k \in 2 .. n : queue[k].action \notin Attempts
    <3> TAKE k \in 2 .. n
    <3>1. 1 \in 1 .. n /\ k \in 1 .. n /\ k # 1
      BY <1>1
    <3>2. QED
      BY <1>3, <1>6, <3>1
  <2>2. \A k \in 1 .. n - 1 : k + 1 \in 2 .. n
    BY <1>1
  <2>3. \A k \in 1 .. m : queue'[k].action \in Attempts => k = n /\ a \in Attempts
    BY <1>4, <2>1, <2>2
  <2>4. Once(queue')
    BY <1>3, <2>3
  <2>5. a \notin Attempts => ~Pending(Attempts)'
    BY <1>2, <2>3 DEF Pending
  <2>6. QED
    BY <2>4, <2>5
<1>7. QED
  BY <1>1, <1>5, <1>6

LEMMA OncePush ==
  ASSUME queue \in Seq(Requests), Once(queue), NEW r \in Requests, Push(r)
  PROVE  /\ r.action \notin Attempts => Once(queue') /\ (Pending(Attempts)' => Pending(Attempts))
         /\ ~Pending(Attempts) => Once(queue')
<1> DEFINE n == Len(queue)
<1>1. /\ n \in Nat /\ Len(queue') = n + 1 /\ queue'[n + 1] = r
      /\ \A k \in 1 .. n : queue'[k] = queue[k]
      /\ DOMAIN queue = 1 .. n /\ DOMAIN queue' = 1 .. n + 1
  BY DEF Push
<1>2. \A i, k \in 1 .. n : queue[i].action \in Attempts /\ queue[k].action \in Attempts => i = k
  BY DEF Once
<1> HIDE DEF n
<1>3. \A k \in 1 .. n + 1 : k \in 1 .. n \/ k = n + 1
  BY <1>1
<1>4. ASSUME r.action \notin Attempts
      PROVE  Once(queue') /\ (Pending(Attempts)' => Pending(Attempts))
  BY <1>1, <1>2, <1>3, <1>4 DEF Once, Pending
<1>5. ASSUME ~Pending(Attempts) PROVE Once(queue')
  <2>1. \A k \in 1 .. n : queue[k].action \notin Attempts
    BY <1>1, <1>5 DEF Pending
  <2>2. QED
    BY <1>1, <1>3, <2>1 DEF Once
<1>6. QED
  BY <1>4, <1>5

LEMMA InitOnce == Init => OnceInv
<1> SUFFICES ASSUME Init PROVE OnceInv
  OBVIOUS
<1>1. Len(queue) = 1 /\ sources = {} /\ ~orphaned
  BY DEF Init
<1>2. \A i, k \in 1 .. Len(queue) : i = k
  BY <1>1
<1>3. QED
  BY <1>1, <1>2 DEF OnceInv, Once

LEMMA DispatchOnce ==
  ASSUME TypeOK, OnceInv, Dispatch, Sent
  PROVE  OnceInv'
<1> USE DEF OnceInv
<1>1. CASE Exit
  BY <1>1 DEF Exit, loop, link, Pending
<1>2. CASE PrepareData
  <2>1. /\ queue \in Seq(Requests) /\ queue # <<>> /\ Head(queue).action \in Attempts
        /\ UNCHANGED <<sources, conn, orphaned>>
    BY <1>2 DEF PrepareData, Turn, link, TypeOK, Attempts
  <2>2. PICK a \in {"Connect", "Quit"} : Then(<<Rq(a)>>)
    BY <1>2 DEF PrepareData
  <2>3. Once(queue')
    BY <2>1, <2>2, OnceThen DEF Actions
  <2>4. conn \notin sources
    BY <2>1 DEF Pending
  <2>5. QED
    BY <2>1, <2>3, <2>4
<1>3. ASSUME NEW up \in BOOLEAN, TryConnect(up), conn' \in Conn, ~orphaned',
             queue \in Seq(Requests), queue # <<>>, Head(queue).action \in Attempts,
             conn \notin sources
      PROVE  OnceInv'
  <2>1. sources = {}
    BY <1>3
  <2>2. CASE up = TRUE
    <3>1. Then(<<Rq("SendDescriptor")>>) /\ sources' = {conn'}
      BY <1>3, <2>1, <2>2 DEF TryConnect
    <3>2. "SendDescriptor" \in Actions /\ "SendDescriptor" \notin Attempts
      BY DEF Actions, Attempts
    <3>3. Once(queue') /\ ~Pending(Attempts)'
      BY <1>3, <3>1, <3>2, OnceThen
    <3>4. QED
      BY <1>3, <3>1, <3>3
  <2>3. CASE up = FALSE
    <3>1. Then(<<Rq("Reconnect")>>) /\ sources' = {}
      BY <1>3, <2>1, <2>3 DEF TryConnect
    <3>2. Once(queue')
      BY <1>3, <3>1, OnceThen DEF Actions
    <3>3. QED
      BY <1>3, <3>1, <3>2
  <2>4. QED
    BY <2>2, <2>3
<1>4. CASE Connect \/ \E up \in BOOLEAN : Reconnect(up)
  <2>1. /\ queue \in Seq(Requests) /\ queue # <<>> /\ Head(queue).action \in Attempts
        /\ \E up \in BOOLEAN : TryConnect(up)
    BY <1>4 DEF Connect, Reconnect, Turn, TypeOK, Attempts
  <2>2. conn \notin sources
    BY <2>1 DEF Pending
  <2>3. conn' \in Conn /\ ~orphaned'
    BY <1>4, <2>2 DEF Connect, Reconnect, ResetConnection, TypeOK
  <2>4. QED
    BY <1>3, <2>1, <2>2, <2>3
<1>5. CASE ~Exit /\ (SendDescriptor \/ RequestSession \/ SetSession \/ StartStream
                      \/ ProcessData \/ Status)
  <2>1. /\ queue \in Seq(Requests) /\ queue # <<>>
        /\ UNCHANGED <<sources, conn, orphaned>>
    BY <1>5 DEF SendDescriptor, RequestSession, SetSession, StartStream, ProcessData, Status,
       Turn, link, TypeOK
  <2>2. \E a \in Actions \ Attempts : Then(<<>>) \/ Then(<<Rq(a)>>)
    <3>1. {"RequestSession", "Quit", "StartStream"} \subseteq Actions \ Attempts
      BY DEF Actions, Attempts
    <3>2. QED
      BY <1>5, <3>1 DEF SendDescriptor, RequestSession, SetSession, StartStream, ProcessData,
         Status, Sent
  <2>3. Once(queue') /\ (Pending(Attempts)' => Pending(Attempts))
    BY <2>1, <2>2, OnceThen
  <2>4. QED
    BY <2>1, <2>3
<1>6. QED
  BY <1>1, <1>2, <1>4, <1>5 DEF Dispatch, Throw, Quit

LEMMA DropOnce ==
  ASSUME TypeOK, OnceInv, DropConnection
  PROVE  OnceInv'
<1> USE DEF OnceInv
<1>1. /\ sources' = sources \ {conn} /\ orphaned' = orphaned
      /\ IF conn \in sources THEN Push(Rq("Reconnect")) ELSE queue' = queue
  BY DEF DropConnection, Unregistered, ResetConnection, TypeOK
<1>2. sources' = {}
  BY <1>1
<1>3. Once(queue')
  <2>1. CASE conn \in sources
    <3>1. Push(Rq("Reconnect")) /\ Rq("Reconnect") \in Requests
      BY <1>1, <2>1, RqType DEF Actions
    <3>2. QED
      BY <2>1, <3>1, OncePush DEF TypeOK
  <2>2. CASE conn \notin sources
    BY <1>1, <2>2
  <2>3. QED
    BY <2>1, <2>2
<1>4. QED
  BY <1>1, <1>2, <1>3

LEMMA EventOnce ==
  ASSUME TypeOK, OnceInv, NEW c \in Conn,
         ReceiveSession(c) \/ ReceiveData(c) \/ ReceiveStatus(c) \/ ConnectionLost(c)
  PROVE  OnceInv'
<1> USE DEF OnceInv
<1>1. PICK r \in Requests :
        /\ Push(r) /\ r.action \in {"SetSession", "ProcessData", "Status", "Reconnect"}
        /\ r.action = "Reconnect" => ConnectionLost(c)
  BY EventPush
<1>2. CASE ConnectionLost(c)
  <2>1. c = conn /\ conn \in sources /\ sources' = {} /\ UNCHANGED <<conn, orphaned>>
    BY <1>2 DEF ConnectionLost, Unregistered
  <2>2. Once(queue')
    BY <1>1, <2>1, OncePush DEF TypeOK
  <2>3. QED
    BY <2>1, <2>2
<1>3. CASE ~ConnectionLost(c)
  <2>1. UNCHANGED <<conn, sources, orphaned>>
    BY <1>3 DEF ReceiveSession, ReceiveData, ReceiveStatus, Receive
  <2>2. r.action \notin Attempts
    BY <1>1, <1>3 DEF Attempts
  <2>3. Once(queue') /\ (Pending(Attempts)' => Pending(Attempts))
    BY <1>1, <2>2, OncePush DEF TypeOK
  <2>4. QED
    BY <2>1, <2>3
<1>4. QED
  BY <1>2, <1>3

LEMMA NextOnce == TypeOK /\ OnceInv /\ [Next /\ Sent]_vars => OnceInv'
<1> SUFFICES ASSUME TypeOK, OnceInv, [Next /\ Sent]_vars PROVE OnceInv'
  OBVIOUS
<1>1. CASE Dispatch /\ Sent
  BY <1>1, DispatchOnce
<1>2. CASE UNCHANGED <<queue, link>>
  BY <1>2 DEF OnceInv, Pending, link
<1>3. CASE DbStep
  BY <1>2, <1>3 DEF DbStep, CheckDatabase, InitDatabase, AddDevice, AddSession, EndSession,
     AddData, DbHandles
<1>4. ASSUME NEW c \in Conn,
             ReceiveSession(c) \/ ReceiveData(c) \/ ReceiveStatus(c) \/ ConnectionLost(c)
      PROVE  OnceInv'
  BY <1>4, EventOnce
<1>5. CASE SessionTimerExpires \/ InactivityTick
  BY <1>2, <1>5, DropOnce DEF SessionTimerExpires, InactivityTick
<1>6. CASE UNCHANGED vars
  BY <1>2, <1>6 DEF vars, loop
<1>7. QED
  BY <1>1, <1>3, <1>4, <1>5, <1>6 DEF Next

\* When no descriptor's write fails, a connection that is replaced is no longer an
\* event source: no order of reads, of the two timers and of failed attempts to
\* connect leaves two connections, or a second Reconnect that would make them. So
\* the failed SendDescriptor is the one cause of what SingleConnection's violation
\* shows, and of every exception that the other properties make for it.
THEOREM OneConnectionIfSent == SentSpec => [](SingleConnection /\ ~orphaned)
<1>1. Init => TypeOK /\ OnceInv
  BY InitType, InitOnce
<1>2. TypeOK /\ OnceInv /\ [Next /\ Sent]_vars => (TypeOK /\ OnceInv)'
  BY NextType, NextOnce
<1>3. OnceInv => SingleConnection /\ ~orphaned
  BY DEF OnceInv, SingleConnection
<1>4. QED
  BY <1>1, <1>2, <1>3, PTL DEF SentSpec
=============================================================================
