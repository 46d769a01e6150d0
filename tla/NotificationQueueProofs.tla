---------------------- MODULE NotificationQueueProofs ----------------------
(***************************************************************************)
(* Invariance proofs for NotificationQueue, for every number of message    *)
(* beans, REST threads, notifications and page loads, whether or not the   *)
(* container joins the two sends.                                          *)
(***************************************************************************)
EXTENDS NotificationQueue, SequenceTheorems, TLAPS

USE DEF Notes, Nothing, Text, End, NoRead, sending, reading, EndMarker, Acknowledged, LeaveLoop

States == {"idle", "polling", "answered"}

LEMMA QueueGrows ==
  ASSUME TypeOK, NEW s \in Senders, sender[s] # Nothing
  PROVE  /\ sender[s] \in Notes
         /\ FirstSend(sender[s]) \in Seq(Messages)
         /\ EndMarker(sender[s]) \in Seq(Messages)
         /\ queue \o FirstSend(sender[s]) \in Seq(Messages)
         /\ queue \o FirstSend(sender[s]) \o EndMarker(sender[s]) \in Seq(Messages)
<1>1. sender[s] \in Notes
  BY DEF TypeOK
<1>2. Text(sender[s]) \in Messages /\ End(sender[s]) \in Messages
  BY <1>1 DEF Messages
<1>3. FirstSend(sender[s]) \in Seq(Messages) /\ EndMarker(sender[s]) \in Seq(Messages)
  BY <1>2 DEF FirstSend
<1>4. queue \in Seq(Messages)
  BY DEF TypeOK
<1>5. queue \o FirstSend(sender[s]) \in Seq(Messages)
  BY <1>3, <1>4, ConcatProperties
<1>6. queue \o FirstSend(sender[s]) \o EndMarker(sender[s]) \in Seq(Messages)
  BY <1>3, <1>5, ConcatProperties
<1> QED
  BY <1>1, <1>3, <1>5, <1>6

LEMMA QueueShrinks ==
  ASSUME TypeOK, queue # <<>>
  PROVE  Head(queue) \in Messages /\ Head(queue).of \in Notes /\ Tail(queue) \in Seq(Messages)
<1>1. queue \in Seq(Messages)
  BY DEF TypeOK
<1>2. Head(queue) \in Messages /\ Tail(queue) \in Seq(Messages)
  BY <1>1, HeadTailProperties
<1> QED
  BY <1>2 DEF Messages

\* The variables keep their types: every message in the queue is one of the
\* notifications', and what a request holds is a notification or nothing.
THEOREM TypeCorrect == Spec => []TypeOK
<1>1. Init => TypeOK
  BY BoundsAssumption DEF Init, TypeOK, Messages
<1>2. TypeOK /\ [Next]_vars => TypeOK'
  <2> SUFFICES ASSUME TypeOK, [Next]_vars PROVE TypeOK'
    OBVIOUS
  <2>1. ASSUME NEW s \in Senders, Sending(s) PROVE TypeOK'
    <3>1. CASE SendText(s)
      <4>1. sent + 1 \in Notes /\ sent + 1 \in 0..MaxNotes
        BY <3>1, BoundsAssumption DEF SendText, TypeOK
      <4>2. queue' \in Seq(Messages)
        <5>1. Text(sent + 1) \in Messages /\ queue \in Seq(Messages)
          BY <4>1 DEF TypeOK, Messages
        <5>2. Append(queue, Text(sent + 1)) \in Seq(Messages)
          BY <5>1, AppendProperties
        <5> QED
          BY <3>1, <5>1, <5>2 DEF SendText
      <4> QED
        BY <3>1, <4>1, <4>2 DEF SendText, TypeOK
    <3>2. CASE SendEnd(s)
      <4>1. queue' \in Seq(Messages)
        BY <3>2, QueueGrows DEF SendEnd
      <4> QED
        BY <3>2, <4>1 DEF SendEnd, TypeOK
    <3>3. CASE FailToSendText(s)
      <4>1. sent + 1 \in 0..MaxNotes
        BY <3>3, BoundsAssumption DEF FailToSendText, TypeOK
      <4> QED
        BY <3>3, <4>1 DEF FailToSendText, TypeOK
    <3>4. CASE FailToSendEnd(s)
      <4>1. queue' \in Seq(Messages)
        BY <3>4, QueueGrows DEF FailToSendEnd
      <4> QED
        BY <3>4, <4>1 DEF FailToSendEnd, TypeOK
    <3> QED
      BY <2>1, <3>1, <3>2, <3>3, <3>4 DEF Sending
  <2>2. ASSUME NEW r \in Readers, Reading(r) PROVE TypeOK'
    <3>0. /\ reader[r].at \in States /\ reader[r].page \in {"open", "left"}
          /\ reader[r].msg \in Notes \union {Nothing}
      BY DEF TypeOK, States
    <3>1. CASE StartRead(r)
      <4>1. reads + 1 \in 0..MaxReads
        BY <3>1, BoundsAssumption DEF StartRead, TypeOK
      <4>2. reader' \in [Readers -> [at : States, page : {"open", "left"}, msg : Notes \union {Nothing}]]
        <5>1. reader \in [Readers -> [at : States, page : {"open", "left"}, msg : Notes \union {Nothing}]]
          BY DEF TypeOK, States
        <5>2. reader' = [reader EXCEPT ![r].at = "polling", ![r].page = "open"]
          BY <3>1 DEF StartRead
        <5>3. "polling" \in States
          BY DEF States
        <5> QED
          BY ONLY <5>1, <5>2, <5>3
      <4>3. disturbed' \subseteq {"overlap", "failure", "unended"}
        BY <3>1 DEF StartRead, TypeOK
      <4>4. reads' = reads + 1 /\ UNCHANGED <<queue, joined, sent, sender, shown, overwritten>>
        BY <3>1 DEF StartRead, sending
      <4> QED
        BY <4>1, <4>2, <4>3, <4>4 DEF TypeOK, States
    <3>2. CASE TakeText(r)
      BY <3>0, <3>2, QueueShrinks DEF TakeText, TypeOK
    <3>3. CASE TakeEnd(r)
      BY <3>0, <3>3, QueueShrinks DEF TakeEnd, TypeOK
    <3>4. CASE FailToReceive(r)
      BY <3>0, <3>4 DEF FailToReceive, TypeOK
    <3>5. CASE LeavePage(r)
      BY <3>0, <3>5 DEF LeavePage, TypeOK
    <3>6. CASE Show(r)
      <4>1. shown' \in Seq(Notes \union {Nothing})
        BY <3>0, <3>6, AppendProperties DEF Show, TypeOK
      <4> QED
        BY <3>6, <4>1 DEF Show, TypeOK
    <3>7. CASE Drop(r)
      BY <3>7 DEF Drop, TypeOK
    <3> QED
      BY <2>2, <3>1, <3>2, <3>3, <3>4, <3>5, <3>6, <3>7 DEF Reading
  <2>3. CASE UNCHANGED vars
    BY <2>3 DEF vars, TypeOK
  <2> QED
    BY <2>1, <2>2, <2>3 DEF Next
<1> QED
  BY <1>1, <1>2, PTL DEF Spec

-----------------------------------------------------------------------------
(* What the queue is like after each action, element by element.            *)

LEMMA AfterSendText ==
  ASSUME TypeOK, NEW s \in Senders, SendText(s), ~joined
  PROVE  /\ Len(queue') = Len(queue) + 1
         /\ \A k \in 1..Len(queue) : queue'[k] = queue[k]
         /\ queue'[Len(queue) + 1] = Text(sent + 1)
<1>1. sent + 1 \in Notes
  BY BoundsAssumption DEF SendText, TypeOK
<1>2. Text(sent + 1) \in Messages /\ queue \in Seq(Messages)
  BY <1>1 DEF TypeOK, Messages
<1>3. queue' = Append(queue, Text(sent + 1))
  BY DEF SendText
<1> QED
  BY <1>2, <1>3, AppendProperties

\* A transmission that ends, with or without its end marker.
LEMMA AfterFirstSend ==
  ASSUME TypeOK, NEW s \in Senders, sender[s] # Nothing, NEW q, q = queue \o FirstSend(sender[s])
  PROVE  /\ q \in Seq(Messages)
         /\ Len(q) = Len(queue) + (IF joined THEN 1 ELSE 0)
         /\ \A k \in 1..Len(queue) : q[k] = queue[k]
         /\ joined => q[Len(queue) + 1] = Text(sender[s])
<1>1. queue \in Seq(Messages) /\ FirstSend(sender[s]) \in Seq(Messages)
  BY QueueGrows DEF TypeOK
<1>2. Len(FirstSend(sender[s])) = IF joined THEN 1 ELSE 0
  BY DEF FirstSend
<1>3. joined => FirstSend(sender[s])[1] = Text(sender[s])
  BY DEF FirstSend
<1>4. /\ q \in Seq(Messages)
      /\ Len(q) = Len(queue) + Len(FirstSend(sender[s]))
      /\ \A k \in 1..(Len(queue) + Len(FirstSend(sender[s]))) :
           q[k] = IF k <= Len(queue) THEN queue[k] ELSE FirstSend(sender[s])[k - Len(queue)]
  BY <1>1, ConcatProperties
<1>5. Len(queue) \in Nat
  BY <1>1
<1> QED
  BY <1>2, <1>3, <1>4, <1>5

LEMMA AfterSendEnd ==
  ASSUME TypeOK, NEW s \in Senders, SendEnd(s)
  PROVE  /\ Len(queue') = Len(queue) + (IF joined THEN 2 ELSE 1)
         /\ \A k \in 1..Len(queue) : queue'[k] = queue[k]
         /\ joined => queue'[Len(queue) + 1] = Text(sender[s])
         /\ queue'[Len(queue')] = End(sender[s])
<1> DEFINE q == queue \o FirstSend(sender[s])
<1>0. sender[s] # Nothing /\ queue' = q \o EndMarker(sender[s])
  BY DEF SendEnd
<1>1. /\ q \in Seq(Messages)
      /\ Len(q) = Len(queue) + (IF joined THEN 1 ELSE 0)
      /\ \A k \in 1..Len(queue) : q[k] = queue[k]
      /\ joined => q[Len(queue) + 1] = Text(sender[s])
  BY <1>0, AfterFirstSend
<1>2. EndMarker(sender[s]) \in Seq(Messages)
  BY <1>0, QueueGrows
<1>3. Len(EndMarker(sender[s])) = 1 /\ EndMarker(sender[s])[1] = End(sender[s])
  OBVIOUS
<1> HIDE DEF q
<1>4. /\ Len(queue') = Len(q) + Len(EndMarker(sender[s]))
      /\ \A k \in 1..(Len(q) + Len(EndMarker(sender[s]))) :
           queue'[k] = IF k <= Len(q) THEN q[k] ELSE EndMarker(sender[s])[k - Len(q)]
  BY <1>0, <1>1, <1>2, ConcatProperties
<1>5. Len(queue) \in Nat
  BY DEF TypeOK
<1>6. /\ Len(queue') = Len(q) + 1 /\ queue'[Len(q) + 1] = End(sender[s])
      /\ \A k \in 1..Len(q) : queue'[k] = q[k]
  BY <1>1, <1>3, <1>4, <1>5
<1>7. CASE joined
  <2>1. Len(q) = Len(queue) + 1
    BY <1>1, <1>7
  <2>2. Len(queue) + 1 \in 1..Len(q) /\ \A k \in 1..Len(queue) : k \in 1..Len(q)
    BY <1>5, <2>1
  <2> QED
    BY <1>1, <1>5, <1>6, <1>7, <2>1, <2>2
<1>8. CASE ~joined
  BY <1>1, <1>5, <1>6, <1>8
<1> QED
  BY <1>7, <1>8

LEMMA AfterFailToSendEnd ==
  ASSUME TypeOK, NEW s \in Senders, FailToSendEnd(s)
  PROVE  /\ Len(queue') = Len(queue) + (IF joined THEN 1 ELSE 0)
         /\ \A k \in 1..Len(queue) : queue'[k] = queue[k]
         /\ joined => queue'[Len(queue) + 1] = Text(sender[s])
<1>1. sender[s] # Nothing /\ queue' = queue \o FirstSend(sender[s])
  BY DEF FailToSendEnd
<1> QED
  BY <1>1, AfterFirstSend

LEMMA AfterTake ==
  ASSUME TypeOK, queue # <<>>, queue' = Tail(queue)
  PROVE  /\ Len(queue') = Len(queue) - 1
         /\ \A k \in 1..Len(queue') : queue'[k] = queue[k + 1]
         /\ Head(queue) = queue[1] /\ Len(queue) \in Nat /\ Len(queue) >= 1
<1>1. queue \in Seq(Messages)
  BY DEF TypeOK
<1> QED
  BY <1>1, HeadTailProperties

-----------------------------------------------------------------------------
\* No text is left without an end marker: it is behind it, or its sender has
\* still to send it. The invariant is inductive as it stands.
THEOREM TextsEnded == Spec => []EveryTextIsEnded
<1>1. Init => EveryTextIsEnded
  BY DEF Init, EveryTextIsEnded
<1>2. TypeOK /\ TypeOK' /\ EveryTextIsEnded /\ [Next]_vars => EveryTextIsEnded'
  <2> SUFFICES ASSUME TypeOK, TypeOK', EveryTextIsEnded, [Next]_vars, "unended" \notin disturbed',
                      NEW i \in DOMAIN queue', queue'[i].kind = "text"
               PROVE  \/ \E j \in (i + 1)..Len(queue') : queue'[j] = End(queue'[i].of)
                      \/ \E s \in Senders : sender'[s] = queue'[i].of
    BY DEF EveryTextIsEnded
  <2>0. /\ queue \in Seq(Messages) /\ queue' \in Seq(Messages)
        /\ i \in 1..Len(queue') /\ Len(queue) \in Nat /\ Len(queue') \in Nat
        /\ \A k \in 1..Len(queue) : queue[k].of \in Notes
    <3>1. queue \in Seq(Messages) /\ queue' \in Seq(Messages)
      BY DEF TypeOK
    <3>2. \A k \in 1..Len(queue) : queue[k] \in Messages
      BY <3>1
    <3> QED
      BY <3>1, <3>2 DEF Messages
  <2>1. "unended" \notin disturbed
    BY DEF Next, Sending, Reading, SendText, SendEnd, FailToSendText, FailToSendEnd, StartRead, TakeText,
       TakeEnd, FailToReceive, LeavePage, Show, Drop, vars
  <2>2. \A k \in 1..Len(queue) : queue[k].kind = "text" =>
          \/ \E j \in (k + 1)..Len(queue) : queue[j] = End(queue[k].of)
          \/ \E s \in Senders : sender[s] = queue[k].of
    BY <2>0, <2>1 DEF EveryTextIsEnded
  <2>3. ASSUME NEW s \in Senders, SendText(s)
        PROVE  \/ \E j \in (i + 1)..Len(queue') : queue'[j] = End(queue'[i].of)
               \/ \E u \in Senders : sender'[u] = queue'[i].of
    <3>1. sender'[s] = sent + 1 /\ \A u \in Senders \ {s} : sender'[u] = sender[u]
      BY <2>3 DEF SendText, TypeOK
    <3>2. sender[s] = Nothing
      BY <2>3 DEF SendText
    <3>3. CASE joined
      BY <2>0, <2>2, <2>3, <3>1, <3>2, <3>3 DEF SendText
    <3>4. CASE ~joined
      <4>1. /\ Len(queue') = Len(queue) + 1
            /\ \A k \in 1..Len(queue) : queue'[k] = queue[k]
            /\ queue'[Len(queue) + 1] = Text(sent + 1)
        BY <2>3, <3>4, AfterSendText
      <4>2. CASE i = Len(queue) + 1
        BY <3>1, <4>1, <4>2
      <4>3. CASE i \in 1..Len(queue)
        BY <2>0, <2>2, <3>1, <3>2, <4>1, <4>3
      <4> QED
        BY <2>0, <4>1, <4>2, <4>3
    <3> QED
      BY <3>3, <3>4
  <2>4. ASSUME NEW s \in Senders, SendEnd(s)
        PROVE  \/ \E j \in (i + 1)..Len(queue') : queue'[j] = End(queue'[i].of)
               \/ \E u \in Senders : sender'[u] = queue'[i].of
    <3>1. /\ Len(queue') = Len(queue) + (IF joined THEN 2 ELSE 1)
          /\ \A k \in 1..Len(queue) : queue'[k] = queue[k]
          /\ joined => queue'[Len(queue) + 1] = Text(sender[s])
          /\ queue'[Len(queue')] = End(sender[s])
      BY <2>4, AfterSendEnd
    <3>2. \A u \in Senders \ {s} : sender'[u] = sender[u]
      BY <2>4 DEF SendEnd, TypeOK
    <3>3. CASE i \in 1..Len(queue)
      <4>1. queue'[i] = queue[i] /\ Len(queue') > i
        BY <2>0, <3>1, <3>3
      <4>2. ASSUME NEW j \in (i + 1)..Len(queue), queue[j] = End(queue[i].of)
            PROVE  j \in (i + 1)..Len(queue') /\ queue'[j] = End(queue'[i].of)
        BY <2>0, <3>1, <3>3, <4>1, <4>2
      <4>3. ASSUME sender[s] = queue[i].of
            PROVE  Len(queue') \in (i + 1)..Len(queue') /\ queue'[Len(queue')] = End(queue'[i].of)
        BY <2>0, <3>1, <4>1, <4>3
      <4> QED
        BY <2>2, <3>2, <3>3, <4>1, <4>2, <4>3
    <3>4. CASE i = Len(queue) + 1 /\ joined
      BY <2>0, <3>1, <3>4
    <3>5. CASE i = Len(queue')
      BY <3>1, <3>5
    <3> QED
      BY <2>0, <3>1, <3>3, <3>4, <3>5
  <2>5. ASSUME NEW s \in Senders, FailToSendEnd(s) PROVE FALSE
    BY <2>5 DEF FailToSendEnd
  <2>6. CASE queue # <<>> /\ queue' = Tail(queue) /\ sender' = sender
    <3>1. /\ Len(queue') = Len(queue) - 1
          /\ \A k \in 1..Len(queue') : queue'[k] = queue[k + 1]
      BY <2>6, AfterTake
    <3>2. i + 1 \in 1..Len(queue) /\ queue'[i] = queue[i + 1]
      BY <2>0, <3>1
    <3>3. ASSUME NEW j \in (i + 2)..Len(queue), queue[j] = End(queue[i + 1].of)
          PROVE  j - 1 \in (i + 1)..Len(queue') /\ queue'[j - 1] = End(queue'[i].of)
      BY <2>0, <3>1, <3>2, <3>3
    <3>4. \/ \E j \in (i + 2)..Len(queue) : queue[j] = End(queue[i + 1].of)
          \/ \E u \in Senders : sender[u] = queue[i + 1].of
      BY <2>0, <2>2, <3>2
    <3> QED
      BY <2>6, <3>2, <3>3, <3>4
  <2>7. CASE queue' = queue /\ sender' = sender
    BY <2>0, <2>2, <2>7
  <2>8. ASSUME NEW s \in Senders, FailToSendText(s) PROVE queue' = queue /\ sender' = sender
    BY <2>8 DEF FailToSendText
  <2>9. ASSUME NEW r \in Readers, Reading(r)
        PROVE  ((queue # <<>> /\ queue' = Tail(queue)) \/ queue' = queue) /\ sender' = sender
    BY <2>9 DEF Reading, StartRead, TakeText, TakeEnd, FailToReceive, LeavePage, Show, Drop
  <2>10. CASE UNCHANGED vars
    BY <2>7, <2>10 DEF vars
  <2> QED
    BY <2>3, <2>4, <2>5, <2>6, <2>7, <2>8, <2>9, <2>10 DEF Next, Sending
<1> QED
  BY <1>1, <1>2, TypeCorrect, PTL DEF Spec

-----------------------------------------------------------------------------
(* OnceEach needs to know that numbers grow, that no two beans send the      *)
(* same notification, and that one not sent yet is in none of the places.    *)

Numbered ==
  /\ \A i \in DOMAIN queue : queue[i].of <= sent
  /\ \A i \in DOMAIN shown : shown[i] <= sent
  /\ \A r \in Readers : reader[r].msg <= sent
  /\ \A s \in Senders : sender[s] <= sent

SendersApart ==
  \A s, u \in Senders : sender[s] # Nothing /\ sender[s] = sender[u] => s = u

Nowhere(n) ==
  /\ \A i \in DOMAIN queue : queue[i].kind = "text" => queue[i].of # n
  /\ \A i \in DOMAIN shown : shown[i] # n
  /\ \A r \in Readers : reader[r].msg # n

Unsent == joined => \A s \in Senders : sender[s] # Nothing => Nowhere(sender[s])

OnceInv == OnceEach /\ Numbered /\ SendersApart /\ Unsent

LEMMA Typed ==
  ASSUME TypeOK
  PROVE  /\ queue \in Seq(Messages) /\ Len(queue) \in Nat /\ DOMAIN queue = 1..Len(queue)
         /\ \A i \in 1..Len(queue) : queue[i] \in Messages /\ queue[i].of \in Notes
                                     /\ queue[i] = [kind |-> queue[i].kind, of |-> queue[i].of]
         /\ shown \in Seq(Notes \union {Nothing}) /\ Len(shown) \in Nat /\ DOMAIN shown = 1..Len(shown)
         /\ \A i \in 1..Len(shown) : shown[i] \in Notes \union {Nothing}
         /\ \A r \in Readers : reader[r].msg \in Notes \union {Nothing}
         /\ \A s \in Senders : sender[s] \in Notes \union {Nothing}
         /\ sent \in Nat /\ \A n \in Notes : n \in Nat /\ n # Nothing
<1>1. queue \in Seq(Messages) /\ shown \in Seq(Notes \union {Nothing})
  BY DEF TypeOK
<1>2. \A i \in 1..Len(queue) : queue[i] \in Messages
  BY <1>1
<1>3. \A m \in Messages : m.of \in Notes /\ m = [kind |-> m.kind, of |-> m.of]
  BY DEF Messages
<1>4. \A i \in 1..Len(shown) : shown[i] \in Notes \union {Nothing}
  BY <1>1
<1>5. sent \in Nat /\ \A n \in Notes : n \in Nat /\ n # Nothing
  BY BoundsAssumption DEF TypeOK
<1>6. /\ \A r \in Readers : reader[r].msg \in Notes \union {Nothing}
      /\ \A s \in Senders : sender[s] \in Notes \union {Nothing}
  BY DEF TypeOK
<1> QED
  BY <1>1, <1>2, <1>3, <1>4, <1>5, <1>6

\* Nothing but end markers and one text that is nowhere joins the queue.
LEMMA OnceGrows ==
  ASSUME TypeOK, TypeOK', OnceEach, NEW n, Nowhere(n), UNCHANGED <<shown, reader>>,
         Len(queue') >= Len(queue), \A k \in 1..Len(queue) : queue'[k] = queue[k],
         \A k \in (Len(queue) + 1)..Len(queue') :
           queue'[k].kind = "text" => k = Len(queue) + 1 /\ queue'[k].of = n
  PROVE  OnceEach'
<1>1. /\ \A i \in DOMAIN queue' : queue'[i].kind = "text" =>
           \/ i \in DOMAIN queue /\ queue'[i] = queue[i]
           \/ i = Len(queue) + 1 /\ queue'[i].of = n
  <2>1. /\ Len(queue) \in Nat /\ DOMAIN queue = 1..Len(queue)
        /\ Len(queue') \in Nat /\ DOMAIN queue' = 1..Len(queue')
    BY DEF TypeOK
  <2>2. \A i \in 1..Len(queue') : i \in 1..Len(queue) \/ i \in (Len(queue) + 1)..Len(queue')
    BY <2>1
  <2> QED
    BY <2>1, <2>2
<1>2. \A i, j \in DOMAIN queue' : queue'[i].kind = "text" /\ queue'[i] = queue'[j] => i = j
  <2> SUFFICES ASSUME NEW i \in DOMAIN queue', NEW j \in DOMAIN queue',
                      queue'[i].kind = "text", queue'[i] = queue'[j]
               PROVE  i = j
    OBVIOUS
  <2>1. CASE i \in DOMAIN queue /\ j \in DOMAIN queue
    BY <2>1, Typed DEF OnceEach
  <2>2. CASE i \in DOMAIN queue /\ j \notin DOMAIN queue
    BY <1>1, <2>2, Typed DEF Nowhere
  <2>3. CASE i \notin DOMAIN queue /\ j \in DOMAIN queue
    BY <1>1, <2>3, Typed DEF Nowhere
  <2>4. CASE i \notin DOMAIN queue /\ j \notin DOMAIN queue
    BY <1>1, <2>4
  <2> QED
    BY <2>1, <2>2, <2>3, <2>4
<1>3. \A i \in DOMAIN queue' : queue'[i].kind = "text" =>
        /\ \A j \in DOMAIN shown : shown[j] # queue'[i].of
        /\ \A r \in Readers : reader[r].msg # queue'[i].of
  BY <1>1 DEF OnceEach, Nowhere
<1> QED
  BY <1>2, <1>3 DEF OnceEach

\* Whatever leaves the queue, the beans and what the requests hold alone.
LEMMA OnceSame ==
  ASSUME OnceInv, UNCHANGED <<joined, sender, queue, shown>>, sent' >= sent, sent \in Nat, sent' \in Nat,
         TypeOK, \A o \in Readers : reader'[o].msg = reader[o].msg
  PROVE  OnceInv'
<1>1. OnceEach'
  BY DEF OnceInv, OnceEach
<1>2. Numbered'
  <2>1. \A n \in Nat : n <= sent => n <= sent'
    OBVIOUS
  <2>2. \A n \in Notes \union {Nothing} : n \in Nat
    BY DEF Notes, Nothing
  <2> QED
    BY <2>1, <2>2, Typed DEF OnceInv, Numbered
<1>3. SendersApart'
  BY DEF OnceInv, SendersApart
<1>4. \A n : Nowhere(n) => Nowhere(n)'
  BY DEF Nowhere
<1>5. Unsent'
  BY <1>4 DEF OnceInv, Unsent
<1> QED
  BY <1>1, <1>2, <1>3, <1>5 DEF OnceInv

LEMMA OnceNext == ASSUME TypeOK, TypeOK', OnceInv, [Next]_vars PROVE OnceInv'
<1>0. OnceEach /\ Numbered /\ SendersApart /\ Unsent
  BY DEF OnceInv
<1>t. /\ Len(queue) \in Nat /\ DOMAIN queue = 1..Len(queue)
      /\ Len(shown) \in Nat /\ DOMAIN shown = 1..Len(shown)
      /\ Len(queue') \in Nat /\ DOMAIN queue' = 1..Len(queue')
      /\ Len(shown') \in Nat /\ DOMAIN shown' = 1..Len(shown')
      /\ sent \in Nat
  BY Typed DEF TypeOK
<1>m. /\ \A i \in 1..Len(queue) : queue[i].of \in Nat /\ queue[i].of # Nothing
                                  /\ queue[i] = [kind |-> queue[i].kind, of |-> queue[i].of]
      /\ \A i \in 1..Len(shown) : shown[i] \in Nat
      /\ \A r \in Readers : reader[r].msg \in Nat
      /\ \A s \in Senders : sender[s] \in Nat
  BY Typed
<1> USE <1>t, <1>m
<1>1. ASSUME NEW s \in Senders, SendText(s) PROVE OnceInv'
  <2>1. /\ sender[s] = Nothing /\ sent' = sent + 1 /\ sender'[s] = sent + 1
        /\ \A u \in Senders \ {s} : sender'[u] = sender[u]
        /\ UNCHANGED <<joined, shown, reader>>
    BY <1>1 DEF SendText, TypeOK
  <2>2. Nowhere(sent + 1)
    BY <1>0 DEF Numbered, Nowhere
  <2>3. SendersApart'
    BY <1>0, <2>1 DEF SendersApart, Numbered
  <2>4. CASE joined
    <3>1. queue' = queue
      BY <1>1, <2>4 DEF SendText
    <3>2. OnceEach'
      BY <1>0, <2>1, <3>1 DEF OnceEach
    <3>3. Numbered'
      BY <1>0, <2>1, <3>1 DEF Numbered
    <3>4. Unsent'
      BY <1>0, <2>1, <2>2, <3>1 DEF Unsent, Nowhere
    <3> QED
      BY <2>3, <3>2, <3>3, <3>4 DEF OnceInv
  <2>5. CASE ~joined
    <3>1. /\ Len(queue') = Len(queue) + 1
          /\ \A k \in 1..Len(queue) : queue'[k] = queue[k]
          /\ queue'[Len(queue) + 1] = Text(sent + 1)
      BY <1>1, <2>5, AfterSendText
    <3>2. OnceEach'
      <4>1. \A k \in (Len(queue) + 1)..Len(queue') :
              queue'[k].kind = "text" => k = Len(queue) + 1 /\ queue'[k].of = sent + 1
        BY <3>1
      <4> QED
        BY <1>0, <2>1, <2>2, <3>1, <4>1, OnceGrows
    <3>3. Numbered'
      <4>1. \A i \in 1..Len(queue') : i \in 1..Len(queue) \/ i = Len(queue) + 1
        BY <3>1
      <4>2. \A i \in 1..Len(queue') : queue'[i].of <= sent + 1
        <5>1. queue'[Len(queue) + 1].of = sent + 1
          BY <3>1
        <5>2. \A i \in 1..Len(queue) : queue'[i].of <= sent + 1
          BY <1>0, <3>1 DEF Numbered
        <5> QED
          BY <4>1, <5>1, <5>2
      <4> QED
        BY <1>0, <2>1, <4>2 DEF Numbered
    <3> QED
      BY <2>1, <2>3, <2>5, <3>2, <3>3 DEF OnceInv, Unsent
  <2> QED
    BY <2>4, <2>5
\* A transmission ends: the text is in the queue from now on.
<1>2. ASSUME NEW s \in Senders, SendEnd(s) \/ FailToSendEnd(s) PROVE OnceInv'
  <2>1. /\ sender[s] # Nothing /\ sender'[s] = Nothing
        /\ \A u \in Senders \ {s} : sender'[u] = sender[u]
        /\ UNCHANGED <<joined, sent, shown, reader>>
    BY <1>2 DEF SendEnd, FailToSendEnd, TypeOK
  <2>2. /\ Len(queue') >= Len(queue) /\ \A k \in 1..Len(queue) : queue'[k] = queue[k]
        /\ \A k \in (Len(queue) + 1)..Len(queue') :
             /\ queue'[k].of = sender[s]
             /\ queue'[k].kind = "text" => k = Len(queue) + 1 /\ joined
    <3>1. CASE SendEnd(s)
      <4>1. /\ Len(queue') = Len(queue) + (IF joined THEN 2 ELSE 1)
            /\ \A k \in 1..Len(queue) : queue'[k] = queue[k]
            /\ joined => queue'[Len(queue) + 1] = Text(sender[s])
            /\ queue'[Len(queue')] = End(sender[s])
        BY <3>1, AfterSendEnd
      <4> QED
        BY <4>1
    <3>2. CASE FailToSendEnd(s)
      <4>1. /\ Len(queue') = Len(queue) + (IF joined THEN 1 ELSE 0)
            /\ \A k \in 1..Len(queue) : queue'[k] = queue[k]
            /\ joined => queue'[Len(queue) + 1] = Text(sender[s])
        BY <3>2, AfterFailToSendEnd
      <4> QED
        BY <4>1
    <3> QED
      BY <1>2, <3>1, <3>2
  <2>3. \A k \in 1..Len(queue') : k \in 1..Len(queue) \/ k \in (Len(queue) + 1)..Len(queue')
    BY <2>2
  <2>4. OnceEach'
    <3>1. CASE joined
      <4>1. Nowhere(sender[s])
        BY <1>0, <2>1, <3>1 DEF Unsent
      <4>2. \A k \in (Len(queue) + 1)..Len(queue') :
              queue'[k].kind = "text" => k = Len(queue) + 1 /\ queue'[k].of = sender[s]
        BY <2>2
      <4> QED
        BY <1>0, <2>1, <2>2, <4>1, <4>2, OnceGrows
    <3>2. CASE ~joined
      <4>1. Nowhere(sent + 1)
        BY <1>0 DEF Numbered, Nowhere
      <4>2. \A k \in (Len(queue) + 1)..Len(queue') :
              queue'[k].kind = "text" => k = Len(queue) + 1 /\ queue'[k].of = sent + 1
        BY <2>2, <3>2
      <4> QED
        BY <1>0, <2>1, <2>2, <4>1, <4>2, OnceGrows
    <3> QED
      BY <3>1, <3>2
  <2>5. Numbered'
    <3>1. \A k \in 1..Len(queue') : queue'[k].of <= sent
      BY <1>0, <2>2, <2>3 DEF Numbered
    <3>2. \A u \in Senders : sender'[u] <= sent
      BY <1>0, <2>1 DEF Numbered
    <3> QED
      BY <1>0, <2>1, <3>1, <3>2 DEF Numbered
  <2>6. SendersApart'
    BY <1>0, <2>1 DEF SendersApart
  <2>7. Unsent'
    <3> SUFFICES ASSUME joined, NEW u \in Senders, sender'[u] # Nothing PROVE Nowhere(sender[u])'
      BY <2>1 DEF Unsent
    <3>1. u # s /\ sender'[u] = sender[u] /\ sender[u] # sender[s] /\ Nowhere(sender[u])
      BY <1>0, <2>1 DEF SendersApart, Unsent
    <3>2. \A k \in 1..Len(queue') : queue'[k].kind = "text" => queue'[k].of # sender[u]
      BY <2>2, <2>3, <3>1 DEF Nowhere
    <3> QED
      BY <2>1, <3>1, <3>2 DEF Nowhere
  <2> QED
    BY <2>4, <2>5, <2>6, <2>7 DEF OnceInv
<1>3. ASSUME NEW s \in Senders, FailToSendText(s) PROVE OnceInv'
  <2>1. sent' = sent + 1 /\ UNCHANGED <<joined, sender, queue, shown, reader>>
    BY <1>3 DEF FailToSendText
  <2> QED
    BY <2>1, OnceSame
<1>4. ASSUME NEW r \in Readers, StartRead(r) \/ FailToReceive(r) \/ LeavePage(r) PROVE OnceInv'
  <2>1. UNCHANGED <<joined, sender, sent, queue, shown>> /\ \A o \in Readers : reader'[o].msg = reader[o].msg
    <3>1. CASE StartRead(r)
      BY <3>1 DEF StartRead, TypeOK
    <3>2. CASE FailToReceive(r)
      BY <3>2 DEF FailToReceive, TypeOK
    <3>3. CASE LeavePage(r)
      BY <3>3 DEF LeavePage, TypeOK
    <3> QED
      BY <1>4, <3>1, <3>2, <3>3
  <2> QED
    BY <2>1, OnceSame
<1>5. ASSUME NEW r \in Readers, TakeText(r) \/ TakeEnd(r) PROVE OnceInv'
  <2>1. queue # <<>> /\ queue' = Tail(queue) /\ UNCHANGED <<joined, sender, sent, shown>>
    BY <1>5 DEF TakeText, TakeEnd
  <2>2. /\ Len(queue') = Len(queue) - 1
        /\ \A k \in 1..Len(queue') : queue'[k] = queue[k + 1]
        /\ Head(queue) = queue[1] /\ Len(queue) >= 1
    BY <2>1, AfterTake
  <2>3. \A k \in 1..Len(queue') : k + 1 \in 1..Len(queue)
    BY <2>2
  <2>4. /\ \A o \in Readers \ {r} : reader'[o].msg = reader[o].msg
        /\ \/ reader'[r].msg = reader[r].msg
           \/ queue[1].kind = "text" /\ reader'[r].msg = queue[1].of
    BY <1>5, <2>2 DEF TakeText, TakeEnd, TypeOK
  <2>5. OnceEach'
    <3>1. \A i, j \in 1..Len(queue') : queue'[i].kind = "text" /\ queue'[i] = queue'[j] => i = j
      <4> SUFFICES ASSUME NEW i \in 1..Len(queue'), NEW j \in 1..Len(queue'),
                          queue'[i].kind = "text", queue'[i] = queue'[j]
                   PROVE  i = j
        OBVIOUS
      <4>1. /\ i + 1 \in DOMAIN queue /\ j + 1 \in DOMAIN queue
            /\ queue[i + 1].kind = "text" /\ queue[i + 1] = queue[j + 1]
        BY <2>2, <2>3
      <4>2. i + 1 = j + 1
        BY <1>0, <4>1 DEF OnceEach
      <4> QED
        BY <4>2
    <3>2. \A k \in 1..Len(queue') : queue'[k].kind = "text" /\ queue[1].kind = "text" => queue'[k].of # queue[1].of
      <4> SUFFICES ASSUME NEW k \in 1..Len(queue'), queue'[k].kind = "text", queue[1].kind = "text",
                          queue'[k].of = queue[1].of
                   PROVE  FALSE
        OBVIOUS
      <4>1. k + 1 \in 1..Len(queue) /\ 1 \in 1..Len(queue) /\ queue[k + 1] = queue[1]
        BY <2>2, <2>3
      <4>2. k + 1 = 1
        BY <1>0, <2>2, <4>1 DEF OnceEach
      <4> QED
        BY <4>2
    <3>3. \A k \in 1..Len(queue') : queue'[k].kind = "text" =>
            /\ \A j \in DOMAIN shown : shown[j] # queue'[k].of
            /\ \A o \in Readers : reader'[o].msg # queue'[k].of
      <4> SUFFICES ASSUME NEW k \in 1..Len(queue'), queue'[k].kind = "text"
                   PROVE  /\ \A j \in DOMAIN shown : shown[j] # queue'[k].of
                          /\ \A o \in Readers : reader'[o].msg # queue'[k].of
        OBVIOUS
      <4>1. k + 1 \in DOMAIN queue /\ queue[k + 1] = queue'[k]
        BY <2>2, <2>3
      <4>2. /\ \A j \in DOMAIN shown : shown[j] # queue'[k].of
            /\ \A o \in Readers : reader[o].msg # queue'[k].of
        BY <1>0, <4>1 DEF OnceEach
      <4> QED
        BY <2>4, <3>2, <4>2
    <3>4. \A o \in Readers : reader'[o].msg # Nothing =>
            /\ \A i \in DOMAIN shown : shown[i] # reader'[o].msg
            /\ \A u \in Readers \ {o} : reader'[u].msg # reader'[o].msg
      <4>1. 1 \in DOMAIN queue
        BY <2>2
      <4>2. queue[1].kind = "text" =>
              /\ \A j \in DOMAIN shown : shown[j] # queue[1].of
              /\ \A o \in Readers : reader[o].msg # queue[1].of
        BY <1>0, <4>1 DEF OnceEach
      <4>3. \A o \in Readers : reader[o].msg # Nothing =>
              /\ \A i \in DOMAIN shown : shown[i] # reader[o].msg
              /\ \A u \in Readers \ {o} : reader[u].msg # reader[o].msg
        BY <1>0 DEF OnceEach
      <4>4. CASE reader'[r].msg = reader[r].msg
        <5>1. \A o \in Readers : reader'[o].msg = reader[o].msg
          BY <2>4, <4>4
        <5> QED
          BY <4>3, <5>1
      <4>5. CASE queue[1].kind = "text" /\ reader'[r].msg = queue[1].of
        <5>1. \A i \in DOMAIN shown : shown[i] # reader'[r].msg
          BY <4>2, <4>5
        <5>2. \A u \in Readers \ {r} : reader'[u].msg # reader'[r].msg
          BY <2>4, <4>2, <4>5
        <5> QED
          BY <2>4, <4>3, <5>1, <5>2
      <4> QED
        BY <2>4, <4>4, <4>5
    <3>5. \A i, j \in DOMAIN shown : shown[i] # Nothing /\ shown[i] = shown[j] => i = j
      BY <1>0 DEF OnceEach
    <3> QED
      BY <2>1, <3>1, <3>3, <3>4, <3>5 DEF OnceEach
  <2>6. Numbered'
    <3>1. 1 \in DOMAIN queue
      BY <2>2
    <3>2. \A k \in 1..Len(queue') : queue'[k].of <= sent
      BY <1>0, <2>2, <2>3 DEF Numbered
    <3> QED
      BY <1>0, <2>1, <2>4, <3>1, <3>2 DEF Numbered
  <2>7. SendersApart' /\ Unsent'
    <3>1. 1 \in DOMAIN queue
      BY <2>2
    <3>2. \A n : Nowhere(n) => Nowhere(n)'
      BY <2>1, <2>2, <2>3, <2>4, <3>1 DEF Nowhere
    <3> QED
      BY <1>0, <2>1, <3>2 DEF SendersApart, Unsent
  <2> QED
    BY <2>5, <2>6, <2>7 DEF OnceInv
<1>6. ASSUME NEW r \in Readers, Show(r) \/ Drop(r) PROVE OnceInv'
  <2>1. /\ UNCHANGED <<joined, sender, sent, queue>>
        /\ reader'[r].msg = Nothing /\ \A o \in Readers \ {r} : reader'[o].msg = reader[o].msg
    <3>1. CASE Show(r)
      BY <3>1 DEF Show, TypeOK
    <3>2. CASE Drop(r)
      BY <3>2 DEF Drop, TypeOK
    <3> QED
      BY <1>6, <3>1, <3>2
  <2>2. CASE Show(r)
    <3>1. shown' = Append(shown, reader[r].msg)
      BY <2>2 DEF Show
    <3>2. /\ Len(shown') = Len(shown) + 1 /\ shown'[Len(shown) + 1] = reader[r].msg
          /\ \A k \in 1..Len(shown) : shown'[k] = shown[k]
      BY <3>1, AppendProperties
    <3>3. \A k \in 1..Len(shown') : k \in 1..Len(shown) \/ k = Len(shown) + 1
      BY <3>2
    <3>4. \A i, j \in 1..Len(shown') : shown'[i] # Nothing /\ shown'[i] = shown'[j] => i = j
      <4>1. \A i, j \in 1..Len(shown) : shown[i] # Nothing /\ shown[i] = shown[j] => i = j
        BY <1>0 DEF OnceEach
      <4>2. reader[r].msg # Nothing => \A i \in 1..Len(shown) : shown[i] # reader[r].msg
        BY <1>0 DEF OnceEach
      <4> SUFFICES ASSUME NEW i \in 1..Len(shown'), NEW j \in 1..Len(shown'),
                          shown'[i] # Nothing, shown'[i] = shown'[j]
                   PROVE  i = j
        OBVIOUS
      <4>3. CASE i \in 1..Len(shown) /\ j \in 1..Len(shown)
        BY <3>2, <4>1, <4>3
      <4>4. CASE i \in 1..Len(shown) /\ j = Len(shown) + 1
        BY <3>2, <4>2, <4>4
      <4>5. CASE i = Len(shown) + 1 /\ j \in 1..Len(shown)
        BY <3>2, <4>2, <4>5
      <4> QED
        BY <3>3, <4>3, <4>4, <4>5
    <3>5. \A o \in Readers : reader'[o].msg # Nothing =>
            /\ \A i \in 1..Len(shown') : shown'[i] # reader'[o].msg
            /\ \A u \in Readers \ {o} : reader'[u].msg # reader'[o].msg
      <4>1. \A o \in Readers : reader[o].msg # Nothing =>
              /\ \A i \in 1..Len(shown) : shown[i] # reader[o].msg
              /\ \A u \in Readers \ {o} : reader[u].msg # reader[o].msg
        BY <1>0 DEF OnceEach
      <4> SUFFICES ASSUME NEW o \in Readers, reader'[o].msg # Nothing
                   PROVE  /\ \A i \in 1..Len(shown') : shown'[i] # reader'[o].msg
                          /\ \A u \in Readers \ {o} : reader'[u].msg # reader'[o].msg
        OBVIOUS
      <4>2. o # r /\ reader'[o].msg = reader[o].msg
        BY <2>1
      <4>3. \A u \in Readers \ {o} : reader'[u].msg # reader'[o].msg
        BY <2>1, <4>1, <4>2
      <4>4. shown'[Len(shown) + 1] # reader'[o].msg
        BY <3>2, <4>1, <4>2
      <4> QED
        BY <3>2, <3>3, <4>1, <4>2, <4>3, <4>4
    <3>6. \A i \in DOMAIN queue : queue[i].kind = "text" =>
            /\ \A j \in 1..Len(shown') : shown'[j] # queue[i].of
            /\ \A o \in Readers : reader'[o].msg # queue[i].of
      <4> SUFFICES ASSUME NEW i \in DOMAIN queue, queue[i].kind = "text"
                   PROVE  /\ \A j \in 1..Len(shown') : shown'[j] # queue[i].of
                          /\ \A o \in Readers : reader'[o].msg # queue[i].of
        OBVIOUS
      <4>1. /\ \A j \in DOMAIN shown : shown[j] # queue[i].of
            /\ \A o \in Readers : reader[o].msg # queue[i].of
            /\ queue[i].of # Nothing
        BY <1>0 DEF OnceEach
      <4>2. \A j \in 1..Len(shown') : shown'[j] # queue[i].of
        BY <3>2, <3>3, <4>1
      <4> QED
        BY <2>1, <4>1, <4>2
    <3>7. OnceEach'
      BY <1>0, <2>1, <3>4, <3>5, <3>6 DEF OnceEach
    <3>8. Numbered'
      <4>1. \A k \in 1..Len(shown') : shown'[k] <= sent
        BY <1>0, <3>2, <3>3 DEF Numbered
      <4> QED
        BY <1>0, <2>1, <4>1 DEF Numbered
    <3>9. Unsent'
      <4> SUFFICES ASSUME joined, NEW s \in Senders, sender[s] # Nothing PROVE Nowhere(sender[s])'
        BY <2>1 DEF Unsent
      <4>1. Nowhere(sender[s])
        BY <1>0 DEF Unsent
      <4>2. \A k \in 1..Len(shown') : shown'[k] # sender[s]
        BY <3>2, <3>3, <4>1 DEF Nowhere
      <4>3. \A o \in Readers : reader'[o].msg # sender[s]
        BY <2>1, <4>1 DEF Nowhere
      <4> QED
        BY <2>1, <4>1, <4>2, <4>3 DEF Nowhere
    <3> QED
      BY <1>0, <2>1, <3>7, <3>8, <3>9 DEF OnceInv, SendersApart
  <2>3. CASE Drop(r)
    <3>1. shown' = shown
      BY <2>3 DEF Drop
    <3>2. OnceEach' /\ Numbered'
      BY <1>0, <2>1, <3>1 DEF OnceEach, Numbered
    <3>3. Unsent'
      <4> SUFFICES ASSUME joined, NEW s \in Senders, sender[s] # Nothing PROVE Nowhere(sender[s])'
        BY <2>1 DEF Unsent
      <4>1. Nowhere(sender[s])
        BY <1>0 DEF Unsent
      <4> QED
        BY <2>1, <3>1, <4>1 DEF Nowhere
    <3> QED
      BY <1>0, <2>1, <3>2, <3>3 DEF OnceInv, SendersApart
  <2> QED
    BY <1>6, <2>2, <2>3
<1>7. CASE UNCHANGED vars
  BY <1>0, <1>7 DEF vars, OnceInv, OnceEach, Numbered, SendersApart, Unsent, Nowhere
<1> QED
  BY <1>1, <1>2, <1>3, <1>4, <1>5, <1>6, <1>7 DEF Next, Sending, Reading

\* A notification is in one place at a time and no page shows it twice.
THEOREM OnlyOnce == Spec => []OnceEach
<1>1. Init => OnceInv
  BY DEF Init, OnceInv, OnceEach, Numbered, SendersApart, Unsent
<1>2. OnceInv => OnceEach
  BY DEF OnceInv
<1> QED
  BY <1>1, <1>2, OnceNext, TypeCorrect, PTL DEF Spec

-----------------------------------------------------------------------------
(* WholeWhenUndisturbed: as long as nothing interferes, the queue is a        *)
(* sequence of texts each followed by its end marker, cut at both ends. What  *)
(* is missing at the end is what the one bean that transmits has still to     *)
(* send; what is missing in front is in the hands of the one request.        *)

Holds(r, n) == reader[r].at = "polling" /\ reader[r].msg = n

IdleHoldsNothing == \A r \in Readers : reader[r].at = "idle" => reader[r].msg = Nothing

OneReader == \A r, o \in Readers : reader[r].at # "idle" /\ reader[o].at # "idle" => r = o

OneSender ==
  ~joined => \A s, u \in Senders : sender[s] # Nothing /\ sender[u] # Nothing => s = u

Alternate ==
  \A i \in 1..(Len(queue) - 1) :
    /\ queue[i].kind = "text" => queue[i + 1] = End(queue[i].of)
    /\ queue[i].kind # "text" => queue[i + 1].kind = "text"

\* A text at the end: its bean has still to send the marker.
EndIsOpen ==
  Len(queue) > 0 /\ queue[Len(queue)].kind = "text" =>
    ~joined /\ \E s \in Senders : sender[s] = queue[Len(queue)].of

\* A bean between its sends: the text is at the end, or has been taken.
TextIsOut ==
  ~joined => \A s \in Senders : sender[s] # Nothing =>
    \/ Len(queue) > 0 /\ queue[Len(queue)] = Text(sender[s])
    \/ Len(queue) = 0 /\ \E r \in Readers : Holds(r, sender[s])

\* A request that holds a text: its marker is next, or has still to be sent.
MarkerIsNext ==
  \A r \in Readers : reader[r].at = "polling" /\ reader[r].msg # Nothing =>
    /\ Len(queue) = 0 => ~joined /\ \E s \in Senders : sender[s] = reader[r].msg
    /\ Len(queue) > 0 => queue[1] = End(reader[r].msg)

\* A marker in front: some request holds its text.
MarkerIsHeld ==
  Len(queue) > 0 /\ queue[1].kind # "text" =>
    \E r \in Readers : reader[r].at = "polling" /\ reader[r].msg # Nothing

WholeInv ==
  /\ IdleHoldsNothing
  /\ disturbed = {} =>
       /\ OneReader /\ OneSender /\ Alternate /\ EndIsOpen /\ TextIsOut
       /\ MarkerIsNext /\ MarkerIsHeld
       /\ WholeWhenUndisturbed

LEMMA Kinds == ASSUME TypeOK, NEW i \in 1..Len(queue)
               PROVE  queue[i] = IF queue[i].kind = "text" THEN Text(queue[i].of) ELSE End(queue[i].of)
<1>1. queue[i] \in Messages
  BY DEF TypeOK
<1> QED
  BY <1>1 DEF Messages

LEMMA WholeNext == ASSUME TypeOK, TypeOK', WholeInv, [Next]_vars PROVE WholeInv'
<1>0. IdleHoldsNothing
  BY DEF WholeInv
<1>1. /\ Len(queue) \in Nat /\ Len(shown) \in Nat /\ sent \in Nat
      /\ DOMAIN shown = 1..Len(shown) /\ DOMAIN shown' = 1..Len(shown')
      /\ \A i \in 1..Len(queue) : queue[i].of # Nothing
      /\ \A r \in Readers : reader[r].msg \in Notes \union {Nothing}
  <2>1. /\ Len(queue) \in Nat /\ Len(shown) \in Nat /\ sent \in Nat
        /\ DOMAIN shown = 1..Len(shown) /\ DOMAIN shown' = 1..Len(shown')
    BY DEF TypeOK
  <2>2. \A i \in 1..Len(queue) : queue[i] \in Messages
    BY DEF TypeOK
  <2>3. \A i \in 1..Len(queue) : queue[i].of # Nothing
    BY <2>2 DEF Messages, Notes, Nothing
  <2>4. \A r \in Readers : reader[r].msg \in Notes \union {Nothing}
    BY DEF TypeOK
  <2> QED
    BY <2>1, <2>3, <2>4
<1>2. IdleHoldsNothing'
  <2>1. ASSUME NEW s \in Senders, Sending(s) PROVE IdleHoldsNothing'
    <3>1. reader' = reader
      BY <2>1 DEF Sending, SendText, SendEnd, FailToSendText, FailToSendEnd, reading
    <3> QED
      BY <1>0, <3>1 DEF IdleHoldsNothing
  <2>2. ASSUME NEW r \in Readers, Reading(r) PROVE IdleHoldsNothing'
    <3>1. \A o \in Readers \ {r} : reader'[o] = reader[o]
      BY <2>2 DEF Reading, StartRead, TakeText, TakeEnd, FailToReceive, LeavePage, Show, Drop, TypeOK
    <3>2. reader'[r].at = "idle" => reader'[r].msg = Nothing
      <4>1. CASE StartRead(r) \/ TakeText(r) \/ TakeEnd(r) \/ FailToReceive(r)
        BY <4>1 DEF StartRead, TakeText, TakeEnd, FailToReceive, LeaveLoop, TypeOK
      <4>2. CASE LeavePage(r)
        BY <1>0, <4>2 DEF LeavePage, IdleHoldsNothing, TypeOK
      <4>3. CASE Show(r) \/ Drop(r)
        BY <4>3 DEF Show, Drop, NoRead, TypeOK
      <4> QED
        BY <2>2, <4>1, <4>2, <4>3 DEF Reading
    <3> QED
      BY <1>0, <3>1, <3>2 DEF IdleHoldsNothing
  <2>3. CASE UNCHANGED vars
    BY <1>0, <2>3 DEF vars, IdleHoldsNothing
  <2> QED
    BY <2>1, <2>2, <2>3 DEF Next
<1> SUFFICES ASSUME disturbed' = {}
             PROVE  /\ OneReader' /\ OneSender' /\ Alternate' /\ EndIsOpen' /\ TextIsOut'
                    /\ MarkerIsNext' /\ MarkerIsHeld' /\ WholeWhenUndisturbed'
  BY <1>2 DEF WholeInv
<1>3. disturbed = {}
  BY DEF Next, Sending, Reading, SendText, SendEnd, FailToSendText, FailToSendEnd, StartRead, TakeText,
     TakeEnd, FailToReceive, LeavePage, Show, Drop, vars
<1>4. /\ OneReader /\ OneSender /\ Alternate /\ EndIsOpen /\ TextIsOut
      /\ MarkerIsNext /\ MarkerIsHeld /\ WholeWhenUndisturbed
  BY <1>3 DEF WholeInv
<1> DEFINE Goal == /\ OneReader' /\ OneSender' /\ Alternate' /\ EndIsOpen' /\ TextIsOut'
                   /\ MarkerIsNext' /\ MarkerIsHeld' /\ WholeWhenUndisturbed'
<1>5. ASSUME NEW s \in Senders, SendText(s) PROVE Goal
  <2>1. /\ UNCHANGED <<joined, reader, shown, overwritten>>
        /\ sender[s] = Nothing /\ sender'[s] = sent + 1
        /\ \A u \in Senders \ {s} : sender'[u] = sender[u]
    BY <1>5 DEF SendText, TypeOK
  <2>2. OneReader' /\ WholeWhenUndisturbed'
    BY <1>3, <1>4, <2>1 DEF OneReader, WholeWhenUndisturbed
  <2>3. CASE joined
    <3>1. queue' = queue
      BY <1>5, <2>3 DEF SendText
    <3> QED
      BY <1>4, <2>1, <2>2, <2>3, <3>1 DEF OneSender, Alternate, EndIsOpen, TextIsOut, MarkerIsNext, MarkerIsHeld
  <2>4. CASE ~joined
    <3>1. \A u \in Senders : sender[u] = Nothing
      BY <1>3, <1>5, <2>4 DEF SendText, Transmitting
    <3>2. /\ Len(queue') = Len(queue) + 1
          /\ \A k \in 1..Len(queue) : queue'[k] = queue[k]
          /\ queue'[Len(queue) + 1] = Text(sent + 1)
      BY <1>5, <2>4, AfterSendText
    <3>3. Len(queue) > 0 => queue[Len(queue)].kind # "text"
      BY <1>1, <1>4, <3>1 DEF EndIsOpen
    <3>4. OneSender'
      BY <2>1, <3>1 DEF OneSender
    <3>5. Alternate'
      BY <1>1, <1>4, <3>2, <3>3 DEF Alternate
    <3>6. EndIsOpen' /\ TextIsOut'
      BY <1>1, <2>1, <2>4, <3>1, <3>2 DEF EndIsOpen, TextIsOut
    <3>7. MarkerIsNext'
      <4>1. \A r \in Readers : reader[r].at = "polling" /\ reader[r].msg # Nothing => Len(queue) > 0
        <5> SUFFICES ASSUME NEW r \in Readers, reader[r].at = "polling", reader[r].msg # Nothing,
                            Len(queue) = 0
                     PROVE  FALSE
          BY <1>1
        <5>1. PICK u \in Senders : sender[u] = reader[r].msg
          BY <1>4 DEF MarkerIsNext
        <5> QED
          BY <3>1, <5>1
      <4> QED
        BY <1>1, <1>4, <2>1, <3>2, <4>1 DEF MarkerIsNext
    <3>8. MarkerIsHeld'
      BY <1>1, <1>4, <2>1, <3>2 DEF MarkerIsHeld
    <3> QED
      BY <2>2, <3>4, <3>5, <3>6, <3>7, <3>8
  <2> QED
    BY <2>3, <2>4
<1>6. ASSUME NEW s \in Senders, SendEnd(s) PROVE Goal
  <2>1. /\ UNCHANGED <<joined, reader, shown, overwritten>>
        /\ sender[s] # Nothing /\ sender'[s] = Nothing
        /\ \A u \in Senders \ {s} : sender'[u] = sender[u]
    BY <1>6 DEF SendEnd, TypeOK
  <2>2. OneReader' /\ WholeWhenUndisturbed' /\ OneSender'
    BY <1>3, <1>4, <2>1 DEF OneReader, OneSender, WholeWhenUndisturbed
  <2>3. /\ Len(queue') = Len(queue) + (IF joined THEN 2 ELSE 1)
        /\ \A k \in 1..Len(queue) : queue'[k] = queue[k]
        /\ joined => queue'[Len(queue) + 1] = Text(sender[s])
        /\ queue'[Len(queue')] = End(sender[s])
    BY <1>6, AfterSendEnd
  <2>4. EndIsOpen'
    BY <2>3 DEF EndIsOpen
  <2>5. TextIsOut'
    BY <1>4, <2>1 DEF OneSender, TextIsOut
  <2>6. CASE joined
    <3>1. Len(queue) > 0 => queue[Len(queue)].kind # "text"
      BY <1>4, <2>6 DEF EndIsOpen
    <3>2. Alternate'
      <4>1. Len(queue') = Len(queue) + 2 /\ queue'[Len(queue) + 2] = End(sender[s])
        BY <1>1, <2>3, <2>6
      <4>2. \A i \in 1..(Len(queue') - 1) : i \in 1..(Len(queue) - 1) \/ i = Len(queue) \/ i = Len(queue) + 1
        BY <1>1, <4>1
      <4>3. \A i \in 1..(Len(queue) - 1) : queue'[i] = queue[i] /\ queue'[i + 1] = queue[i + 1]
        BY <1>1, <2>3
      <4> QED
        BY <1>1, <1>4, <2>3, <2>6, <3>1, <4>1, <4>2, <4>3 DEF Alternate
    <3>3. MarkerIsNext'
      BY <1>1, <1>4, <2>1, <2>3, <2>6 DEF MarkerIsNext
    <3>4. MarkerIsHeld'
      BY <1>1, <1>4, <2>1, <2>3, <2>6 DEF MarkerIsHeld
    <3> QED
      BY <2>2, <2>4, <2>5, <3>2, <3>3, <3>4
  <2>7. CASE ~joined
    <3>0. Len(queue') = Len(queue) + 1 /\ queue'[Len(queue) + 1] = End(sender[s])
      BY <1>1, <2>3, <2>7
    <3>1. CASE Len(queue) > 0 /\ queue[Len(queue)] = Text(sender[s])
      <4>1. Alternate'
        <5>1. \A i \in 1..(Len(queue') - 1) : i \in 1..(Len(queue) - 1) \/ i = Len(queue)
          BY <1>1, <3>0
        <5>2. \A i \in 1..(Len(queue) - 1) : queue'[i] = queue[i] /\ queue'[i + 1] = queue[i + 1]
          BY <1>1, <2>3
        <5> QED
          BY <1>1, <1>4, <2>3, <3>0, <3>1, <5>1, <5>2 DEF Alternate
      <4>2. MarkerIsNext' /\ MarkerIsHeld'
        BY <1>1, <1>4, <2>1, <2>3, <3>0, <3>1 DEF MarkerIsNext, MarkerIsHeld
      <4> QED
        BY <2>2, <2>4, <2>5, <4>1, <4>2
    <3>2. CASE Len(queue) = 0 /\ \E r \in Readers : Holds(r, sender[s])
      <4>1. PICK r \in Readers : Holds(r, sender[s])
        BY <3>2
      <4>2. \A o \in Readers \ {r} : reader[o].at = "idle"
        BY <1>4, <4>1 DEF OneReader, Holds
      <4>3. Alternate'
        BY <3>0, <3>2 DEF Alternate
      <4>4. MarkerIsNext' /\ MarkerIsHeld'
        BY <2>1, <3>0, <3>2, <4>1, <4>2 DEF MarkerIsNext, MarkerIsHeld, Holds
      <4> QED
        BY <2>2, <2>4, <2>5, <4>3, <4>4
    <3> QED
      BY <1>4, <2>1, <2>7, <3>1, <3>2 DEF TextIsOut
  <2> QED
    BY <2>6, <2>7
<1>7. ASSUME NEW s \in Senders, FailToSendText(s) PROVE Goal
  BY <1>3, <1>4, <1>7 DEF FailToSendText, OneReader, OneSender, Alternate, EndIsOpen, TextIsOut, MarkerIsNext,
     MarkerIsHeld, WholeWhenUndisturbed, Holds
<1>8. ASSUME NEW s \in Senders, FailToSendEnd(s) PROVE FALSE
  BY <1>8 DEF FailToSendEnd
<1>9. ASSUME NEW r \in Readers, StartRead(r) PROVE Goal
  <2>1. /\ UNCHANGED <<joined, queue, sender, shown, overwritten>>
        /\ reader'[r].at = "polling" /\ reader'[r].msg = Nothing
        /\ \A o \in Readers \ {r} : reader'[o] = reader[o]
    BY <1>0, <1>9 DEF StartRead, TypeOK, IdleHoldsNothing
  <2>2. \A o \in Readers : reader[o].at = "idle"
    BY <1>3, <1>9 DEF StartRead
  <2>3. OneReader' /\ WholeWhenUndisturbed' /\ MarkerIsNext'
    BY <1>3, <1>4, <2>1, <2>2 DEF OneReader, WholeWhenUndisturbed, MarkerIsNext
  <2>4. OneSender' /\ Alternate' /\ EndIsOpen'
    BY <1>4, <2>1 DEF OneSender, Alternate, EndIsOpen
  <2>5. TextIsOut' /\ MarkerIsHeld'
    BY <1>4, <2>1, <2>2 DEF TextIsOut, MarkerIsHeld, Holds
  <2> QED
    BY <2>3, <2>4, <2>5
<1>10. ASSUME NEW r \in Readers, TakeText(r) \/ TakeEnd(r) PROVE Goal
  <2>1. /\ queue # <<>> /\ queue' = Tail(queue) /\ UNCHANGED <<joined, sender, shown>>
        /\ reader[r].at = "polling" /\ \A o \in Readers \ {r} : reader'[o] = reader[o]
    BY <1>10 DEF TakeText, TakeEnd, TypeOK
  <2>2. /\ Len(queue') = Len(queue) - 1 /\ Len(queue) >= 1
        /\ \A k \in 1..Len(queue') : queue'[k] = queue[k + 1]
        /\ Head(queue) = queue[1]
    BY <2>1, AfterTake
  <2>3. \A o \in Readers \ {r} : reader[o].at = "idle"
    BY <1>4, <2>1 DEF OneReader
  <2>4. OneReader' /\ OneSender'
    BY <1>4, <2>1, <2>3 DEF OneReader, OneSender
  <2>5. Alternate'
    <3>1. \A i \in 1..(Len(queue') - 1) :
            i + 1 \in 1..(Len(queue) - 1) /\ queue'[i] = queue[i + 1] /\ queue'[i + 1] = queue[(i + 1) + 1]
      BY <1>1, <2>2
    <3> QED
      BY <1>4, <3>1 DEF Alternate
  <2>6. Len(queue') > 0 => queue'[Len(queue')] = queue[Len(queue)]
    BY <1>1, <2>2
  <2>7. EndIsOpen'
    BY <1>1, <1>4, <2>1, <2>2, <2>6 DEF EndIsOpen
  <2>8. CASE TakeText(r)
    <3>1. /\ queue[1].kind = "text" /\ reader'[r].at = "polling" /\ reader'[r].msg = queue[1].of
          /\ overwritten' = overwritten \union ({reader[r].msg} \ {Nothing})
      BY <2>2, <2>8 DEF TakeText, TypeOK
    <3>2. reader[r].msg = Nothing
      BY <1>1, <1>4, <2>1, <2>2, <3>1 DEF MarkerIsNext
    <3>3. WholeWhenUndisturbed'
      BY <1>3, <1>4, <2>1, <2>3, <3>1, <3>2 DEF WholeWhenUndisturbed
    <3>4. queue[1].of # Nothing /\ queue[1] = Text(queue[1].of)
      <4>1. 1 \in 1..Len(queue)
        BY <1>1, <2>2
      <4>2. queue[1].of # Nothing
        BY <1>1, <4>1
      <4>3. queue[1] = IF queue[1].kind = "text" THEN Text(queue[1].of) ELSE End(queue[1].of)
        BY <4>1, Kinds
      <4> QED
        BY <3>1, <4>2, <4>3
    <3>5. TextIsOut'
      <4> SUFFICES ASSUME ~joined, NEW s \in Senders, sender[s] # Nothing
                   PROVE  \/ Len(queue') > 0 /\ queue'[Len(queue')] = Text(sender[s])
                          \/ Len(queue') = 0 /\ reader'[r].at = "polling" /\ reader'[r].msg = sender[s]
        BY <2>1 DEF TextIsOut, Holds
      <4>1. queue[Len(queue)] = Text(sender[s])
        BY <1>4, <2>2 DEF TextIsOut
      <4>2. CASE Len(queue) = 1
        BY <2>2, <3>1, <4>1, <4>2
      <4> QED
        BY <1>1, <2>2, <2>6, <4>1, <4>2
    <3>6. MarkerIsNext'
      <4>1. CASE Len(queue) = 1
        <5>1. Len(queue') = 0 /\ ~joined /\ \E s \in Senders : sender[s] = queue[1].of
          BY <1>4, <2>2, <3>1, <4>1 DEF EndIsOpen
        <5>2. \A o \in Readers \ {r} : reader'[o].at # "polling"
          BY <2>1, <2>3
        <5>3. \E s \in Senders : sender'[s] = reader'[r].msg
          BY <2>1, <3>1, <5>1
        <5> QED
          BY <2>1, <5>1, <5>2, <5>3 DEF MarkerIsNext
      <4>2. CASE Len(queue) > 1
        <5>1. Len(queue') > 0 /\ queue'[1] = queue[2] /\ queue[2] = End(queue[1].of)
          <6>1. 1 \in 1..Len(queue') /\ 1 \in 1..(Len(queue) - 1) /\ Len(queue') > 0
            BY <1>1, <2>2, <4>2
          <6>2. queue'[1] = queue[1 + 1]
            BY <2>2, <6>1
          <6>3. queue[1 + 1] = End(queue[1].of)
            BY <1>4, <3>1, <6>1 DEF Alternate
          <6> QED
            BY <6>1, <6>2, <6>3
        <5> QED
          BY <2>1, <2>3, <3>1, <5>1 DEF MarkerIsNext
      <4> QED
        BY <1>1, <2>2, <4>1, <4>2
    <3>7. MarkerIsHeld'
      BY <3>1, <3>4 DEF MarkerIsHeld
    <3> QED
      BY <2>4, <2>5, <2>7, <3>3, <3>5, <3>6, <3>7
  <2>9. CASE TakeEnd(r)
    <3>1. /\ queue[1].kind # "text" /\ reader'[r].at = "answered" /\ reader'[r].msg = reader[r].msg
          /\ overwritten' = overwritten
      BY <2>2, <2>9 DEF TakeEnd, TypeOK
    <3>2. reader[r].msg # Nothing
      BY <1>1, <1>4, <2>2, <2>3, <3>1 DEF MarkerIsHeld
    <3>3. WholeWhenUndisturbed'
      BY <1>3, <1>4, <2>1, <2>3, <3>1, <3>2 DEF WholeWhenUndisturbed
    <3>4. TextIsOut'
      <4> SUFFICES ASSUME ~joined, NEW s \in Senders, sender[s] # Nothing
                   PROVE  Len(queue') > 0 /\ queue'[Len(queue')] = Text(sender[s])
        BY <2>1 DEF TextIsOut
      <4>1. queue[Len(queue)] = Text(sender[s])
        BY <1>4, <2>2 DEF TextIsOut
      <4>2. Len(queue) # 1
        BY <3>1, <4>1
      <4> QED
        BY <1>1, <2>2, <2>6, <4>1, <4>2
    <3>5. MarkerIsNext'
      BY <2>1, <2>3, <3>1 DEF MarkerIsNext
    <3>6. MarkerIsHeld'
      <4> SUFFICES ASSUME Len(queue') > 0 PROVE queue'[1].kind = "text"
        BY DEF MarkerIsHeld
      <4>1. 1 \in 1..Len(queue') /\ 1 \in 1..(Len(queue) - 1)
        BY <1>1, <2>2
      <4>2. queue'[1] = queue[1 + 1]
        BY <2>2, <4>1
      <4>3. queue[1 + 1].kind = "text"
        BY <1>4, <3>1, <4>1 DEF Alternate
      <4> QED
        BY <4>2, <4>3
    <3> QED
      BY <2>4, <2>5, <2>7, <3>3, <3>4, <3>5, <3>6
  <2> QED
    BY <1>10, <2>8, <2>9
<1>11. ASSUME NEW r \in Readers, FailToReceive(r) PROVE FALSE
  BY <1>11 DEF FailToReceive
<1>12. ASSUME NEW r \in Readers, LeavePage(r) PROVE Goal
  <2>1. /\ UNCHANGED <<joined, queue, sender, shown, overwritten>>
        /\ \A o \in Readers : reader'[o].at = reader[o].at /\ reader'[o].msg = reader[o].msg
    BY <1>12 DEF LeavePage, TypeOK
  <2>2. OneReader'
    BY <1>4, <2>1 DEF OneReader
  <2>3. OneSender' /\ Alternate' /\ EndIsOpen'
    BY <1>4, <2>1 DEF OneSender, Alternate, EndIsOpen
  <2>4. \A n : \A o \in Readers : Holds(o, n) => Holds(o, n)'
    BY <2>1 DEF Holds
  <2>5. TextIsOut'
    BY <1>4, <2>1, <2>4 DEF TextIsOut
  <2>6. MarkerIsNext'
    BY <1>4, <2>1 DEF MarkerIsNext
  <2>7. MarkerIsHeld'
    BY <1>4, <2>1 DEF MarkerIsHeld
  <2>8. WholeWhenUndisturbed'
    BY <1>3, <1>4, <2>1 DEF WholeWhenUndisturbed
  <2> QED
    BY <2>2, <2>3, <2>5, <2>6, <2>7, <2>8
<1>13. ASSUME NEW r \in Readers, Show(r) \/ Drop(r) PROVE Goal
  <2>1. /\ UNCHANGED <<joined, queue, sender, overwritten>>
        /\ reader[r].at = "answered" /\ reader'[r].at = "idle"
        /\ \A o \in Readers \ {r} : reader'[o] = reader[o]
    BY <1>13 DEF Show, Drop, TypeOK
  <2>2. \A k \in 1..Len(shown') : shown'[k] # Nothing
    <3>1. reader[r].msg # Nothing /\ \A k \in 1..Len(shown) : shown[k] # Nothing
      BY <1>1, <1>3, <1>4, <2>1 DEF WholeWhenUndisturbed
    <3>2. CASE shown' = shown
      BY <3>1, <3>2
    <3>3. CASE shown' = Append(shown, reader[r].msg)
      <4>1. /\ Len(shown') = Len(shown) + 1 /\ shown'[Len(shown) + 1] = reader[r].msg
            /\ \A k \in 1..Len(shown) : shown'[k] = shown[k]
        BY <1>1, <3>3, Typed, AppendProperties
      <4> QED
        BY <1>1, <3>1, <4>1
    <3> QED
      BY <1>13, <3>2, <3>3 DEF Show, Drop
  <2>3. WholeWhenUndisturbed'
    BY <1>1, <1>3, <1>4, <2>1, <2>2 DEF WholeWhenUndisturbed
  <2>4. OneReader' /\ OneSender' /\ Alternate' /\ EndIsOpen'
    BY <1>4, <2>1 DEF OneReader, OneSender, Alternate, EndIsOpen
  <2>5. \A o \in Readers, n \in Notes : Holds(o, n) => Holds(o, n)'
    BY <2>1 DEF Holds
  <2>6. TextIsOut' /\ MarkerIsNext' /\ MarkerIsHeld'
    BY <1>4, <2>1 DEF TextIsOut, MarkerIsNext, MarkerIsHeld, Holds
  <2> QED
    BY <2>3, <2>4, <2>6
<1>14. CASE UNCHANGED vars
  BY <1>3, <1>4, <1>14 DEF vars, OneReader, OneSender, Alternate, EndIsOpen, TextIsOut, MarkerIsNext,
     MarkerIsHeld, WholeWhenUndisturbed, Holds
<1> QED
  BY <1>5, <1>6, <1>7, <1>8, <1>9, <1>10, <1>11, <1>12, <1>13, <1>14 DEF Next, Sending, Reading

\* While transmissions and reads do not overlap and nothing fails half-way, no
\* notification replaces another and no page is given an empty one.
THEOREM Whole == Spec => []WholeWhenUndisturbed
<1>1. Init => WholeInv
  BY DEF Init, WholeInv, IdleHoldsNothing, OneReader, OneSender, Alternate, EndIsOpen, TextIsOut,
     MarkerIsNext, MarkerIsHeld, WholeWhenUndisturbed
<1>2. WholeInv => WholeWhenUndisturbed
  BY DEF WholeInv, WholeWhenUndisturbed
<1> QED
  BY <1>1, <1>2, WholeNext, TypeCorrect, PTL DEF Spec
=============================================================================
