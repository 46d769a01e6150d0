-------------------------- MODULE NotificationQueue --------------------------
(***************************************************************************)
(* The way a trade notification takes from the server to a page:           *)
(*   - TradingATMessageBean instances call TradingController.setRecordStatus, *)
(*     whose sendMsgToQueue sends two messages to jms/MyQueue, the text and  *)
(*     an empty message "to signify end of transmission";                  *)
(*   - each load of main.html asks for rest/rest/message once, after two   *)
(*     seconds; the request runs getMsgFromQueue, which takes messages off   *)
(*     the queue until it meets an empty one and returns the last text.     *)
(* The queue is first in, first out. createQueueSession(false, ...) asks    *)
(* for two separate sends, but a container may put the session in the      *)
(* bean's transaction, and both then become visible at once: Init chooses. *)
(***************************************************************************)
EXTENDS Integers, Sequences, FiniteSets

CONSTANTS
  Senders,   (* instances of TradingATMessageBean *)
  Readers,   (* REST threads serving rest/rest/message *)
  MaxNotes,  (* bound: notifications *)
  MaxReads   (* bound: page loads that live long enough to ask *)

ASSUME BoundsAssumption == MaxNotes \in Nat /\ MaxReads \in Nat

Notes   == 1..MaxNotes
Nothing == 0          (* no notification; the empty string of getMsgFromQueue *)

Text(n) == [kind |-> "text", of |-> n]
End(n)  == [kind |-> "end", of |-> n]  (* of is history: the message is empty *)
Messages == [kind : {"text", "end"}, of : Notes]

VARIABLES
  joined,       (* the container put the sender's session in a transaction *)
  queue,        (* jms/MyQueue *)
  sent,         (* calls of sendMsgToQueue: numbers the notifications *)
  sender,       (* the notification each bean is between the two sends of *)
  reads,        (* calls of getMsgFromQueue *)
  reader,       (* each REST thread and its page: [at, page, msg] *)
  shown,        (* what pages put into their alert menu, in order *)
  overwritten,  (* history: texts replaced by a later one before being returned *)
  disturbed     (* history: what has interfered with a transmission so far *)

vars == <<joined, queue, sent, sender, reads, reader, shown, overwritten, disturbed>>
sending == <<joined, sent, sender>>
reading == <<reads, reader, shown, overwritten>>

\* Faulty: msgToUI is not initialised.
NullRead == [at |-> "idle", page |-> "left", msg |-> -1]

NoRead == [at |-> "idle", page |-> "left", msg |-> Nothing]

Init ==
  /\ joined \in BOOLEAN
  /\ queue = <<>>
  /\ sent = 0 /\ sender = [s \in Senders |-> Nothing]
  /\ reads = 0 /\ reader = [r \in Readers |-> NoRead]
  /\ shown = <<>> /\ overwritten = {}
  /\ disturbed = {}

-----------------------------------------------------------------------------
(* sendMsgToQueue. Every exception is printed and swallowed.                *)

\* Between the sends of a bean whose first send is visible already.
Transmitting == {s \in Senders : sender[s] # Nothing /\ ~joined}

\* What is sent when a transmission ends: in a transaction, all of it.
FirstSend(n) == IF joined THEN <<Text(n)>> ELSE <<>>

\* Faulty: the end marker is forgotten.
NoEndMarker(n) == <<>>

EndMarker(n) == <<End(n)>>

SendText(s) ==
  /\ sender[s] = Nothing /\ sent < MaxNotes
  /\ sent' = sent + 1
  /\ sender' = [sender EXCEPT ![s] = sent + 1]
  /\ queue' = IF joined THEN queue ELSE Append(queue, Text(sent + 1))
  /\ disturbed' = IF Transmitting = {} THEN disturbed ELSE disturbed \union {"overlap"}
  /\ UNCHANGED <<joined, reading>>

SendEnd(s) ==
  /\ sender[s] # Nothing
  /\ queue' = queue \o FirstSend(sender[s]) \o EndMarker(sender[s])
  /\ sender' = [sender EXCEPT ![s] = Nothing]
  /\ UNCHANGED <<joined, sent, disturbed, reading>>

\* The lookup, the connection or the first send raises: nothing is sent.
FailToSendText(s) ==
  /\ sender[s] = Nothing /\ sent < MaxNotes
  /\ sent' = sent + 1
  /\ UNCHANGED <<joined, sender, queue, disturbed, reading>>

\* The second send raises. The transaction, if any, commits all the same.
FailToSendEnd(s) ==
  /\ sender[s] # Nothing
  /\ queue' = queue \o FirstSend(sender[s])
  /\ sender' = [sender EXCEPT ![s] = Nothing]
  /\ disturbed' = disturbed \union {"failure", "unended"}
  /\ UNCHANGED <<joined, sent, reading>>

-----------------------------------------------------------------------------
(* getMsgFromQueue, the request that calls it and the page that shows it.   *)

\* Two seconds after main.html was ready.
StartRead(r) ==
  /\ reader[r].at = "idle" /\ reads < MaxReads
  /\ reads' = reads + 1
  /\ reader' = [reader EXCEPT ![r].at = "polling", ![r].page = "open"]
  /\ disturbed' = IF \A o \in Readers : reader[o].at = "idle"
                  THEN disturbed ELSE disturbed \union {"overlap"}
  /\ UNCHANGED <<queue, sending, shown, overwritten>>

\* Faulty: a text is received and not acknowledged.
Unacknowledged == queue

Acknowledged == Tail(queue)

\* A text: it replaces the one received before, if there is one.
TakeText(r) ==
  /\ reader[r].at = "polling"
  /\ queue # <<>> /\ Head(queue).kind = "text"
  /\ queue' = Acknowledged
  /\ reader' = [reader EXCEPT ![r].msg = Head(queue).of]
  /\ overwritten' = overwritten \union ({reader[r].msg} \ {Nothing})
  /\ UNCHANGED <<sending, reads, shown, disturbed>>

\* Faulty: the loop is not left.
KeepPolling == "polling"

LeaveLoop == "answered"

\* Anything but a text: break, return.
TakeEnd(r) ==
  /\ reader[r].at = "polling"
  /\ queue # <<>> /\ Head(queue).kind # "text"
  /\ queue' = Tail(queue)
  /\ reader' = [reader EXCEPT ![r].at = LeaveLoop]
  /\ UNCHANGED <<sending, reads, shown, overwritten, disturbed>>

\* receive() raises: printed, and what there is so far is returned.
FailToReceive(r) ==
  /\ reader[r].at = "polling"
  /\ reader' = [reader EXCEPT ![r].at = "answered"]
  /\ disturbed' = disturbed \union {"failure"}
  /\ UNCHANGED <<queue, sending, reads, shown, overwritten>>

\* The user leaves main.html: the request is aborted in the browser, but the
\* thread on the server goes on polling.
LeavePage(r) ==
  /\ reader[r].page = "open"
  /\ reader' = [reader EXCEPT ![r].page = "left"]
  /\ UNCHANGED <<queue, sending, reads, shown, overwritten, disturbed>>

\* The success handler of getMessage appends the answer, even an empty one.
Show(r) ==
  /\ reader[r].at = "answered" /\ reader[r].page = "open"
  /\ shown' = Append(shown, reader[r].msg)
  /\ reader' = [reader EXCEPT ![r] = NoRead]
  /\ UNCHANGED <<queue, sending, reads, overwritten, disturbed>>

\* The answer reaches no page.
Drop(r) ==
  /\ reader[r].at = "answered" /\ reader[r].page = "left"
  /\ reader' = [reader EXCEPT ![r] = NoRead]
  /\ UNCHANGED <<queue, sending, reads, shown, overwritten, disturbed>>

-----------------------------------------------------------------------------
Sending(s) == SendText(s) \/ SendEnd(s) \/ FailToSendText(s) \/ FailToSendEnd(s)

Reading(r) == StartRead(r) \/ TakeText(r) \/ TakeEnd(r) \/ FailToReceive(r)
              \/ LeavePage(r) \/ Show(r) \/ Drop(r)

Next == (\E s \in Senders : Sending(s)) \/ (\E r \in Readers : Reading(r))

\* A bean between its sends goes on, and so does a thread in the loop and the
\* browser with an answer. No one is bound to send, to load a page or to fail.
Spec ==
  /\ Init /\ [][Next]_vars
  /\ \A s \in Senders : WF_vars(SendEnd(s) \/ FailToSendEnd(s))
  /\ \A r \in Readers : WF_vars(TakeText(r) \/ TakeEnd(r)) /\ WF_vars(Show(r) \/ Drop(r))

-----------------------------------------------------------------------------
TypeOK ==
  /\ joined \in BOOLEAN
  /\ queue \in Seq(Messages)
  /\ sent \in 0..MaxNotes
  /\ sender \in [Senders -> Notes \union {Nothing}]
  /\ reads \in 0..MaxReads
  /\ reader \in [Readers -> [at : {"idle", "polling", "answered"}, page : {"open", "left"},
                             msg : Notes \union {Nothing}]]
  /\ shown \in Seq(Notes \union {Nothing})
  /\ overwritten \subseteq Notes
  /\ disturbed \subseteq {"overlap", "failure", "unended"}

\* As long as no send of an end marker has failed, a text in the queue has its
\* own end marker behind it or its sender is about to send it: no interleaving
\* of senders leaves a reader that took a text with nothing to stop at, but for
\* another reader taking the marker away.
EveryTextIsEnded ==
  "unended" \notin disturbed =>
    \A i \in DOMAIN queue : queue[i].kind = "text" =>
      \/ \E j \in (i + 1)..Len(queue) : queue[j] = End(queue[i].of)
      \/ \E s \in Senders : sender[s] = queue[i].of

\* A notification is in one place: waiting in the queue, in the hands of one
\* reader, or shown by one page. None is shown twice, whatever readers overlap,
\* pages are left or calls fail.
OnceEach ==
  /\ \A i, j \in DOMAIN queue : queue[i].kind = "text" /\ queue[i] = queue[j] => i = j
  /\ \A i, j \in DOMAIN shown : shown[i] # Nothing /\ shown[i] = shown[j] => i = j
  /\ \A r \in Readers : reader[r].msg # Nothing =>
       /\ \A i \in DOMAIN shown : shown[i] # reader[r].msg
       /\ \A o \in Readers \ {r} : reader[o].msg # reader[r].msg
  /\ \A i \in DOMAIN queue : queue[i].kind = "text" =>
       /\ \A j \in DOMAIN shown : shown[j] # queue[i].of
       /\ \A r \in Readers : reader[r].msg # queue[i].of

\* The protocol of text and end marker does what its comment says as long as
\* transmissions and reads do not overlap and no call fails half-way: no
\* notification is overwritten by another, and no page shows an empty one.
WholeWhenUndisturbed ==
  disturbed = {} =>
    /\ overwritten = {}
    /\ \A i \in DOMAIN shown : shown[i] # Nothing
    /\ \A r \in Readers : reader[r].at = "answered" => reader[r].msg # Nothing

\* While a request polls and there is an end marker in the queue, some request
\* returns sooner or later: the marker is not passed over.
Polling  == {r \in Readers : reader[r].at = "polling"}
Returned == reads - Cardinality(Polling)
EndWaits == \E i \in DOMAIN queue : queue[i].kind = "end"
ReadEnds ==
  \A n \in 0..MaxReads : (Returned = n /\ Polling # {} /\ EndWaits) ~> (Returned > n)

\* "Send an empty message, to signify end of transmission": the marker a reader
\* stops at is that of the text it returns.
EndsItsText ==
  [][\A r \in Readers : TakeEnd(r) => reader[r].msg = Head(queue).of]_vars
=============================================================================
