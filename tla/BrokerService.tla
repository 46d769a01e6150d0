--------------------------- MODULE BrokerService ---------------------------
(***************************************************************************)
(* What the order broker promises its clients, without any of its          *)
(* machinery: trade requests are numbered as they are accepted, each gets  *)
(* at most one reply, the reply carries the correlation id of its request, *)
(* and the replies to the requests picked for a simulated failure or a     *)
(* simulated partial fill are what the settings of the broker say.         *)
(*                                                                         *)
(* OrderBroker.tla is the detailed specification; it implements this one.  *)
(***************************************************************************)
EXTENDS Integers

CONSTANTS
  Serials,    (* numbers of the trade requests *)
  Ids,        (* correlation ids *)
  Shares,     (* share counts a reply can name *)
  Results,    (* outcomes a reply can name *)
  Configs     (* settings: [mock, failOncePer, partialOncePer] *)

VARIABLES
  config,     (* the settings of this broker process *)
  asked,      (* the requests accepted: [n, id, size] *)
  answers     (* the replies sent: [n, id, result, size] *)

vars == <<config, asked, answers>>

\* Whether a counter at n has reached a multiple of the period; 0 is never.
EveryNth(period, n) == period # 0 /\ n % period = 0

\* What the settings make of the outcome of request q. A simulated failure
\* takes precedence over a simulated partial fill.
Allowed(q, result, size) ==
  /\ EveryNth(config.failOncePer, q.n) => result = "REJECTED" /\ size = q.size
  /\ EveryNth(config.partialOncePer, q.n) => result # "FILLED"

Init ==
  /\ config \in Configs
  /\ asked = {}
  /\ answers = {}

\* A request is accepted under a number not used before.
Ask(n) ==
  /\ \A p \in asked : p.n # n
  /\ \E id \in Ids, size \in Shares :
       asked' = asked \union {[n |-> n, id |-> id, size |-> size]}
  /\ UNCHANGED <<config, answers>>

\* An accepted request that has no reply yet gets one, under its own id.
Reply(q) ==
  /\ \A a \in answers : a.n # q.n
  /\ \E result \in Results, size \in Shares :
       /\ Allowed(q, result, size)
       /\ answers' = answers \union
            {[n |-> q.n, id |-> q.id, result |-> result, size |-> size]}
  /\ UNCHANGED <<config, asked>>

Next ==
  \/ \E n \in Serials : Ask(n)
  \/ \E q \in asked : Reply(q)

Spec == Init /\ [][Next]_vars
=============================================================================
