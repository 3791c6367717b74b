---------------------------- MODULE ClientQuotaService ----------------------------
(***************************************************************************)
(* src/kata-005: a quota of requests per client and sliding window.  The   *)
(* clock is read under the client's lock, and clients are not replaced, so *)
(* a request is one action; the clock is taken never to turn back.         *)
(***************************************************************************)
EXTENDS Integers, Sequences

CONSTANTS Clients, Quotas, Windows, MaxTime

VARIABLES
  quota,     \* quota[c]: the quota and the window of c; a quota of 0 says there is no c
  requests,  \* current_requests
  clock,
  accepted   \* history: accepted[c]: the times of the requests of c accepted so far

quotaVars == <<quota, requests, clock, accepted>>

TypeOK ==
  /\ quota \in [Clients -> [quota : Quotas \cup {0}, window : Windows \cup {0}]]
  /\ requests \in [Clients -> Seq(1 .. MaxTime)]
  /\ \A c \in Clients : Len(requests[c]) <= quota[c].quota
  /\ clock \in 1 .. MaxTime
  /\ accepted \in [Clients -> Seq(1 .. MaxTime)]

Init ==
  /\ quota = [c \in Clients |-> [quota |-> 0, window |-> 0]]
  /\ requests = [c \in Clients |-> <<>>]
  /\ clock = 1
  /\ accepted = [c \in Clients |-> <<>>]

CreateClient(c, q, w) ==
  /\ quota[c].quota = 0
  /\ quota' = [quota EXCEPT ![c] = [quota |-> q, window |-> w]]
  /\ UNCHANGED <<requests, clock, accepted>>

\* bisect_left in the sorted list: the n oldest requests are over, and the rest are
\* not; one that is exactly as old as the window is long is kept.
Over(c, n) ==
  \A i \in DOMAIN requests[c] : i <= n <=> requests[c][i] < clock - quota[c].window

RecordRequest(c) ==
  /\ quota[c].quota # 0
  /\ \E n \in 0 .. Len(requests[c]) :
       LET inWindow == SubSeq(requests[c], n + 1, Len(requests[c])) IN
       /\ Over(c, n)
       /\ IF Len(inWindow) >= quota[c].quota
          THEN requests' = [requests EXCEPT ![c] = inWindow] /\ UNCHANGED accepted
          ELSE /\ requests' = [requests EXCEPT ![c] = Append(inWindow, clock)]
               /\ accepted' = [accepted EXCEPT ![c] = Append(@, clock)]
  /\ UNCHANGED <<quota, clock>>

Tick ==
  /\ clock < MaxTime
  /\ clock' = clock + 1
  /\ UNCHANGED <<quota, requests, accepted>>

Next ==
  \/ Tick
  \/ \E c \in Clients : RecordRequest(c) \/ \E q \in Quotas, w \in Windows : CreateClient(c, q, w)

Spec == Init /\ [][Next]_quotaVars

--------------------------------------------------------------------------------
\* In no stretch of time as long as the window, both its ends counted, were more
\* requests of a client accepted than its quota, wherever it begins: of a quota of
\* them and one more in a row, the last came more than a window after the first.
QuotaHolds ==
  \A c \in Clients : \A i, j \in DOMAIN accepted[c] :
    j >= i + quota[c].quota => accepted[c][j] > accepted[c][i] + quota[c].window
===================================================================================
