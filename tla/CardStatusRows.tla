----------------------------- MODULE CardStatusRows -----------------------------
(***************************************************************************)
(* src/kata-022-focused/postgres_service.py: cards and their events as     *)
(* rows.  The claim is that of CaseRows, with no priority before the time  *)
(* of the last claim: its SELECT has the same shape, and its status list   *)
(* too leaves out only what nothing here sets.                             *)
(***************************************************************************)
EXTENDS Integers

CONSTANTS Cards, Events, Workers, TTL, MaxTime, Null

VARIABLES
  card,  \* card[c]: the status of its row; rows are made by hand, frozen or not
  of,    \* of[e]: the card and the action of the event's row, or Null
  event, lock, clock, now, seen

cardRowVars == <<card, of, event, lock, clock, now, seen>>

Claims == INSTANCE CaseRows WITH Cases <- Events, Priorities <- {1}, case <- event

TypeOK ==
  /\ card \in [Cards -> {"frozen", "unfrozen"}]
  /\ of \in [Events -> (Cards \X {"freeze", "unfreeze"}) \cup {Null}]
  /\ Claims!TypeOK

Init ==
  /\ card \in [Cards -> {"frozen", "unfrozen"}]
  /\ of = [e \in Events |-> Null]
  /\ Claims!Init

\* One transaction: the card and its event are seen together.
ApplyCardAction(c, s, e) ==
  /\ card' = [card EXCEPT ![c] = s]
  /\ of' = [of EXCEPT ![e] = <<c, IF s = "frozen" THEN "freeze" ELSE "unfreeze">>]
  /\ Claims!AddCase(e, 1)

ClaimNextEvent(w) ==
  /\ \/ Claims!CallClaim(w) \/ Claims!Snapshot(w) \/ Claims!LockCase(w)
     \/ Claims!ClaimNone(w) \/ Claims!ClaimNext(w)
  /\ UNCHANGED <<card, of>>

Next ==
  \/ \E c \in Cards, s \in {"frozen", "unfrozen"}, e \in Events : ApplyCardAction(c, s, e)
  \/ \E w \in Workers : ClaimNextEvent(w)
  \/ /\ Claims!Tick \/ \E w \in Workers : Claims!LoseConnection(w)
     /\ UNCHANGED <<card, of>>

Spec == Init /\ [][Next]_cardRowVars
================================================================================
