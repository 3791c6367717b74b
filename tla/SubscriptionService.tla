-------------------------- MODULE SubscriptionService --------------------------
(***************************************************************************)
(* src/kata-010: subscriptions by id, and an index of each user's active   *)
(* one.  cancel_subscription clears the index under the service lock and   *)
(* writes the status later, under the subscription's own lock; anything    *)
(* may run in between.                                                     *)
(***************************************************************************)
CONSTANTS
  Users,
  Subscriptions,  \* subscription ids uuid4 may hand out
  Threads,        \* callers
  Null            \* no user, no subscription

VARIABLES
  owner,      \* _subscriptions: the user_id, Null before the subscription exists
  status,     \* its status
  active,     \* _user_active_subscriptions, Null for no entry
  cancelling  \* cancelling[t]: the subscription t is about to write, or Null

subVars == <<owner, status, active, cancelling>>

TypeOK ==
  /\ owner \in [Subscriptions -> Users \cup {Null}]
  /\ status \in [Subscriptions -> {"none", "active", "cancelled"}]
  /\ active \in [Users -> Subscriptions \cup {Null}]
  /\ cancelling \in [Threads -> Subscriptions \cup {Null}]

Init ==
  /\ owner = [s \in Subscriptions |-> Null]
  /\ status = [s \in Subscriptions |-> "none"]
  /\ active = [u \in Users |-> Null]
  /\ cancelling = [t \in Threads |-> Null]

Idle(t) == cancelling[t] = Null

\* Mutant: the index gets the user's id for the subscription's.
CreateSubscription_Swapped(t, u, s) ==
  /\ Idle(t) /\ owner[s] = Null
  /\ active[u] = Null
  /\ owner' = [owner EXCEPT ![s] = u]
  /\ status' = [status EXCEPT ![s] = "active"]
  /\ active' = [active EXCEPT ![u] = u]
  /\ UNCHANGED cancelling

CreateSubscription(t, u, s) ==
  /\ Idle(t) /\ owner[s] = Null
  /\ active[u] = Null
  /\ owner' = [owner EXCEPT ![s] = u]
  /\ status' = [status EXCEPT ![s] = "active"]
  /\ active' = [active EXCEPT ![u] = s]
  /\ UNCHANGED cancelling

\* Mutant: any user with an active subscription may cancel any subscription.
CancelIndex_AnyOwner(t, s, u) ==
  /\ Idle(t) /\ owner[s] # Null
  /\ active[u] # Null
  /\ active' = [active EXCEPT ![u] = Null]
  /\ cancelling' = [cancelling EXCEPT ![t] = s]
  /\ UNCHANGED <<owner, status>>

\* cancel_subscription up to the release of the service lock.  s need not be the
\* subscription that the index holds for u.
CancelIndex(t, s, u) ==
  /\ Idle(t) /\ owner[s] # Null
  /\ active[u] # Null /\ owner[active[u]] = owner[s]
  /\ active' = [active EXCEPT ![u] = Null]
  /\ cancelling' = [cancelling EXCEPT ![t] = s]
  /\ UNCHANGED <<owner, status>>

CancelStatus(t) ==
  /\ ~Idle(t)
  /\ status' = [status EXCEPT ![cancelling[t]] = "cancelled"]
  /\ cancelling' = [cancelling EXCEPT ![t] = Null]
  /\ UNCHANGED <<owner, active>>

Next ==
  \E t \in Threads :
    \/ \E u \in Users, s \in Subscriptions : CreateSubscription(t, u, s) \/ CancelIndex(t, s, u)
    \/ CancelStatus(t)

Spec == Init /\ [][Next]_subVars /\ \A t \in Threads : WF_subVars(CancelStatus(t))

--------------------------------------------------------------------------------
\* A user is never locked out by a dead subscription: what the index holds is an
\* active subscription of that user, and no cancel that has passed its checks is
\* still to write it.
IndexHoldsLive ==
  \A u \in Users : active[u] # Null =>
    /\ owner[active[u]] = u
    /\ status[active[u]] = "active"
    /\ \A t \in Threads : cancelling[t] # active[u]

\* A subscription a cancel has been accepted for does become cancelled.
CancelTakesEffect ==
  \A s \in Subscriptions : (\E t \in Threads : cancelling[t] = s) ~> status[s] = "cancelled"

\* feedback/kata-010.md:3, "one-active-subscription-per-user invariant": with no
\* cancel under way, no user has two active subscriptions.
OneActivePerUser ==
  (\A t \in Threads : Idle(t)) =>
    \A s, x \in Subscriptions :
      status[s] = "active" /\ status[x] = "active" /\ owner[s] = owner[x] => s = x
================================================================================
