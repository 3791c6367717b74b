------------------------------ MODULE PaymentService ------------------------------
(***************************************************************************)
(* src/kata-006: payments under idempotency keys.  The key's payment is    *)
(* found or made under the service lock; a payment that was found is       *)
(* compared with what was asked after the lock is released.  Keys are the  *)
(* strings that callers send, so two spellings of one UUID are two keys.   *)
(***************************************************************************)
CONSTANTS
  Keys, Threads,
  Payments,  \* ids that uuid4 may hand out, one for each call
  Charges,   \* pairs of an amount and a currency
  Null

VARIABLES
  byKey,    \* _payments_by_idempotency_key: the payment's id, or Null
  byId,     \* _payments_by_payment_id: the payment's amount and currency, or Null
  asking,   \* asking[t]: what a call that found a payment has yet to compare, or Null
  answers   \* history: the key, the charge and the payment of the calls that succeeded

paymentVars == <<byKey, byId, asking, answers>>

Requests == [key : Keys, charge : Charges, payment : Payments]

TypeOK ==
  /\ byKey \in [Keys -> Payments \cup {Null}]
  /\ byId \in [Payments -> Charges \cup {Null}]
  /\ asking \in [Threads -> Requests \cup {Null}]
  /\ answers \subseteq Requests

Init ==
  /\ byKey = [k \in Keys |-> Null]
  /\ byId = [p \in Payments |-> Null]
  /\ asking = [t \in Threads |-> Null]
  /\ answers = {}

Request(k, c, p) == [key |-> k, charge |-> c, payment |-> p]

CreatePayment(t, k, c, p) ==
  /\ asking[t] = Null
  /\ byKey[k] = Null /\ byId[p] = Null
  /\ byKey' = [byKey EXCEPT ![k] = p]
  /\ byId' = [byId EXCEPT ![p] = c]
  /\ answers' = answers \cup {Request(k, c, p)}
  /\ UNCHANGED asking

FindPayment(t, k, c) ==
  /\ asking[t] = Null
  /\ byKey[k] # Null
  /\ asking' = [asking EXCEPT ![t] = Request(k, c, byKey[k])]
  /\ UNCHANGED <<byKey, byId, answers>>

CheckAmountAndCurrency(t) ==
  /\ asking[t] # Null
  /\ answers' = IF byId[asking[t].payment] = asking[t].charge THEN answers \cup {asking[t]} ELSE answers
  /\ asking' = [asking EXCEPT ![t] = Null]
  /\ UNCHANGED <<byKey, byId>>

Next ==
  \E t \in Threads :
    \/ \E k \in Keys, c \in Charges :
         FindPayment(t, k, c) \/ \E p \in Payments : CreatePayment(t, k, c, p)
    \/ CheckAmountAndCurrency(t)

Spec == Init /\ [][Next]_paymentVars

--------------------------------------------------------------------------------
\* However often and from wherever a key is sent, it is answered with one payment, no
\* other key's, and only to those that ask for what that payment is on record with.
PaidOncePerKey ==
  \A a, b \in answers :
    /\ (a.key = b.key) <=> (a.payment = b.payment)
    /\ byId[a.payment] = a.charge /\ (a.key = b.key => a.charge = b.charge)
===================================================================================
