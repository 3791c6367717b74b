----------------------------- MODULE MerchantService -----------------------------
(***************************************************************************)
(* src/kata-001: merchants with a cap on what is charged to them.  The     *)
(* record of a merchant and its lock are entries of two dictionaries that  *)
(* only register_merchant writes, one after the other, under the lock of   *)
(* the repository; a charge finds the record under that lock and looks for *)
(* the merchant's lock when it has given it back.  Amounts are in cents,   *)
(* so that quantizing them changes nothing.                                *)
(***************************************************************************)
EXTENDS Integers

CONSTANTS
  Merchants, Threads,
  Cents,    \* the amounts and caps that pass the validation
  Null

VARIABLES
  cap,        \* charges_cap, or 0 when the repository has no such merchant
  spent,      \* accumulated_charges
  locks,      \* the keys of _merchant_locks
  charging    \* charging[t]: the call t is in the middle of, or Null

merchantVars == <<cap, spent, locks, charging>>

MerchantCalls ==
  [step : {"register"}, merchant : Merchants]
    \cup [step : {"charge"}, merchant : Merchants, amount : Cents]

TypeOK ==
  /\ cap \in [Merchants -> Cents \cup {0}]
  /\ spent \in [Merchants -> Nat]
  /\ locks \subseteq Merchants
  /\ charging \in [Threads -> MerchantCalls \cup {Null}]

Init ==
  /\ cap = [m \in Merchants |-> 0] /\ spent = [m \in Merchants |-> 0]
  /\ locks = {}
  /\ charging = [t \in Threads |-> Null]

InStep(t, step) == charging[t] # Null /\ charging[t].step = step

\* _repo_lock is held between the two steps of register_merchant, and by nobody else
\* from one step to the next.
RepoFree == \A t \in Threads : ~InStep(t, "register")

RegisterEntry(t, m, c) ==
  /\ charging[t] = Null /\ RepoFree
  /\ cap[m] = 0
  /\ cap' = [cap EXCEPT ![m] = c]
  /\ charging' = [charging EXCEPT ![t] = [step |-> "register", merchant |-> m]]
  /\ UNCHANGED <<spent, locks>>

RegisterLock(t) ==
  /\ InStep(t, "register")
  /\ locks' = locks \cup {charging[t].merchant}
  /\ charging' = [charging EXCEPT ![t] = Null]
  /\ UNCHANGED <<cap, spent>>

FindMerchant(t, m, a) ==
  /\ charging[t] = Null /\ RepoFree
  /\ cap[m] # 0
  /\ charging' = [charging EXCEPT ![t] = [step |-> "charge", merchant |-> m, amount |-> a]]
  /\ UNCHANGED <<cap, spent, locks>>

IsAmountExceeded(m, a) == spent[m] + a >= cap[m]

ChargeMerchant(t) ==
  /\ InStep(t, "charge")
  /\ LET m == charging[t].merchant
         a == charging[t].amount
     IN  IF IsAmountExceeded(m, a) THEN UNCHANGED spent ELSE spent' = [spent EXCEPT ![m] = @ + a]
  /\ charging' = [charging EXCEPT ![t] = Null]
  /\ UNCHANGED <<cap, locks>>

Next ==
  \E t \in Threads :
    \/ \E m \in Merchants, c \in Cents : RegisterEntry(t, m, c) \/ FindMerchant(t, m, c)
    \/ RegisterLock(t) \/ ChargeMerchant(t)

Spec == Init /\ [][Next]_merchantVars

--------------------------------------------------------------------------------
\* Charges in flight together do not pass the cap, and a merchant that is not registered
\* is charged nothing; and a charge that found its merchant finds its lock, which is
\* another dictionary's entry.
CapsKept ==
  /\ \A m \in Merchants : spent[m] <= cap[m]
  /\ \A t \in Threads : InStep(t, "charge") => charging[t].merchant \in locks

\* feedback/kata-001.md:34, "does not exceed the quota": charge_merchant refuses a charge
\* only when it would bring the total above the cap.
RefusedOnlyBeyondCap ==
  [][\A t \in Threads : InStep(t, "charge") /\ charging'[t] = Null /\ spent' = spent =>
       spent[charging[t].merchant] + charging[t].amount > cap[charging[t].merchant]]_merchantVars
==================================================================================
