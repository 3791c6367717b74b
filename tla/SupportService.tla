----------------------------- MODULE SupportService -----------------------------
(***************************************************************************)
(* src/kata-024: tickets wait in a heap of frozen keys; an agent is given  *)
(* a ticket by id or pulls the next one, up to a capacity.  Assigning by   *)
(* id leaves the ticket's entry in the heap, to be skipped when it is      *)
(* popped.  The keys never change and end in a unique id, so the heap is   *)
(* the set of its tickets and a pop takes the least.  Every method is one  *)
(* section under the service lock.                                         *)
(***************************************************************************)
EXTENDS Integers, FiniteSets

CONSTANTS
  Agents,       \* agent ids uuid4 may hand out, one email each
  Tickets,      \* ticket ids uuid4 may hand out, ordered as UUIDs are
  Priorities,   \* TicketPriority: 1 is HIGH
  MaxCapacity,  \* bound on the capacity of an agent
  Null

VARIABLES
  agent,   \* capacity (0 before register_agent) and assigned_tickets
  ticket,  \* status, priority and assignee
  queue    \* _tickets_ordered_by_priority

supportVars == <<agent, ticket, queue>>

TypeOK ==
  /\ agent \in [Agents -> [capacity : 0 .. MaxCapacity, assigned : 0 .. MaxCapacity]]
  /\ ticket \in [Tickets -> [status : {"none", "unassigned", "assigned", "resolved"},
                             priority : Priorities \cup {0}, assignee : Agents \cup {Null}]]
  /\ queue \in SUBSET Tickets

Init ==
  /\ agent = [a \in Agents |-> [capacity |-> 0, assigned |-> 0]]
  /\ ticket = [t \in Tickets |-> [status |-> "none", priority |-> 0, assignee |-> Null]]
  /\ queue = {}

Unassigned(t) == ticket[t].status = "unassigned"

\* The order of OrderedTicket; its status is UNASSIGNED in every entry.
Before(t, u) ==
  \/ ticket[t].priority < ticket[u].priority
  \/ ticket[t].priority = ticket[u].priority /\ t < u

RegisterAgent(a, n) ==
  /\ agent[a].capacity = 0
  /\ agent' = [agent EXCEPT ![a].capacity = n]
  /\ UNCHANGED <<ticket, queue>>

CreateTicket(t, p) ==
  /\ ticket[t].status = "none"
  /\ ticket' = [ticket EXCEPT ![t] = [status |-> "unassigned", priority |-> p, assignee |-> Null]]
  /\ queue' = queue \cup {t}
  /\ UNCHANGED agent

IsAtFullCapacity(a) == agent[a].assigned = agent[a].capacity

\* Mutant: the capacity is not looked at.
AssignTicketToAgent_Unbounded(t, a) ==
  /\ agent[a].capacity # 0
  /\ Unassigned(t)
  /\ agent' = [agent EXCEPT ![a].assigned = @ + 1]
  /\ ticket' = [ticket EXCEPT ![t].assignee = a, ![t].status = "assigned"]

AssignTicketToAgent(t, a) ==
  /\ agent[a].capacity # 0 /\ ~IsAtFullCapacity(a)
  /\ Unassigned(t)
  /\ agent' = [agent EXCEPT ![a].assigned = @ + 1]
  /\ ticket' = [ticket EXCEPT ![t].assignee = a, ![t].status = "assigned"]

\* assign_ticket; the heap keeps the entry.
AssignTicket(t, a) == AssignTicketToAgent(t, a) /\ UNCHANGED queue

--------------------------------------------------------------------------------
\* assign_next_ticket pops entries up to the first that is unassigned.
NextInOrder(t) == t \in queue /\ Unassigned(t) /\ \A u \in queue \ {t} : Unassigned(u) => Before(t, u)

Popped(t) == {t} \cup {u \in queue : Before(u, t)}

\* Mutant: the entries that wait behind the ticket are dropped with it.
AssignNextTicket_DropsRest(a) ==
  \E t \in queue :
    /\ NextInOrder(t)
    /\ AssignTicketToAgent(t, a)
    /\ queue' = {u \in queue : Before(u, t)}

AssignNextTicket(a) ==
  \E t \in queue :
    /\ NextInOrder(t)
    /\ AssignTicketToAgent(t, a)
    /\ queue' = queue \ Popped(t)

\* NotEnoughCapacity is raised when the ticket has been popped.
AssignNextRefused(a) ==
  /\ agent[a].capacity # 0 /\ IsAtFullCapacity(a)
  /\ \E t \in queue : NextInOrder(t) /\ queue' = queue \ Popped(t)
  /\ UNCHANGED <<agent, ticket>>

\* TicketNotFound, after every entry has been popped.
AssignNextNone(a) ==
  /\ agent[a].capacity # 0
  /\ queue # {} /\ \A t \in queue : ~Unassigned(t)
  /\ queue' = {}
  /\ UNCHANGED <<agent, ticket>>

ResolveTicket(t, a) ==
  /\ agent[a].capacity # 0
  /\ ticket[t].status = "assigned" /\ ticket[t].assignee = a
  /\ ticket' = [ticket EXCEPT ![t].status = "resolved"]
  /\ agent' = [agent EXCEPT ![a].assigned = @ - 1]
  /\ UNCHANGED queue

Next ==
  \/ \E t \in Tickets, p \in Priorities : CreateTicket(t, p)
  \/ \E a \in Agents :
       \/ \E n \in 1 .. MaxCapacity : RegisterAgent(a, n)
       \/ \E t \in Tickets : AssignTicket(t, a) \/ ResolveTicket(t, a)
       \/ AssignNextTicket(a) \/ AssignNextRefused(a) \/ AssignNextNone(a)

Spec == Init /\ [][Next]_supportVars

--------------------------------------------------------------------------------
\* An agent's counter is the number of tickets the agent has, and stays within
\* the agent's capacity, over any mix of both ways to assign and resolving.
LoadIsTickets ==
  \A a \in Agents :
    /\ agent[a].assigned = Cardinality({t \in Tickets : ticket[t].status = "assigned" /\ ticket[t].assignee = a})
    /\ agent[a].assigned <= agent[a].capacity

\* The only call after which a ticket nobody has is no longer queued is a pull
\* refused for want of capacity: skipping stale entries drops no live one.
OnlyRefusalsDrop ==
  [][\A t \in queue : Unassigned(t)' /\ t \notin queue' =>
       \E a \in Agents : IsAtFullCapacity(a) /\ UNCHANGED <<agent, ticket>>]_supportVars
================================================================================
