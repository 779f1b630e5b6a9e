---------------------------- MODULE PriorityLock ----------------------------
(***************************************************************************)
(* What the Mutex promises its users, with no queue, no flags and no       *)
(* wakers: at most one client holds the lock, the lock is never free while *)
(* somebody waits, and it is handed on to a waiter that no other waiter    *)
(* outranks.                                                               *)
(***************************************************************************)
CONSTANTS
  Clients,         \* the requesters of the lock
  NoClient,        \* "nobody holds the lock"
  Priorities,
  Compare(_, _)

VARIABLES
  holder,    \* the client the lock has been given to, or NoClient
  waiting,   \* the clients that asked for the lock and do not have it
  inside,    \* the clients that can reach the protected data
  priority   \* the priority of each client's latest request

vars == <<holder, waiting, inside, priority>>

Init ==
  /\ holder = NoClient
  /\ waiting = {}
  /\ inside = {}
  /\ priority \in [Clients -> Priorities]

\* A request: it is granted at once if the lock is free, and waits otherwise.
Request(c, p) ==
  /\ c # holder
  /\ c \notin waiting
  /\ priority' = [priority EXCEPT ![c] = p]
  /\ IF holder = NoClient
       THEN holder' = c /\ inside' = inside \union {c} /\ UNCHANGED waiting
       ELSE waiting' = waiting \union {c} /\ UNCHANGED <<holder, inside>>

\* The client learns that it holds the lock.
Enter(c) ==
  /\ c = holder
  /\ inside' = inside \union {c}
  /\ UNCHANGED <<holder, waiting, priority>>

\* A waiting client gives up.
Withdraw(c) ==
  /\ c \in waiting
  /\ waiting' = waiting \ {c}
  /\ UNCHANGED <<holder, inside, priority>>

\* No waiting client has a higher priority than c.
Foremost(c) == \A d \in waiting : Compare(priority[d], priority[c]) # "Greater"

\* The holder gives the lock back, or gives up before it learnt of it.
Release(c) ==
  /\ c = holder
  /\ inside' = inside \ {c}
  /\ \/ waiting = {} /\ holder' = NoClient /\ UNCHANGED waiting
     \/ \E d \in waiting :
          /\ Foremost(d)
          /\ holder' = d
          /\ waiting' = waiting \ {d}
  /\ UNCHANGED priority

Next ==
  \E c \in Clients :
    \/ \E p \in Priorities : Request(c, p)
    \/ Enter(c)
    \/ Withdraw(c)
    \/ Release(c)

Spec == Init /\ [][Next]_vars
=============================================================================
