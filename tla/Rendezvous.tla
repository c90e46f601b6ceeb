----------------------------- MODULE Rendezvous -----------------------------
(***************************************************************************)
(* What the driver calls of the kernel promise, without a scheduler, a     *)
(* driver table or status words: a client calls a driver that is up and    *)
(* idle; it is blocked from then on, and the only thing that happens to    *)
(* its result and its buffer is one reply, by the driver it called.        *)
(***************************************************************************)
EXTENDS Integers

CONSTANTS
    Clients, Drivers,    \* the tasks that call and the tasks that answer
    Data,                \* contents of a buffer
    Results,             \* values of a result register
    Nobody,              \* no client
    Read, Write, Seek    \* the operations

VARIABLES
    up,       \* drivers that have registered a device
    serving,  \* the client each driver works for, or Nobody
    op,       \* the operation the driver was asked for
    store,    \* buffer contents of every task
    result    \* result register of every client

rvars == <<up, serving, op, store, result>>

Blocked(c) == \E d \in Drivers : serving[d] = c

RInit ==
    /\ up = {}
    /\ serving = [d \in Drivers |-> Nobody]
    /\ op = [d \in Drivers |-> 0]
    /\ \E v \in Data : store = [t \in Clients \cup Drivers |-> v]
    /\ result = [c \in Clients |-> 0]

Register(d) ==
    /\ d \notin up
    /\ up' = up \cup {d}
    /\ UNCHANGED <<serving, op, store, result>>

\* A driver with a device runs only to serve a client; a client runs unless
\* it is blocked.  A task that runs computes in its own buffer.
Runs(t) == ~Blocked(t) /\ (t \in up => serving[t] # Nobody)

Work(t, v) ==
    /\ Runs(t)
    /\ store' = [store EXCEPT ![t] = v]
    /\ UNCHANGED <<up, serving, op, result>>

\* A client that runs gets an immediate result of its own.
Local(c, r) ==
    /\ Runs(c)
    /\ result' = [result EXCEPT ![c] = r]
    /\ UNCHANGED <<up, serving, op, store>>

\* A call to an idle driver; a write may hand data over at once.
Call(c, d, o) ==
    /\ Runs(c)
    /\ d \in up
    /\ serving[d] = Nobody
    /\ serving' = [serving EXCEPT ![d] = c]
    /\ op' = [op EXCEPT ![d] = o]
    /\ \/ store' = store
       \/ o = Write /\ store' = [store EXCEPT ![d] = store[c]]
    /\ result' = [result EXCEPT ![c] = o]
    /\ UNCHANGED up

\* The reply goes to the client served, and to nobody else; it carries data
\* only if the client asked for a read.
Reply(d, r) ==
    LET c == serving[d] IN
    /\ c # Nobody
    /\ serving' = [serving EXCEPT ![d] = Nobody]
    /\ result' = [result EXCEPT ![c] = r]
    /\ \/ store' = store
       \/ op[d] = Read /\ store' = [store EXCEPT ![c] = store[d]]
    /\ UNCHANGED <<up, op>>

RNext ==
    \/ \E d \in Drivers : Register(d)
    \/ \E t \in Clients \cup Drivers, v \in Data : Work(t, v)
    \/ \E c \in Clients, r \in Results : Local(c, r)
    \/ \E c \in Clients, d \in Drivers, o \in {Read, Write, Seek} : Call(c, d, o)
    \/ \E d \in Drivers, r \in Results : Reply(d, r)

RSpec == RInit /\ [][RNext]_rvars
=============================================================================
