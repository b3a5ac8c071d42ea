------------------------------- MODULE DbPool -------------------------------
(* The SQLite connections of the server (core/database.py): a pool of a few *)
(* connections, a temporary one when none is free, a retry of a statement   *)
(* that finds the database locked, and close() while threads still use it.  *)
EXTENDS Integers, FiniteSets

CONSTANTS Thread,    \* each executes one statement
          PoolSize,
          Retries,   \* attempts of a statement
          MaxFaults  \* bound on failing connections

Conn == 1 .. PoolSize + 2 * Cardinality(Thread)

VARIABLES open,    \* connections that are open
          free,    \* the pool
          busy,    \* the connection a thread has borrowed, or 0
          user,    \* the threads
          applied, \* how often the statement of a thread is committed
          closed, closing,
          bad      \* faults so far

vars == <<open, free, busy, user, applied, closed, closing, bad>>

TypeOK ==
    /\ open \subseteq Conn /\ free \subseteq open
    /\ busy \in [Thread -> Conn \cup {0}]
    /\ user \in [Thread -> [pc : {"idle", "get", "check", "run", "back", "retry",
                                  "done"},
                            tries : 0 .. Retries,
                            result : {"none", "ok", "failed"}]]
    /\ applied \in [Thread -> 0 .. Retries]
    /\ closed \in BOOLEAN /\ closing \in BOOLEAN
    /\ bad \in 0 .. MaxFaults

Init ==
    /\ open = 1 .. PoolSize /\ free = open
    /\ busy = [t \in Thread |-> 0]
    /\ user = [t \in Thread |-> [pc |-> "idle", tries |-> 0, result |-> "none"]]
    /\ applied = [t \in Thread |-> 0]
    /\ closed = FALSE /\ closing = FALSE
    /\ bad = 0

At(t, pc) == user[t].pc = pc
Go(t, pc) == user' = [user EXCEPT ![t].pc = pc]
Fault == bad < MaxFaults /\ bad' = bad + 1
Unused == Conn \ (open \cup {busy[t] : t \in Thread})
Created(c) == c \in Unused /\ \A d \in Unused : c <= d

\* execute: nothing is done after close(); connection() refuses then, too.
Enter(t) ==
    /\ user[t].pc \in {"idle", "retry"}
    /\ IF closed THEN user' = [user EXCEPT ![t].pc = "done", ![t].result = "failed"]
                 ELSE user' = [user EXCEPT ![t].pc = "get", ![t].tries = @ + 1]
    /\ UNCHANGED <<open, free, busy, applied, closed, closing, bad>>

\* A connection of the pool; a temporary one when there is none for 5 s.
Get(t) ==
    /\ At(t, "get")
    /\ \/ /\ free # {}
          /\ \E c \in free : busy' = [busy EXCEPT ![t] = c] /\ free' = free \ {c}
          /\ UNCHANGED open
       \/ /\ free = {}
          /\ \E c \in Conn : /\ Created(c)
                             /\ open' = open \cup {c}
                             /\ busy' = [busy EXCEPT ![t] = c]
          /\ UNCHANGED free
    /\ Go(t, "check")
    /\ UNCHANGED <<applied, closed, closing, bad>>

\* SELECT 1; a dead connection is replaced, or the statement fails with it.
Check(t) ==
    /\ At(t, "check")
    /\ \/ Go(t, "run") /\ UNCHANGED <<open, busy, bad>>
       \/ /\ Fault
          /\ \E c \in Conn : /\ Created(c)
                             /\ open' = (open \ {busy[t]}) \cup {c}
                             /\ busy' = [busy EXCEPT ![t] = c]
          /\ Go(t, "run")
       \/ /\ Fault
          /\ open' = open \ {busy[t]}
          /\ user' = [user EXCEPT ![t].pc = "back", ![t].result = "failed"]
          /\ UNCHANGED busy
    /\ UNCHANGED <<free, applied, closed, closing>>

\* The statement and its commit: done, refused, or the database is locked.
Run(t) ==
    /\ At(t, "run")
    /\ \/ /\ applied' = [applied EXCEPT ![t] = @ + 1]
          /\ user' = [user EXCEPT ![t].pc = "back", ![t].result = "ok"]
       \/ /\ user' = [user EXCEPT ![t].pc = "back",
                                  ![t].result = IF user[t].tries < Retries
                                                  THEN "none" ELSE "failed"]
          /\ UNCHANGED applied
       \/ /\ user' = [user EXCEPT ![t].pc = "back", ![t].result = "failed"]
          /\ UNCHANGED applied
    /\ UNCHANGED <<open, free, busy, closed, closing, bad>>

\* Mutant: a connection is returned to a pool that is closed.
SurplusLate(t) == Cardinality(free) = PoolSize \/ busy[t] \notin open

Surplus(t) == closed \/ Cardinality(free) = PoolSize \/ busy[t] \notin open

\* The finally of connection(): what is uncommitted is rolled back; under the
\* lock the connection is closed or returned, if the pool has room for it and
\* it still is a connection.
Back(t) ==
    /\ At(t, "back")
    /\ IF Surplus(t)
         THEN open' = open \ {busy[t]} /\ UNCHANGED free
         ELSE free' = free \cup {busy[t]} /\ UNCHANGED open
    /\ busy' = [busy EXCEPT ![t] = 0]
    /\ Go(t, IF user[t].result = "none" THEN "retry" ELSE "done")
    /\ UNCHANGED <<applied, closed, closing, bad>>

\* close() holds the lock: a thread may take a connection meanwhile, none can
\* give one back.
Close ==
    /\ ~closed
    /\ closed' = TRUE /\ closing' = TRUE
    /\ UNCHANGED <<open, free, busy, user, applied, bad>>

CloseOne ==
    /\ closing
    /\ IF free = {} THEN closing' = FALSE /\ UNCHANGED <<open, free>>
       ELSE \E c \in free : open' = open \ {c} /\ free' = free \ {c}
                            /\ UNCHANGED closing
    /\ UNCHANGED <<busy, user, applied, closed, bad>>

Next ==
    \/ \E t \in Thread : Enter(t) \/ Get(t) \/ Check(t) \/ Run(t)
                         \/ (~closing /\ Back(t))
    \/ Close \/ CloseOne

Spec == Init /\ [][Next]_vars

-----------------------------------------------------------------------------
\* No connection is lost or shared: each open one is in the pool or with one
\* thread, the pool never grows, none is open when close() and the threads
\* have ended; and a statement is committed once if it was answered so, never
\* otherwise, however often it was retried (database.py:58, database.py:275).
NoneLeaks ==
    /\ open = free \cup ({busy[t] : t \in Thread} \cap open)
    /\ \A t, u \in Thread : busy[t] = busy[u] /\ t # u => busy[t] = 0
    /\ \A t \in Thread : busy[t] \notin free
    /\ Cardinality(free) <= PoolSize
    /\ closed /\ ~closing /\ (\A t \in Thread : user[t].pc \in {"idle", "done"})
         => open = {}
    /\ \A t \in Thread : At(t, "done") =>
         applied[t] = IF user[t].result = "ok" THEN 1 ELSE 0
=============================================================================
