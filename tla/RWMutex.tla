------------------------------- MODULE RWMutex -------------------------------
(***************************************************************************)
(* sync.RWMutex of the Go library, as internal/transport/subprocess.go and *)
(* claude/client.go use it.  A mutex is a value, and each operator is what *)
(* a call does to it; the caller's action says when.  Lock has two steps:  *)
(* Announce, from which on new readers wait, and the moment the writer has *)
(* the lock, when the readers that were inside have left.                  *)
(***************************************************************************)
EXTENDS Naturals, FiniteSets

Unlocked == [writer |-> {}, readers |-> {}, blocked |-> {}]

MutexOver(Threads) ==
    [writer : {T \in SUBSET Threads : Cardinality(T) <= 1},
     readers : SUBSET Threads, blocked : SUBSET Threads]

CanAnnounce(m) == m.writer = {}
Announce(m, t) == [m EXCEPT !.writer = {t}]
HoldsLock(m, t) == m.writer = {t} /\ m.readers = {}

\* Unlock lets every reader that waited in before the next writer.
Unlock(m) == [writer |-> {}, readers |-> m.blocked, blocked |-> {}]

RLock(m, t) == IF m.writer = {} THEN [m EXCEPT !.readers = @ \cup {t}]
                                ELSE [m EXCEPT !.blocked = @ \cup {t}]
HoldsRLock(m, t) == t \in m.readers
RUnlock(m, t) == [m EXCEPT !.readers = @ \ {t}]
=============================================================================
