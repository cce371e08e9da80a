----------------------------- MODULE EmailLocks -----------------------------
(***************************************************************************)
(* The per-email locks under which an administrator's requests to create,  *)
(* invite or re-invite an account run (core/email_locks.py).               *)
(*                                                                         *)
(* A table maps an address to an asyncio lock.  Entries are dropped when   *)
(* they are old or the table is full, at the start of any acquisition; a   *)
(* count of the acquisitions that are inside - holders and waiters - pins  *)
(* an entry.  An asyncio lock serves its waiters in order, and is free     *)
(* between its release and the turn of the waiter it woke.                 *)
(***************************************************************************)
EXTENDS Integers, FiniteSets, Sequences

CONSTANTS
  Reqs,    \* the requests, each acquires at most one lock in its life
  Emails,
  Locks,   \* lock objects; one that nothing refers to is as good as new
  Nothing  \* no entry, no holder, no key

ASSUME ReqsAssumption == IsFiniteSet(Reqs)
ASSUME NothingAssumption == Nothing \notin Reqs \cup Emails \cup Locks

VARIABLES
  table,   \* _locks: the lock of each address
  refs,    \* _refs: acquisitions inside, per address
  holder,  \* who has entered each lock's body
  queue,   \* the waiters of each lock
  section  \* where a request is: outside, waiting or inside; its address, its lock

lockVars == <<table, refs, holder, queue, section>>

Outside == [place |-> "outside", key |-> Nothing, lock |-> Nothing]

LocksTypeOK ==
  /\ table \in [Emails -> Locks \cup {Nothing}]
  /\ refs \in [Emails -> Nat]
  /\ holder \in [Locks -> Reqs \cup {Nothing}]
  /\ queue \in [Locks -> Seq(Reqs)]
  /\ section \in [Reqs -> [place : {"outside", "waiting", "inside"},
                           key : Emails \cup {Nothing}, lock : Locks \cup {Nothing}]]

LocksInit ==
  /\ table = [e \in Emails |-> Nothing]
  /\ refs = [e \in Emails |-> 0]
  /\ holder = [l \in Locks |-> Nothing]
  /\ queue = [l \in Locks |-> <<>>]
  /\ section = [r \in Reqs |-> Outside]

(* Age and the cap decide which unpinned entries go; here any of them may. *)
Evictable(e) == refs[e] = 0

(* A lock object nobody refers to: what asyncio.Lock() returns. *)
Fresh(l) ==
  /\ \A e \in Emails : table[e] # l
  /\ \A r \in Reqs : section[r].lock # l

(* acquire up to the point where the task waits for the lock. *)
Acquire(r, e) ==
  /\ section[r] = Outside
  /\ \E gone \in SUBSET {k \in Emails : Evictable(k)}, l \in Locks :
       LET kept == [k \in Emails |-> IF k \in gone THEN Nothing ELSE table[k]]
       IN  /\ IF kept[e] # Nothing THEN l = kept[e] ELSE Fresh(l)
           /\ table' = [kept EXCEPT ![e] = l]
           /\ queue' = [queue EXCEPT ![l] = Append(@, r)]
           /\ section' = [section EXCEPT ![r] = [place |-> "waiting", key |-> e, lock |-> l]]
  /\ refs' = [refs EXCEPT ![e] = @ + 1]
  /\ UNCHANGED holder

(* The first waiter's turn: it enters the body. *)
Enter(r) ==
  LET l == section[r].lock
  IN  /\ section[r].place = "waiting"
      /\ holder[l] = Nothing /\ Head(queue[l]) = r
      /\ holder' = [holder EXCEPT ![l] = r]
      /\ queue' = [queue EXCEPT ![l] = Tail(@)]
      /\ section' = [section EXCEPT ![r].place = "inside"]
      /\ UNCHANGED <<table, refs>>

(* The body is left, however it ends: release, then the finally clause. *)
Leave(r) ==
  LET l == section[r].lock
  IN  /\ section[r].place = "inside"
      /\ holder' = [holder EXCEPT ![l] = Nothing]
      /\ refs' = [refs EXCEPT ![section[r].key] = @ - 1]
      /\ section' = [section EXCEPT ![r] = Outside]
      /\ UNCHANGED <<table, queue>>

(* A new process starts with an empty table; its requests are gone. *)
LocksReset ==
  /\ table' = [e \in Emails |-> Nothing]
  /\ refs' = [e \in Emails |-> 0]
  /\ holder' = [l \in Locks |-> Nothing]
  /\ queue' = [l \in Locks |-> <<>>]
  /\ section' = [r \in Reqs |-> Outside]

LocksNext ==
  \/ \E r \in Reqs : Enter(r) \/ Leave(r) \/ \E e \in Emails : Acquire(r, e)
  \/ LocksReset

LocksSpec == LocksInit /\ [][LocksNext]_lockVars

(* Two requests for the same address are never inside together, whatever   *)
(* was evicted while they waited (email_locks.py:10-17).                   *)
OnePerEmail ==
  \A r1, r2 \in Reqs :
    (/\ section[r1].place = "inside" /\ section[r2].place = "inside"
     /\ section[r1].key = section[r2].key) => r1 = r2
=============================================================================
