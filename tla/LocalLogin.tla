----------------------------- MODULE LocalLogin -----------------------------
(***************************************************************************)
(* Login with local passwords: the throttle, the accounts and the tokens.   *)
(*                                                                         *)
(* Handlers run in a pool of threads.  The throttle has a lock, the table of *)
(* users has transactions, and a handler uses one after the other; hashing a *)
(* password takes long and happens under neither.  A password is the number  *)
(* of times it was changed, so that a guess is a number too.                 *)
(*                                                                         *)
(* backend/app/api/{auth,deps}.py, core/auth.py, services/users.py.          *)
(***************************************************************************)
EXTENDS Integers, Sequences, FiniteSets, FiniteSetsExt

CONSTANTS
  Threads,
  Keys,        \* pairs of an email and an address
  Known,       \* those whose email is that of the account
  Threshold, BaseDelay, MaxDelay, EntryTtl, MaxEntries,
  Stall,       \* how long a thread may wait between the clock and the lock
  Bounds       \* of the clock and of the changes to the account, tried one by one

ASSUME ThrottleAssumption ==
  /\ Known \subseteq Keys
  /\ {Threshold, BaseDelay, MaxDelay, EntryTtl, MaxEntries} \subseteq Nat
  /\ Bounds \subseteq [time : Nat, changes : Nat]
  /\ Threshold >= 2 /\ BaseDelay > 0 /\ MaxEntries > 0
  \* Doubled six times, a delay is at its limit: main.py:234-242.
  /\ MaxDelay <= BaseDelay * 64
  \* __post_init__
  /\ MaxDelay <= EntryTtl
  /\ Stall \in 0..(MaxDelay - 1)

VARIABLES
  bound,
  clock,
  throttle, \* its table, in its order: [key, failures, until, seen]
  account,  \* the row of the one account: [password, epoch, active]
  thread,   \* where each handler stands and what it holds
  tokens    \* issued: the epoch each carries and the password it was given for

loginVars == <<bound, clock, throttle, account, thread, tokens>>

Passwords == 0..bound.changes
\* One is always wrong.
Guesses == 0..(bound.changes + 1)
Idle == [at |-> "idle"]
Steps == {"idle", "checking", "refusing", "looking", "failing", "recording", "clearing", "issuing",
          "proving", "changing"}

LoginTypeOK ==
  /\ bound \in Bounds /\ clock \in 0..bound.time
  /\ \A i \in DOMAIN throttle : throttle[i].key \in Keys /\ throttle[i].failures \in Nat
  /\ account.password \in Passwords /\ account.active \in BOOLEAN
  /\ \A t \in Threads : thread[t].at \in Steps

LoginInit ==
  /\ bound \in Bounds
  /\ clock = 0 /\ throttle = <<>> /\ tokens = {}
  /\ account = [password |-> 0, epoch |-> 0, active |-> TRUE]
  /\ thread = [t \in Threads |-> Idle]

Turns(t, step) == thread' = [thread EXCEPT ![t] = step]
Returns(t) == thread' = [thread EXCEPT ![t] = Idle]

-----------------------------------------------------------------------------
(* The throttle. *)

Entry(k) == {throttle[i] : i \in {j \in DOMAIN throttle : throttle[j].key = k}}
Blocked(k) == \E e \in Entry(k) : e.until > clock
\* What is at some places of a table, in its order.
AtPlaces(entries, places) ==
  LET Nth(n) == CHOOSE p \in places : Cardinality({q \in places : q <= p}) = n
  IN [n \in 1..Cardinality(places) |-> entries[Nth(n)]]
Others(k) == AtPlaces(throttle, {i \in DOMAIN throttle : throttle[i].key # k})

Delay(failures) ==
  LET exponent == failures - Threshold IN
  IF exponent >= 6 THEN MaxDelay ELSE Min({MaxDelay, BaseDelay * 2 ^ exponent})
\* The entry after one more failure.
OnceMore(k, stamp) ==
  LET failures == 1 + Max({e.failures : e \in Entry(k)} \cup {0})
      until == Max({e.until : e \in Entry(k)} \cup {0})
  IN [key |-> k, failures |-> failures, seen |-> stamp,
      until |-> IF failures >= Threshold THEN stamp + Delay(failures) ELSE until]

\* From the oldest on, until one is young enough.
Unexpired(entries, stamp) ==
  LET young == {i \in DOMAIN entries : entries[i].seen >= stamp - EntryTtl} IN
  IF young = {} THEN <<>> ELSE SubSeq(entries, Min(young), Len(entries))
WithoutOldest(entries, stamp) ==
  SubSeq(entries, Max({0, Len(entries) - MaxEntries}) + 1, Len(entries))
\* The oldest that are not blocked make room.
EvictedToCap(entries, stamp) ==
  LET excess == Len(entries) - MaxEntries
      free == {i \in DOMAIN entries : entries[i].until <= stamp}
      \* Of those the first ones, as many as are too many.
      out == {i \in free : Cardinality({j \in free : j < i}) < excess}
  IN AtPlaces(entries, DOMAIN entries \ out)
Recorded(k, stamp) == EvictedToCap(Unexpired(Append(Others(k), OnceMore(k, stamp)), stamp), stamp)

-----------------------------------------------------------------------------
(* A login. *)

Login(t) ==
  /\ thread[t] = Idle
  /\ \E k \in Keys, guess \in Guesses :
       /\ k \notin Known => guess = 0
       /\ Turns(t, [at |-> "checking", key |-> k, guess |-> guess])
  /\ UNCHANGED <<bound, clock, throttle, account, tokens>>
Check(t) ==
  /\ thread[t].at = "checking"
  /\ Turns(t, [thread[t] EXCEPT !.at = IF Blocked(thread[t].key) THEN "refusing" ELSE "looking"])
  /\ UNCHANGED <<bound, clock, throttle, account, tokens>>
\* record_blocked_attempt
Refuse(t) ==
  /\ thread[t].at = "refusing" /\ Returns(t)
  /\ \/ Entry(thread[t].key) = {} /\ UNCHANGED throttle
     \/ \E e \in Entry(thread[t].key) :
          throttle' = Append(Others(thread[t].key), [e EXCEPT !.seen = clock])
  /\ UNCHANGED <<bound, clock, account, tokens>>

\* verify_credentials: one read of the row, then the hash.
Verifies(row, guess) == row.active /\ row.password = guess
Look(t) ==
  /\ thread[t].at = "looking"
  /\ Turns(t, IF thread[t].key \in Known /\ Verifies(account, thread[t].guess)
              THEN [at |-> "clearing", key |-> thread[t].key, row |-> account]
              ELSE [at |-> "failing", key |-> thread[t].key])
  /\ UNCHANGED <<bound, clock, throttle, account, tokens>>
\* The clock is read before the lock is taken.
Stamp(t) ==
  /\ thread[t].at = "failing" /\ Turns(t, [at |-> "recording", key |-> thread[t].key, stamp |-> clock])
  /\ UNCHANGED <<bound, clock, throttle, account, tokens>>
RecordFailure(t) ==
  /\ thread[t].at = "recording" /\ Returns(t)
  /\ throttle' = Recorded(thread[t].key, thread[t].stamp)
  /\ UNCHANGED <<bound, clock, account, tokens>>
RecordSuccess(t) ==
  /\ thread[t].at = "clearing" /\ Turns(t, [at |-> "issuing", row |-> thread[t].row])
  /\ throttle' = Others(thread[t].key)
  /\ UNCHANGED <<bound, clock, account, tokens>>

IssuedNow(t) == [epoch |-> account.epoch, password |-> thread[t].row.password]
Issued(t) == [epoch |-> thread[t].row.epoch, password |-> thread[t].row.password]
Issue(t) ==
  /\ thread[t].at = "issuing" /\ Returns(t)
  /\ tokens' = tokens \cup {Issued(t)}
  /\ UNCHANGED <<bound, clock, throttle, account>>

-----------------------------------------------------------------------------
(* Requests with a token, and what changes the account. *)

\* get_current_user
Accepted(token) == account.active /\ token.epoch = account.epoch

\* set_password, whoever sets it.
SetPassword ==
  /\ account.password < bound.changes
  /\ account' = [account EXCEPT !.password = @ + 1, !.epoch = @ + 1]
ChangePassword(t) ==
  /\ bound.changes > 0 /\ thread[t] = Idle /\ \E token \in tokens : Accepted(token)
  /\ \E guess \in Guesses : Turns(t, [at |-> "proving", guess |-> guess])
  /\ UNCHANGED <<bound, clock, throttle, account, tokens>>
Prove(t) ==
  /\ thread[t].at = "proving"
  /\ IF Verifies(account, thread[t].guess) THEN Turns(t, [at |-> "changing"]) ELSE Returns(t)
  /\ UNCHANGED <<bound, clock, throttle, account, tokens>>
Change(t) ==
  /\ thread[t].at = "changing" /\ SetPassword /\ Returns(t)
  /\ UNCHANGED <<bound, clock, throttle, tokens>>

\* An administrator's patch.
ResetPassword == SetPassword /\ UNCHANGED <<bound, clock, throttle, thread, tokens>>
SetActive ==
  /\ bound.changes > 0
  /\ account' = [account EXCEPT !.active = ~@]
  /\ UNCHANGED <<bound, clock, throttle, thread, tokens>>

ClockTick ==
  /\ clock < bound.time /\ clock' = clock + 1
  /\ \A t \in Threads : thread[t].at = "recording" => clock' - thread[t].stamp <= Stall
  /\ UNCHANGED <<bound, throttle, account, thread, tokens>>
\* The throttle lives in the process, the secret of the tokens outside it.
Restart ==
  /\ throttle' = <<>> /\ thread' = [t \in Threads |-> Idle]
  /\ UNCHANGED <<bound, clock, account, tokens>>

LoginNext ==
  \/ ResetPassword \/ SetActive \/ ClockTick \/ Restart
  \/ \E t \in Threads :
       \/ Login(t) \/ Check(t) \/ Refuse(t) \/ Look(t) \/ Stamp(t) \/ RecordFailure(t)
       \/ RecordSuccess(t) \/ Issue(t) \/ ChangePassword(t) \/ Prove(t) \/ Change(t)

LoginSpec == LoginInit /\ [][LoginNext]_loginVars

-----------------------------------------------------------------------------
(* Properties *)

\* A block stands until its time is over, a login with the right password
\* succeeds or the process restarts: neither failures on other keys that crowd the
\* table, nor a failure that was stamped earlier, nor old age lift it
\* (auth.py:88-121, 186-227).
BlockStands ==
  [][\A k \in Keys :
       Blocked(k) /\ clock' = clock /\ ~Restart
       => \/ \E e \in {throttle'[i] : i \in DOMAIN throttle'} : e.key = k /\ e.until > clock
          \/ \E t \in Threads : thread[t].at = "clearing" /\ thread[t].key = k
                                /\ thread'[t].at = "issuing"]_loginVars

\* The cap is hard: with a threshold above one the newest entry is not blocked and
\* makes room itself if all the others are (auth.py:169-227).
CapIsHard == Len(throttle) <= MaxEntries

\* The table stays small, and not at the price of a block.
BlocksHold == []CapIsHard /\ BlockStands

\* A token that is accepted was given for the password of today, whatever was
\* changed between the check of a password and the token (deps.py:80-92,
\* users.py:290-318).
TokensFollowPassword == \A t \in tokens : Accepted(t) => t.password = account.password
=============================================================================
