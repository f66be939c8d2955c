------------------------------ MODULE SeatLocks ------------------------------
(***************************************************************************)
(* The distributed seat locks: LockingService (one Redis key per seat) and *)
(* the two loops of BookingsService that take and give back several keys,  *)
(* acquireMultipleLocks and releaseMultipleLocks.                          *)
(*                                                                         *)
(* Every Redis command is awaited, so each command is a step of its own    *)
(* and the steps of different operations interleave.  A lock token is a    *)
(* fresh uuid; an operation never takes the same key twice, so the         *)
(* operation itself stands for its tokens.  The order in which an          *)
(* operation visits its seats is chosen by the client, so it is left open. *)
(* The time to live of a key is not counted: a key may lapse whenever it   *)
(* exists if "ttl" is a fault of the run, and only after its owner has     *)
(* forgotten it otherwise.                                                 *)
(***************************************************************************)
CONSTANTS
    Seats,     \* seat ids
    Ops,       \* operations (HTTP requests and consumed messages) under way
    Null,      \* no value: an absent key, a NULL column
    Faults     \* the faults a run admits

FaultKinds == {"ttl",      \* a key lapses while its owner is still working
               "redis",    \* a Redis command throws
               "db",       \* a database command throws
               "crash"}    \* the process that runs an operation dies

ASSUME LocksAssumption ==
    /\ Null \notin Ops
    /\ Faults \subseteq FaultKinds

VARIABLES
    lock,      \* lock[s]: the token stored under lock:seat:<s>, or Null
    want,      \* want[o]: the seat ids operation o passed to acquireMultipleLocks
    todo,      \* todo[o]: those the acquisition loop has not visited yet
    mine       \* mine[o]: the seats whose tokens are in o's lockTokens map

locksVars == <<lock, want, todo, mine>>

LocksTypeOK ==
    /\ lock \in [Seats -> Ops \cup {Null}]
    /\ want \in [Ops -> SUBSET Seats]
    /\ todo \in [Ops -> SUBSET Seats]
    /\ mine \in [Ops -> SUBSET Seats]

LocksInit ==
    /\ lock = [s \in Seats |-> Null]
    /\ want = [o \in Ops |-> {}]
    /\ todo = [o \in Ops |-> {}]
    /\ mine = [o \in Ops |-> {}]
------------------------------------------------------------------------------
\* Entry of acquireMultipleLocks: fresh lockTokens, all seats still to visit.
StartLocking(o, S) ==
    /\ want' = [want EXCEPT ![o] = S]
    /\ todo' = [todo EXCEPT ![o] = S]
    /\ UNCHANGED <<lock, mine>>

\* SET key token PX ttl NX answers OK.  (Mutant: NX is dropped.)
ObtainableMutant(s) == TRUE
Obtainable(s) == lock[s] = Null

\* What the command stores under the key: the caller's token.
Token(o, s) == o

\* One round of the acquisition loop: the key of s is taken, or s joins
\* failedSeats, which is want \ (todo \cup mine); the loop goes on either way.
\* (Mutant: the loop waits for a taken key, as a blocking lock would.)
AcquireLockMutant(o, s) ==
    /\ s \in todo[o]
    /\ Obtainable(s)
    /\ todo' = [todo EXCEPT ![o] = @ \ {s}]
    /\ lock' = [lock EXCEPT ![s] = Token(o, s)]
    /\ mine' = [mine EXCEPT ![o] = @ \cup {s}]
    /\ UNCHANGED want
AcquireLock(o, s) ==
    /\ s \in todo[o]
    /\ todo' = [todo EXCEPT ![o] = @ \ {s}]
    /\ \/ /\ Obtainable(s)
          /\ lock' = [lock EXCEPT ![s] = Token(o, s)]
          /\ mine' = [mine EXCEPT ![o] = @ \cup {s}]
       \/ /\ ~Obtainable(s)
          /\ UNCHANGED <<lock, mine>>
    /\ UNCHANGED want

\* failedSeats.length === 0, which decides what acquireMultipleLocks returns
\* and whether it gives the keys back.  (Mutant: one key is enough.)
AllLockedMutant(o) == todo[o] = {} /\ mine[o] # {}
AllLocked(o) == todo[o] = {} /\ mine[o] = want[o] /\ want[o] # {}

\* The Lua script deletes the key only if it holds the caller's token.
\* (Mutant: a plain DEL.)
OwnsMutant(o, s) == TRUE
Owns(o, s) == lock[s] = o

\* One round of a release loop (after a failed acquisition, or in finally).
ReleaseLock(o, s) ==
    /\ todo[o] = {}
    /\ s \in mine[o]
    /\ mine' = [mine EXCEPT ![o] = @ \ {s}]
    /\ lock' = IF Owns(o, s) THEN [lock EXCEPT ![s] = Null] ELSE lock
    /\ UNCHANGED <<want, todo>>

\* The operation is over without giving its keys back; its tokens are lost.
Forget(o) ==
    /\ todo' = [todo EXCEPT ![o] = {}]
    /\ mine' = [mine EXCEPT ![o] = {}]
    /\ UNCHANGED want

\* The process dies: the keys stay in Redis.
CrashLocks(o) == Forget(o) /\ UNCHANGED lock

\* A Redis command throws out of either loop: the remaining keys stay.  The
\* command may have been executed although its answer was lost.
RedisError(o) ==
    /\ Forget(o)
    /\ \/ UNCHANGED lock
       \/ \E s \in todo[o] : Obtainable(s) /\ lock' = [lock EXCEPT ![s] = Token(o, s)]
       \/ \E s \in mine[o] : /\ todo[o] = {}
                             /\ Owns(o, s)
                             /\ lock' = [lock EXCEPT ![s] = Null]

\* A key may lapse early only where the run admits it.  (Mutant: the time to
\* live is shorter than the work done under the lock.)
MayLapseMutant(s) == lock[s] # Null
MayLapse(s) == lock[s] # Null /\ ("ttl" \in Faults \/ s \notin mine[lock[s]])

\* The time to live of a key is over.
LapseLock(s) ==
    /\ MayLapse(s)
    /\ lock' = [lock EXCEPT ![s] = Null]
    /\ UNCHANGED <<want, todo, mine>>
------------------------------------------------------------------------------
(***************************************************************************)
(* The locks on their own: operations that lock a set of seats, work for a *)
(* while and give the seats back, again and again.                         *)
(***************************************************************************)
LocksNext ==
    \/ \E o \in Ops, S \in SUBSET Seats :
          /\ S # {} /\ todo[o] = {} /\ mine[o] = {}
          /\ StartLocking(o, S)
    \/ \E o \in Ops, s \in Seats : AcquireLock(o, s) \/ ReleaseLock(o, s)
    \/ \E o \in Ops : /\ todo[o] \cup mine[o] # {}
                      /\ \/ "crash" \in Faults /\ CrashLocks(o)
                         \/ "redis" \in Faults /\ RedisError(o)
    \/ \E s \in Seats : LapseLock(s)

LocksSpec == LocksInit /\ [][LocksNext]_locksVars
------------------------------------------------------------------------------
\* The key of every seat in an operation's lockTokens map holds its token:
\* what makes the token checked on release, and the work under it, meaningful.
TokensValid == \A o \in Ops : \A s \in mine[o] : lock[s] = o

\* A key is deleted or replaced only by its owner or by its time to live: an
\* operation that outlived its keys does not take away those of its successor.
OnlyOwnerReleases ==
    [][\A s \in Seats : lock[s] # Null /\ lock'[s] # lock[s] =>
          \A p \in Ops \ {lock[s]} : mine'[p] = mine[p]]_locksVars

\* The seats an operation holds as far as the abstract lock is concerned: all
\* it asked for from the last key taken until the first one given back.
heldSeats == [o \in Ops |-> IF AllLocked(o) THEN want[o] ELSE {}]

Abstract == INSTANCE SeatMutex WITH held <- heldSeats

\* The key-by-key locks implement the atomic ones.
ImplementsSeatMutex == Abstract!Spec
==============================================================================
