--------------------------- MODULE SeatLocks_proofs ---------------------------
(***************************************************************************)
(* What module SeatLocks promises, for any number of seats and operations: *)
(* types, the validity of the tokens as long as no key lapses under its    *)
(* owner, and the refinement of the atomic lock of SeatMutex.  The step    *)
(* lemmas are stated per action, for module Bookings runs the same actions.*)
(***************************************************************************)
EXTENDS SeatLocks, TLAPS

\* The keys of working operations do not lapse.
Timely == "ttl" \notin Faults

\* The inductive invariant behind everything said of timely locks: a token an
\* operation holds is the one stored in Redis.
LocksInv == LocksTypeOK /\ TokensValid
------------------------------------------------------------------------------
(* Types.                                                                  *)

\* StartLocking keeps the types.
LEMMA StartLockingType ==
    ASSUME NEW o \in Ops, NEW S \in SUBSET Seats, LocksTypeOK, StartLocking(o, S)
    PROVE  LocksTypeOK'
  BY DEF LocksTypeOK, StartLocking

\* AcquireLock keeps the types.
LEMMA AcquireLockType ==
    ASSUME NEW o \in Ops, NEW s \in Seats, LocksTypeOK, AcquireLock(o, s)
    PROVE  LocksTypeOK'
  BY DEF LocksTypeOK, AcquireLock, Token

\* ReleaseLock keeps the types.
LEMMA ReleaseLockType ==
    ASSUME NEW o \in Ops, NEW s \in Seats, LocksTypeOK, ReleaseLock(o, s)
    PROVE  LocksTypeOK'
  BY DEF LocksTypeOK, ReleaseLock

\* CrashLocks and RedisError keep the types.
LEMMA CrashLocksType ==
    ASSUME NEW o \in Ops, LocksTypeOK, CrashLocks(o)
    PROVE  LocksTypeOK'
  BY DEF LocksTypeOK, CrashLocks, Forget

LEMMA RedisErrorType ==
    ASSUME NEW o \in Ops, LocksTypeOK, RedisError(o)
    PROVE  LocksTypeOK'
  <1>1. /\ todo' \in [Ops -> SUBSET Seats]
        /\ mine' \in [Ops -> SUBSET Seats]
        /\ want' \in [Ops -> SUBSET Seats]
    BY DEF LocksTypeOK, RedisError, Forget
  <1>2. lock' \in [Seats -> Ops \cup {Null}]
    BY DEF LocksTypeOK, RedisError, Token
  <1> QED BY <1>1, <1>2 DEF LocksTypeOK

\* LapseLock keeps the types.
LEMMA LapseLockType ==
    ASSUME NEW s \in Seats, LocksTypeOK, LapseLock(s)
    PROVE  LocksTypeOK'
  BY DEF LocksTypeOK, LapseLock

\* Type correctness of the locks.
THEOREM LocksTypeCorrect == LocksSpec => []LocksTypeOK
  <1>1. LocksInit => LocksTypeOK
    BY DEF LocksInit, LocksTypeOK
  <1>2. LocksTypeOK /\ [LocksNext]_locksVars => LocksTypeOK'
    <2> SUFFICES ASSUME LocksTypeOK, [LocksNext]_locksVars
                 PROVE  LocksTypeOK'
      OBVIOUS
    <2>1. CASE UNCHANGED locksVars
      BY <2>1 DEF LocksTypeOK, locksVars
    <2>2. ASSUME NEW o \in Ops, NEW S \in SUBSET Seats, StartLocking(o, S)
          PROVE  LocksTypeOK'
      BY <2>2, StartLockingType
    <2>3. ASSUME NEW o \in Ops, NEW s \in Seats,
                 AcquireLock(o, s) \/ ReleaseLock(o, s)
          PROVE  LocksTypeOK'
      BY <2>3, AcquireLockType, ReleaseLockType
    <2>4. ASSUME NEW o \in Ops, CrashLocks(o) \/ RedisError(o)
          PROVE  LocksTypeOK'
      BY <2>4, CrashLocksType, RedisErrorType
    <2>5. ASSUME NEW s \in Seats, LapseLock(s)
          PROVE  LocksTypeOK'
      BY <2>5, LapseLockType
    <2> QED BY <2>1, <2>2, <2>3, <2>4, <2>5 DEF LocksNext
  <1> QED BY <1>1, <1>2, PTL DEF LocksSpec
------------------------------------------------------------------------------
(* Tokens.                                                                 *)

\* Starting to lock touches no key and no token.
LEMMA StartLockingTokens ==
    ASSUME NEW o \in Ops, NEW S \in SUBSET Seats, LocksInv, StartLocking(o, S)
    PROVE  TokensValid'
  BY DEF LocksInv, TokensValid, StartLocking

\* SET NX takes a key only where there is none, hence none of somebody else.
LEMMA AcquireLockTokens ==
    ASSUME NEW o \in Ops, NEW s \in Seats, LocksInv, AcquireLock(o, s)
    PROVE  TokensValid'
  <1> SUFFICES ASSUME NEW p \in Ops, NEW t \in Seats, t \in mine'[p]
               PROVE  lock'[t] = p
    BY AcquireLockType DEF LocksInv, TokensValid, LocksTypeOK
  <1>1. CASE UNCHANGED <<lock, mine>>
    BY <1>1 DEF LocksInv, TokensValid
  <1>2. CASE /\ Obtainable(s)
             /\ lock' = [lock EXCEPT ![s] = Token(o, s)]
             /\ mine' = [mine EXCEPT ![o] = @ \cup {s}]
    <2>1. s \notin mine[p]
      BY <1>2, LocksAssumption DEF LocksInv, TokensValid, Obtainable
    <2>2. CASE t = s
      BY <1>2, <2>1, <2>2 DEF LocksInv, LocksTypeOK, Token
    <2>3. CASE t # s
      BY <1>2, <2>3 DEF LocksInv, LocksTypeOK, TokensValid
    <2> QED BY <2>2, <2>3
  <1> QED BY <1>1, <1>2 DEF AcquireLock

\* The token is deleted together with the key.
LEMMA ReleaseLockTokens ==
    ASSUME NEW o \in Ops, NEW s \in Seats, LocksInv, ReleaseLock(o, s)
    PROVE  TokensValid'
  BY DEF LocksInv, LocksTypeOK, TokensValid, ReleaseLock, Owns

\* An operation that dies or meets an error forgets its tokens; whatever key
\* its last command wrote or deleted is not in the hands of another one.
LEMMA CrashLocksTokens ==
    ASSUME NEW o \in Ops, LocksInv, CrashLocks(o)
    PROVE  TokensValid'
  BY DEF LocksInv, LocksTypeOK, TokensValid, CrashLocks, Forget

LEMMA RedisErrorTokens ==
    ASSUME NEW o \in Ops, LocksInv, RedisError(o)
    PROVE  TokensValid'
  <1> SUFFICES ASSUME NEW p \in Ops, NEW t \in Seats, t \in mine'[p]
               PROVE  lock'[t] = p
    BY RedisErrorType DEF LocksInv, TokensValid, LocksTypeOK
  <1>1. mine' = [mine EXCEPT ![o] = {}]
    BY DEF RedisError, Forget
  <1>2. p # o /\ t \in mine[p]
    BY <1>1 DEF LocksInv, LocksTypeOK
  <1>3. lock[t] = p /\ lock[t] # Null
    BY <1>2, LocksAssumption DEF LocksInv, TokensValid
  <1>4. CASE UNCHANGED lock
    BY <1>3, <1>4
  <1>5. ASSUME NEW s \in todo[o], Obtainable(s), lock' = [lock EXCEPT ![s] = Token(o, s)]
        PROVE  lock'[t] = p
    BY <1>3, <1>5 DEF Obtainable, LocksInv, LocksTypeOK
  <1>6. ASSUME NEW s \in mine[o], Owns(o, s), lock' = [lock EXCEPT ![s] = Null]
        PROVE  lock'[t] = p
    BY <1>2, <1>3, <1>6 DEF Owns, LocksInv, LocksTypeOK
  <1> QED BY <1>4, <1>5, <1>6 DEF RedisError

\* A timely key lapses only after its owner has forgotten it.
LEMMA LapseLockTokens ==
    ASSUME Timely, NEW s \in Seats, LocksInv, LapseLock(s)
    PROVE  TokensValid'
  <1>1. ASSUME NEW p \in Ops PROVE s \notin mine[p]
    BY DEF LocksInv, TokensValid, LapseLock, MayLapse, Timely
  <1> QED BY <1>1 DEF LocksInv, LocksTypeOK, TokensValid, LapseLock

\* The invariant is inductive.
LEMMA LocksInvStep ==
    ASSUME Timely, LocksInv, [LocksNext]_locksVars
    PROVE  TokensValid'
  <1>1. CASE UNCHANGED locksVars
    BY <1>1 DEF LocksInv, TokensValid, locksVars
  <1>2. ASSUME NEW o \in Ops, NEW S \in SUBSET Seats, StartLocking(o, S)
        PROVE  TokensValid'
    BY <1>2, StartLockingTokens
  <1>3. ASSUME NEW o \in Ops, NEW s \in Seats,
               AcquireLock(o, s) \/ ReleaseLock(o, s)
        PROVE  TokensValid'
    BY <1>3, AcquireLockTokens, ReleaseLockTokens
  <1>4. ASSUME NEW o \in Ops, CrashLocks(o) \/ RedisError(o)
        PROVE  TokensValid'
    BY <1>4, CrashLocksTokens, RedisErrorTokens
  <1>5. ASSUME NEW s \in Seats, LapseLock(s)
        PROVE  TokensValid'
    BY <1>5, LapseLockTokens
  <1> QED BY <1>1, <1>2, <1>3, <1>4, <1>5 DEF LocksNext

\* Crashes and Redis errors included, every token in a lockTokens map is the
\* one stored in Redis, provided that keys outlive the work done under them.
THEOREM TokensAlwaysValid ==
    ASSUME Timely PROVE LocksSpec => []TokensValid
  <1>1. LocksInit => TokensValid
    BY DEF LocksInit, TokensValid
  <1>2. LocksTypeOK /\ TokensValid /\ [LocksNext]_locksVars => TokensValid'
    BY Timely, LocksInvStep DEF LocksInv
  <1> QED BY <1>1, <1>2, LocksTypeCorrect, PTL DEF LocksSpec
------------------------------------------------------------------------------
(* Ownership.  Nothing here depends on the lapse of keys.                  *)

\* What OnlyOwnerReleases says of one step: where a key goes away, only the
\* lockTokens map of the operation it belonged to changes.
ReleasedByOwner ==
    \A s \in Seats : lock[s] # Null /\ lock'[s] # lock[s] =>
        \A p \in Ops \ {lock[s]} : mine'[p] = mine[p]

\* SET NX replaces no key.
LEMMA AcquireLockOwner ==
    ASSUME NEW o \in Ops, NEW s \in Seats, LocksTypeOK, AcquireLock(o, s)
    PROVE  ReleasedByOwner
  <1>1. \A t \in Seats : lock[t] # Null => lock'[t] = lock[t]
    BY DEF LocksTypeOK, AcquireLock, Obtainable
  <1> QED BY <1>1 DEF ReleasedByOwner

\* The script compares the token before it deletes the key.
LEMMA ReleaseLockOwner ==
    ASSUME NEW o \in Ops, NEW s \in Seats, LocksTypeOK, ReleaseLock(o, s)
    PROVE  ReleasedByOwner
  <1>1. \A t \in Seats : lock'[t] # lock[t] => lock[t] = o
    BY DEF LocksTypeOK, ReleaseLock, Owns
  <1>2. \A p \in Ops \ {o} : mine'[p] = mine[p]
    BY DEF LocksTypeOK, ReleaseLock
  <1> QED BY <1>1, <1>2 DEF ReleasedByOwner

\* A command whose answer was lost obtained a free key or deleted an own one.
LEMMA RedisErrorOwner ==
    ASSUME NEW o \in Ops, LocksTypeOK, RedisError(o)
    PROVE  ReleasedByOwner
  <1>1. \A t \in Seats : lock'[t] # lock[t] => lock[t] \in {o, Null}
    BY DEF LocksTypeOK, RedisError, Obtainable, Owns
  <1>2. \A p \in Ops \ {o} : mine'[p] = mine[p]
    BY DEF LocksTypeOK, RedisError, Forget
  <1> QED BY <1>1, <1>2 DEF ReleasedByOwner

\* Where no key changes, and where no lockTokens map does, there is nothing to
\* tell.
LEMMA UnchangedOwner ==
    ASSUME UNCHANGED lock \/ UNCHANGED mine
    PROVE  ReleasedByOwner
  BY DEF ReleasedByOwner

\* No operation deletes or replaces the key of another one, however short the
\* keys live and whatever fails: an operation that outlived its keys leaves
\* those of its successors alone.
THEOREM OwnersRelease == LocksSpec => OnlyOwnerReleases
  <1>1. LocksTypeOK /\ [LocksNext]_locksVars => ReleasedByOwner
    <2> SUFFICES ASSUME LocksTypeOK, [LocksNext]_locksVars
                 PROVE  ReleasedByOwner
      OBVIOUS
    <2>1. ASSUME NEW o \in Ops, NEW s \in Seats,
                 AcquireLock(o, s) \/ ReleaseLock(o, s)
          PROVE  ReleasedByOwner
      BY <2>1, AcquireLockOwner, ReleaseLockOwner
    <2>2. ASSUME NEW o \in Ops, RedisError(o)
          PROVE  ReleasedByOwner
      BY <2>2, RedisErrorOwner
    <2>3. CASE UNCHANGED locksVars
      BY <2>3, UnchangedOwner DEF locksVars
    <2> QED BY <2>1, <2>2, <2>3, UnchangedOwner
            DEF LocksNext, StartLocking, CrashLocks, LapseLock
  <1>2. LocksTypeOK /\ [LocksNext]_locksVars =>
           [\A s \in Seats : lock[s] # Null /\ lock'[s] # lock[s] =>
               \A p \in Ops \ {lock[s]} : mine'[p] = mine[p]]_locksVars
    BY <1>1 DEF ReleasedByOwner
  <1> QED BY <1>2, LocksTypeCorrect, PTL DEF LocksSpec, OnlyOwnerReleases
------------------------------------------------------------------------------
(* Refinement.                                                             *)

\* The loops stay within the seats that were asked for.
WithinWanted == \A o \in Ops : todo[o] \cup mine[o] \subseteq want[o]

\* Every step of the locks keeps the loops within the seats asked for.
LEMMA WithinWantedStep ==
    ASSUME LocksTypeOK, WithinWanted, [LocksNext]_locksVars
    PROVE  WithinWanted'
  <1>1. CASE UNCHANGED locksVars
    BY <1>1 DEF WithinWanted, locksVars
  <1>2. ASSUME NEW o \in Ops, NEW S \in SUBSET Seats,
               mine[o] = {}, StartLocking(o, S)
        PROVE  WithinWanted'
    BY <1>2 DEF LocksTypeOK, WithinWanted, StartLocking
  <1>3. ASSUME NEW o \in Ops, NEW s \in Seats, AcquireLock(o, s)
        PROVE  WithinWanted'
    BY <1>3 DEF LocksTypeOK, WithinWanted, AcquireLock
  <1>4. ASSUME NEW o \in Ops, NEW s \in Seats, ReleaseLock(o, s)
        PROVE  WithinWanted'
    BY <1>4 DEF LocksTypeOK, WithinWanted, ReleaseLock
  <1>5. ASSUME NEW o \in Ops, CrashLocks(o) \/ RedisError(o)
        PROVE  WithinWanted'
    BY <1>5 DEF LocksTypeOK, WithinWanted, CrashLocks, RedisError, Forget
  <1>6. ASSUME NEW s \in Seats, LapseLock(s)
        PROVE  WithinWanted'
    BY <1>6 DEF WithinWanted, LapseLock
  <1> QED BY <1>1, <1>2, <1>3, <1>4, <1>5, <1>6 DEF LocksNext

\* A step that leaves todo, mine and want of an operation alone leaves what it
\* holds alone; these are the entries heldSeats is made of.
LEMMA HeldEntry ==
    ASSUME NEW o \in Ops
    PROVE  /\ heldSeats[o] = IF AllLocked(o) THEN want[o] ELSE {}
           /\ heldSeats'[o] = IF AllLocked(o)' THEN want'[o] ELSE {}
  BY DEF heldSeats

LEMMA HeldFrame ==
    ASSUME NEW p \in Ops,
           todo'[p] = todo[p], mine'[p] = mine[p], want'[p] = want[p]
    PROVE  heldSeats'[p] = heldSeats[p]
  BY HeldEntry DEF AllLocked

\* Two functions with the same entries are equal.
LEMMA HeldUpdate ==
    ASSUME NEW o \in Ops, NEW V,
           \A p \in Ops \ {o} : heldSeats'[p] = heldSeats[p],
           heldSeats'[o] = V
    PROVE  heldSeats' = [heldSeats EXCEPT ![o] = V]
  BY DEF heldSeats

LEMMA HeldSame ==
    ASSUME \A p \in Ops : heldSeats'[p] = heldSeats[p]
    PROVE  UNCHANGED heldSeats
  BY DEF heldSeats

\* The last key of an acquisition is an atomic Take, for another operation that
\* held one of the seats would have its own token there.
LEMMA AcquireImplements ==
    ASSUME NEW o \in Ops, NEW s \in Seats, LocksInv, AcquireLock(o, s)
    PROVE  Abstract!Next \/ UNCHANGED heldSeats
  <1>1. \A p \in Ops \ {o} : heldSeats'[p] = heldSeats[p]
    BY HeldFrame DEF LocksInv, LocksTypeOK, AcquireLock
  <1>2. heldSeats[o] = {}
    BY HeldEntry DEF AllLocked, AcquireLock
  <1>3. CASE AllLocked(o)'
    <2>1. heldSeats' = [heldSeats EXCEPT ![o] = want'[o]]
      BY <1>1, <1>3, HeldEntry, HeldUpdate
    <2>2. ASSUME NEW p \in Ops PROVE want'[o] \cap heldSeats[p] = {}
      <3>1. CASE p = o
        BY <1>2, <3>1
      <3>2. CASE p # o
        <4>1. \A t \in mine'[o] : lock'[t] = o
          BY AcquireLockTokens DEF TokensValid
        <4>2. \A t \in mine'[p] : lock'[t] = p
          BY AcquireLockTokens DEF TokensValid
        <4>3. mine'[o] \cap mine'[p] = {}
          BY <3>2, <4>1, <4>2
        <4>4. want'[o] = mine'[o]
          BY <1>3 DEF AllLocked
        <4>5. heldSeats'[p] \subseteq mine'[p]
          BY HeldEntry DEF AllLocked
        <4> QED BY <1>1, <3>2, <4>3, <4>4, <4>5
      <3> QED BY <3>1, <3>2
    <2>3. want'[o] \in SUBSET Seats
      BY AcquireLockType DEF LocksInv, LocksTypeOK
    <2>4. Abstract!Take(o, want'[o])
      BY <1>2, <2>1, <2>2 DEF Abstract!Take
    <2> QED BY <2>3, <2>4 DEF Abstract!Next
  <1>4. CASE ~AllLocked(o)'
    BY <1>1, <1>2, <1>4, HeldEntry, HeldSame
  <1> QED BY <1>3, <1>4

\* The first key given back, and the loss of the tokens, are an atomic Give if
\* the operation held its seats; otherwise they are invisible.
LEMMA LosingImplements ==
    ASSUME NEW o \in Ops,
           \A p \in Ops \ {o} : heldSeats'[p] = heldSeats[p],
           heldSeats'[o] = {}
    PROVE  Abstract!Next \/ UNCHANGED heldSeats
  <1>1. CASE heldSeats[o] = {}
    BY <1>1, HeldSame
  <1>2. CASE heldSeats[o] # {}
    BY <1>2, HeldUpdate DEF Abstract!Next, Abstract!Give
  <1> QED BY <1>1, <1>2

LEMMA ReleaseImplements ==
    ASSUME NEW o \in Ops, NEW s \in Seats, LocksTypeOK, WithinWanted,
           ReleaseLock(o, s)
    PROVE  Abstract!Next \/ UNCHANGED heldSeats
  <1>1. \A p \in Ops \ {o} : heldSeats'[p] = heldSeats[p]
    BY HeldFrame DEF LocksTypeOK, ReleaseLock
  <1>2. s \in want'[o] /\ s \notin mine'[o]
    BY DEF LocksTypeOK, WithinWanted, ReleaseLock
  <1>3. heldSeats'[o] = {}
    BY <1>2, HeldEntry DEF AllLocked
  <1> QED BY <1>1, <1>3, LosingImplements

LEMMA ForgetImplements ==
    ASSUME NEW o \in Ops, LocksTypeOK, Forget(o)
    PROVE  Abstract!Next \/ UNCHANGED heldSeats
  <1>1. \A p \in Ops \ {o} : heldSeats'[p] = heldSeats[p]
    BY HeldFrame DEF LocksTypeOK, Forget
  <1>2. mine'[o] = {}
    BY DEF LocksTypeOK, Forget
  <1>3. heldSeats'[o] = {}
    BY <1>2, HeldEntry DEF AllLocked
  <1> QED BY <1>1, <1>3, LosingImplements

\* Starting to lock holds nothing yet.
LEMMA StartImplements ==
    ASSUME NEW o \in Ops, NEW S \in SUBSET Seats, LocksTypeOK,
           S # {}, mine[o] = {}, StartLocking(o, S)
    PROVE  UNCHANGED heldSeats
  <1>1. \A p \in Ops \ {o} : heldSeats'[p] = heldSeats[p]
    BY HeldFrame DEF LocksTypeOK, StartLocking
  <1>2. heldSeats[o] = {}
    BY HeldEntry DEF AllLocked
  <1>3. todo'[o] # {}
    BY DEF LocksTypeOK, StartLocking
  <1>4. heldSeats'[o] = {}
    BY <1>3, HeldEntry DEF AllLocked
  <1> QED BY <1>1, <1>2, <1>4, HeldSame

\* One Redis key at a time, with crashes and Redis errors in between, the
\* service implements a lock that takes all the seats of a request atomically
\* and excludes every other holder.
THEOREM LocksImplementSeatMutex ==
    ASSUME Timely PROVE LocksSpec => ImplementsSeatMutex
  <1>1. LocksInit => Abstract!Init
    BY DEF LocksInit, Abstract!Init, heldSeats, AllLocked
  <1>2. LocksTypeOK /\ TokensValid /\ WithinWanted /\ [LocksNext]_locksVars
            => [Abstract!Next]_heldSeats
    <2> SUFFICES ASSUME LocksTypeOK, TokensValid, WithinWanted,
                        [LocksNext]_locksVars
                 PROVE  Abstract!Next \/ UNCHANGED heldSeats
      OBVIOUS
    <2>1. CASE UNCHANGED locksVars
      BY <2>1, HeldFrame, HeldSame DEF locksVars
    <2>2. ASSUME NEW o \in Ops, NEW S \in SUBSET Seats,
                 S # {}, mine[o] = {}, StartLocking(o, S)
          PROVE  UNCHANGED heldSeats
      BY <2>2, StartImplements
    <2>3. ASSUME NEW o \in Ops, NEW s \in Seats, AcquireLock(o, s)
          PROVE  Abstract!Next \/ UNCHANGED heldSeats
      BY <2>3, AcquireImplements DEF LocksInv
    <2>4. ASSUME NEW o \in Ops, NEW s \in Seats, ReleaseLock(o, s)
          PROVE  Abstract!Next \/ UNCHANGED heldSeats
      BY <2>4, ReleaseImplements
    <2>5. ASSUME NEW o \in Ops, CrashLocks(o) \/ RedisError(o)
          PROVE  Abstract!Next \/ UNCHANGED heldSeats
      BY <2>5, ForgetImplements DEF CrashLocks, RedisError
    <2>6. ASSUME NEW s \in Seats, LapseLock(s)
          PROVE  UNCHANGED heldSeats
      BY <2>6, HeldFrame, HeldSame DEF LapseLock
    <2> QED BY <2>1, <2>2, <2>3, <2>4, <2>5, <2>6 DEF LocksNext
  <1>3. LocksInit => WithinWanted
    BY DEF LocksInit, WithinWanted
  <1>4. LocksTypeOK /\ WithinWanted /\ [LocksNext]_locksVars => WithinWanted'
    BY WithinWantedStep
  <1>5. LocksSpec => []WithinWanted
    BY <1>3, <1>4, LocksTypeCorrect, PTL DEF LocksSpec
  <1> QED BY <1>1, <1>2, <1>5, LocksTypeCorrect, TokensAlwaysValid, PTL
      DEF LocksSpec, ImplementsSeatMutex, Abstract!Spec
===============================================================================
