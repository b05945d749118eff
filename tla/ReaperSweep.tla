----------------------------- MODULE ReaperSweep ------------------------------
(***************************************************************************)
(* The sweep of ClientQueueReaper over a registry that changes under it: the *)
(* order of the registry's dict, the snapshot of its keys with the cursor    *)
(* into it, and a batch size that is computed again on every tick.  One step *)
(* of time is one period of the reaper; clients come, call and leave between *)
(* two ticks.                                                                *)
(***************************************************************************)
EXTENDS Integers, Sequences, FiniteSets

CONSTANTS
  Client,        \* client_ids
  Threshold,     \* inactivity threshold, in periods
  BatchSize,     \* client_reaper_batch_size
  TicksPerSweep, \* max(1, floor(target_sweep_seconds / period_seconds))
  MaxAge         \* bound of this model on the age it tells apart

ASSUME ReaperAssumption ==
  /\ IsFiniteSet(Client)
  /\ Threshold \in Nat /\ MaxAge \in Nat /\ MaxAge > Threshold
  /\ BatchSize \in Nat \ {0} /\ TicksPerSweep \in Nat \ {0}

VARIABLES
  keys,    \* the keys of ClientRegistry._entries, in the order of insertion
  age,     \* periods since the last_seen of each registered client
  cursor,  \* _cursor: the snapshot of the keys
  idx,     \* _cursor_idx: how many of them have been examined
  ticks,   \* history: ticks since the snapshot was taken
  shrunk   \* history: the registry was smaller than the snapshot at such a tick

vars == <<keys, age, cursor, idx, ticks, shrunk>>

Registered == {keys[i] : i \in DOMAIN keys}
Pending == idx < Len(cursor)

Distinct(s) == \A i, j \in DOMAIN s : s[i] = s[j] => i = j

\* Types; a dict and a snapshot of its keys hold each key once.
TypeOK ==
  /\ keys \in Seq(Client) /\ cursor \in Seq(Client)
  /\ Distinct(keys) /\ Distinct(cursor)
  /\ age \in [Client -> 0 .. MaxAge]
  /\ idx \in 0 .. Len(cursor)
  /\ ticks \in Nat
  /\ shrunk \in BOOLEAN

Init ==
  /\ keys = <<>> /\ cursor = <<>> /\ idx = 0
  /\ age = [c \in Client |-> 0]
  /\ ticks = 0 /\ shrunk = FALSE

-------------------------------------------------------------------------------
\* Faulty variant: get_or_create that forgets to look for an existing entry.
InsertedAgain(c) == Append(keys, c)

\* The keys after get_or_create(c).
Inserted(c) == IF c \in Registered THEN keys ELSE Append(keys, c)

\* A call of client c: get_or_create and bump_last_seen, also when the call is then
\* rejected (400) or the client had logged off; and a service's response to a client
\* that is not registered, whose entry starts as if it had called.
Call(c) ==
  /\ keys' = Inserted(c)
  /\ age' = [age EXCEPT ![c] = 0]
  /\ UNCHANGED <<cursor, idx, ticks, shrunk>>

\* ClientRegistry.remove: the keys that are not in gone, in their order.
Without(gone) ==
  LET kept == {i \in DOMAIN keys : keys[i] \notin gone}
      Nth(n) == CHOOSE i \in kept : Cardinality({j \in kept : j <= i}) = n
  IN [n \in 1 .. Cardinality(kept) |-> keys[Nth(n)]]

\* ClientRegistry.remove, by a logoff.
Logoff(c) ==
  /\ c \in Registered
  /\ keys' = Without({c})
  /\ age' = [age EXCEPT ![c] = 0]
  /\ UNCHANGED <<cursor, idx, ticks, shrunk>>

\* Faulty variants: the batch for the target is rounded down; it has no minimum.
BatchRoundedDown(n) ==
  IF n \div TicksPerSweep > BatchSize THEN n \div TicksPerSweep ELSE BatchSize
BatchWithoutMinimum(n) == (n + TicksPerSweep - 1) \div TicksPerSweep

\* _effective_batch_size, for a registry of n clients.
EffectiveBatch(n) ==
  LET scaled == (n + TicksPerSweep - 1) \div TicksPerSweep
  IN IF scaled > BatchSize THEN scaled ELSE BatchSize

\* Faulty variant: the last key of a batch is passed over.
ExaminedShort(snapshot, from, to) == {snapshot[i] : i \in from + 1 .. to - 1}

\* The keys at positions from+1 .. to of the snapshot.
Examined(snapshot, from, to) == {snapshot[i] : i \in from + 1 .. to}

\* Where a tick starts: behind the last one, or at the head of a new snapshot.
StartOfSweep == IF Pending THEN idx ELSE 0

\* _tick, and the sleep of one period that follows it.
ReaperTick ==
  LET snapshot == IF Pending THEN cursor ELSE keys
      from == StartOfSweep
      batch == EffectiveBatch(Len(keys))
      to == IF from + batch < Len(snapshot) THEN from + batch ELSE Len(snapshot)
      stale == {c \in Examined(snapshot, from, to) :
                  c \in Registered /\ age[c] > Threshold}
  IN /\ cursor' = snapshot
     /\ idx' = to
     /\ keys' = Without(stale)
     /\ age' = [c \in Client |->
                  IF c \in Registered \ stale
                  THEN IF age[c] < MaxAge THEN age[c] + 1 ELSE age[c]
                  ELSE 0]
     /\ ticks' = IF Pending THEN ticks + 1 ELSE 1
     /\ shrunk' = ((Pending /\ shrunk) \/ Len(keys) < Len(snapshot))

Next ==
  \/ \E c \in Client : Call(c) \/ Logoff(c)
  \/ ReaperTick

Spec == Init /\ [][Next]_vars

-------------------------------------------------------------------------------
(* Properties *)

Ceil(n, d) == (n + d - 1) \div d

\* While no tick sees a registry smaller than the snapshot it works on, a sweep
\* is over within the ticks of its target (the batch of reaper.py:42-49 scales
\* with the registry).
SweepWithinTargetUnlessShrunk == Pending /\ ~shrunk => ticks < TicksPerSweep

\* Whatever clients do, a sweep makes at least BatchSize keys of progress with
\* each tick, and so takes no more than the ticks its snapshot needs at that.
SweepProgress == Pending => idx >= ticks * BatchSize

\* The longest sweep, when the minimum batch is all a tick can count on.
LongestSweep == Ceil(Cardinality(Client), BatchSize)

\* Nobody stays registered for long without a sign of life, whatever made the entry
\* (a call that was rejected, a response after a logoff), and wherever the snapshot
\* has it or whether it does: an entry that crosses the threshold just behind the
\* cursor is evicted by the end of the next sweep.
EvictedInTime ==
  \A c \in Registered : age[c] < Threshold + 2 * LongestSweep

\* reaper.py:20-21: the scaling batch "guarantees the reaper completes a full
\* sweep within `target_sweep_seconds` regardless of registry size".  The batch
\* is computed again on each tick from a registry that shrinks as entries are
\* evicted or log off, while the snapshot keeps its length.  (The tick with the
\* snapshot is at time 0 of its sweep, so that ticks TicksPerSweep + 1 and later
\* are at or beyond the target; one at the target itself is granted.)
SweepWithinTarget == Pending => ticks <= TicksPerSweep
=============================================================================
