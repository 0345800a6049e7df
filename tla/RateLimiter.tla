---------------------------- MODULE RateLimiter ----------------------------
(***************************************************************************)
(* _SlidingWindow of relay/oauth.py: how many events one source had in the *)
(* last window_s seconds, for at most max_sources sources at a time.       *)
(*                                                                         *)
(* The table maps a source to its deque of times, which grows on the right *)
(* and is pruned on the left.                                              *)
(***************************************************************************)
EXTENDS Integers, Sequences, FiniteSets

CONSTANTS Source, MAX_EVENTS, WINDOW, MAX_SOURCES

ASSUME LimitAssumption ==
  MAX_EVENTS \in Nat \ {0} /\ WINDOW \in Nat /\ MAX_SOURCES \in Nat \ {0}

NoEvents == [s \in {} |-> <<>>]

(* Times are popped from the left until the first is within the window.    *)
Within(bucket, ts) ==
  LET fresh == {n \in DOMAIN bucket : bucket[n] >= ts - WINDOW}
      first == CHOOSE n \in fresh : \A m \in fresh : n <= m
  IN  IF fresh = {} THEN <<>> ELSE SubSeq(bucket, first, Len(bucket))

(* A key whose bucket is empty after pruning is dropped from the table.    *)
Pruned(table, S, ts) ==
  LET kept == {s \in DOMAIN table : s \in S => Within(table[s], ts) # <<>>}
  IN  [s \in kept |-> IF s \in S THEN Within(table[s], ts) ELSE table[s]]

(* allow prunes the bucket it looks at and no other.                       *)
Looked(table, s, ts) == Pruned(table, {s}, ts)

AllowedOffByOne(table, s, ts) ==   \* faulty: <= for <
  s \in DOMAIN Looked(table, s, ts) => Len(Looked(table, s, ts)[s]) <= MAX_EVENTS

Allowed(table, s, ts) ==
  s \in DOMAIN Looked(table, s, ts) => Len(Looked(table, s, ts)[s]) < MAX_EVENTS

(* The sources a full table may forget: those whose first event is oldest. *)
Victims(table) ==
  {v \in DOMAIN table : \A u \in DOMAIN table : table[v][1] <= table[u][1]}

Victimless(table, s) == {table}   \* faulty: a full table grows

(* A new source finds room in a table that is swept but full.              *)
MadeRoom(table, s) ==
  IF s \in DOMAIN table \/ Cardinality(DOMAIN table) < MAX_SOURCES
  THEN {table}
  ELSE {[u \in DOMAIN table \ {v} |-> table[u]] : v \in Victims(table)}

Appended(table, s, ts) ==
  [u \in DOMAIN table \cup {s} |->
     IF u # s THEN table[u] ELSE Append(IF s \in DOMAIN table THEN table[s] ELSE <<>>, ts)]

(* The tables record may leave: equally old victims are a choice.          *)
Recorded(table, s, ts) ==
  {Appended(t, s, ts) : t \in MadeRoom(Pruned(table, DOMAIN table, ts), s)}
=============================================================================
