----------------------------- MODULE PositionTable -----------------------------
(* A position map as its users see it: a table of positions, one entry for     *)
(* every key that the levels of a RecursivePositionMap (oram/src/              *)
(* recursive_oram.rs) can tell apart.  There may be more entries than the n    *)
(* keys asked for; a key beyond them is cut down to its low-order bits.        *)
EXTENDS Integers, FiniteSetsExt

CONSTANTS LEVEL_0_BUCKETS, FAN_OUT,
          RandomBound,   \* bound: the positions that an access draws
          InitialBound   \* bound: the positions that `new` draws

ASSUME PositionTableAssumption ==
  /\ LEVEL_0_BUCKETS \in Nat \ {0} /\ FAN_OUT \in Nat \ {0, 1}
  /\ RandomBound \in Nat \ {0} /\ InitialBound \in 1 .. RandomBound

DUMMY_POS == -1

LINEAR_MAP_SIZE == LEVEL_0_BUCKETS * FAN_OUT

Power[i \in Nat] == IF i = 0 THEN 1 ELSE FAN_OUT * Power[i - 1]

(* The number of levels below the linear one, h in `new`. *)
Height(n) ==
  IF n <= LINEAR_MAP_SIZE THEN 0
  ELSE LET whole == n \div LINEAR_MAP_SIZE
           ilog == CHOOSE e \in 0 .. n : Power[e] <= whole /\ whole < Power[e + 1] IN
       IF LINEAR_MAP_SIZE * Power[ilog] < n THEN ilog + 1 ELSE ilog

(* The keys that the map tells apart. *)
Span(n) == LINEAR_MAP_SIZE * Power[Height(n)]

(* The linear level has whole buckets, and not more than n needs. *)
Entries(n) ==
  IF Height(n) > 0 THEN Span(n)
  ELSE FAN_OUT * Min({(n + FAN_OUT - 1) \div FAN_OUT, LEVEL_0_BUCKETS})

(* random_range(0..range), up to a bound. *)
Random(range, bound) == 0 .. Min({range, bound}) - 1

(* The positions of a new map for n keys. *)
NewTables(n) ==
  {t \in [0 .. Entries(n) - 1 -> Random(n, InitialBound) \cup {DUMMY_POS}] :
     \A k \in DOMAIN t : t[k] = DUMMY_POS <=> Height(n) = 0 /\ k >= n}

Slot(n, k) == k % Span(n)

(* What access_position returns, and the table that it leaves. *)
Access(k, pos) == [key |-> k, pos |-> pos]
Looked(t, n, k) == IF Slot(n, k) \in DOMAIN t THEN t[Slot(n, k)] ELSE DUMMY_POS
Stored(t, n, k, pos) == [s \in DOMAIN t |-> IF s = Slot(n, k) THEN pos ELSE t[s]]
================================================================================
