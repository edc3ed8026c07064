------------------------- MODULE TokenFailureBuckets -------------------------
(***************************************************************************)
(* The failure limits of service tokens (services/token_failure_buckets.py),  *)
(* used by require_api_read_access (api/security.py): a request is checked     *)
(* against three counters of the running fixed window, one for all failures,  *)
(* one for its network source, one for the token it presents; a wrong token is *)
(* then counted in all three.  The table of counters is bounded: a counter     *)
(* that still counts may have to go.                                         *)
(*                                                                         *)
(* Checking and counting are two actions: other requests count in between.   *)
(* The counting of one failure is one action; the row lock of the global       *)
(* counter, or SQLite's write lock, holds the others off.  The table is a     *)
(* sequence in the order of its eviction queries: expires_at, then id.        *)
(***************************************************************************)
EXTENDS Naturals, Sequences, FiniteSets, SequencesExt

CONSTANTS Sources, Tokens,
          GlobalLimit, SourceLimit, TokenLimit,
          MaxRows,      \* the setting ..._FAILURE_BUCKET_MAX_ROWS
          PruneBatch,   \* PRUNE_BATCH_SIZE
          MaxWindow     \* bound: windows in a behaviour

VARIABLES table,    \* the counters
          window,   \* the running window
          checked,  \* requests that passed the check, their token not yet verified
          failed    \* history: the failures of the running window, at most Limit of each kind

vars == <<table, window, checked, failed>>

Global == "global"

Dimensions == {Global} \cup Sources \cup Tokens

Limit(key) ==
    IF key = Global THEN GlobalLimit ELSE IF key \in Sources THEN SourceLimit ELSE TokenLimit

Buckets == [key: Dimensions, window: 1..MaxWindow, count: Nat]

(* What the proofs about this module assume of its constants: the three kinds of  *)
(* counters do not meet; the limits are positive (_validate_policy_limits), and   *)
(* so is the bound of the table (config.py: at least 100).                    *)
ConstantsSound ==
    /\ Global \notin Sources \cup Tokens /\ Sources \cap Tokens = {}
    /\ {GlobalLimit, SourceLimit, TokenLimit, MaxRows, MaxWindow} \subseteq Nat \ {0}
    /\ PruneBatch \in Nat

Calls == [source: Sources, token: Tokens]

TypeOK ==
    /\ table \in Seq(Buckets)
    /\ Len(table) <= MaxRows
    /\ window \in 1..MaxWindow
    /\ checked \subseteq Calls
    /\ failed \in [Dimensions -> Nat]

Init ==
    /\ table = <<>>
    /\ window = 1
    /\ checked = {}
    /\ failed = [k \in Dimensions |-> 0]

Least(a, b) == IF a < b THEN a ELSE b

(* Seeded fault: counters of windows that are over count.                    *)
AnyWindow(t, key) == {i \in DOMAIN t : t[i].key = key}

Current(t, key) == {i \in DOMAIN t : t[i].key = key /\ t[i].window = window}

Count(t, key) == IF Current(t, key) = {} THEN 0 ELSE t[CHOOSE i \in Current(t, key) : TRUE].count

(* precheck_service_token_failure                                            *)
Denied(t, r) == \E k \in {Global, r.source, r.token} : Count(t, k) >= Limit(k)

Check(r) ==
    /\ ~Denied(table, r)
    /\ checked' = checked \cup {r}
    /\ UNCHANGED <<table, window, failed>>

(* The first row, in eviction order, that is one of these.                   *)
First(t, rows) == CHOOSE i \in rows : \A k \in rows : i <= k

Expired(t) == {i \in DOMAIN t : t[i].window < window}

(* Seeded fault: the bound is forgotten.                                    *)
AlwaysRoom(t, evictable) == [table |-> t, room |-> TRUE, lost |-> FALSE]

(* _make_bucket_room: the table afterwards, whether there is room, and        *)
(* whether a counter was given up for it that may still count.               *)
Room(t, evictable) ==
    LET victims == {i \in DOMAIN t : t[i].key \in evictable}
    IN  CASE Len(t) < MaxRows -> [table |-> t, room |-> TRUE, lost |-> FALSE]
          [] Len(t) >= MaxRows /\ Expired(t) # {} ->
               [table |-> RemoveAt(t, First(t, Expired(t))), room |-> TRUE, lost |-> FALSE]
          [] Len(t) >= MaxRows /\ Expired(t) = {} /\ victims # {} ->
               [table |-> RemoveAt(t, First(t, victims)), room |-> TRUE, lost |-> TRUE]
          [] OTHER -> [table |-> t, room |-> FALSE, lost |-> FALSE]

(* _increment_bucket: one more, but not beyond the limit plus one.            *)
Increment(t, key, evictable) ==
    IF Current(t, key) # {}
    THEN [table |-> [i \in DOMAIN t |->
                        IF i \in Current(t, key)
                        THEN [t[i] EXCEPT !.count = Least(@ + 1, Limit(key) + 1)] ELSE t[i]],
          room |-> TRUE, lost |-> FALSE]
    ELSE LET made == Room(t, evictable)
         IN  IF made.room
             THEN [made EXCEPT !.table = Append(@, [key |-> key, window |-> window, count |-> 1])]
             ELSE made

(* Seeded fault: nothing happens when a counter is given up.                 *)
NotSaturated(t) == t

(* _saturate_bucket of the global counter: nobody passes until the window ends. *)
Saturated(t) ==
    [i \in DOMAIN t |-> IF i \in Current(t, Global) THEN [t[i] EXCEPT !.count = GlobalLimit + 1] ELSE t[i]]

(* What became of counters: the window fails closed before state is lost.     *)
FailClosed(step) == IF step.lost \/ ~step.room THEN Saturated(step.table) ELSE step.table

(* record_service_token_failure                                              *)
Recorded(t, r) ==
    LET total == FailClosed(Increment(t, Global, Sources \cup Tokens))
        first == Increment(total, r.source, Tokens)
        source == IF first.room THEN FailClosed(first)
                  ELSE FailClosed(Increment(Saturated(total), r.source, Sources))
    IN  IF Count(source, Global) > GlobalLimit THEN source
        ELSE FailClosed(Increment(source, r.token, Tokens))

(* A token that passed the check is wrong.                                   *)
Fail(r) ==
    /\ r \in checked
    /\ table' = Recorded(table, r)
    /\ checked' = checked \ {r}
    /\ failed' = [k \in Dimensions |-> IF k \in {Global, r.source, r.token}
                                 THEN Least(failed[k] + 1, Limit(k)) ELSE failed[k]]
    /\ UNCHANGED window

(* It is right: nothing is counted.                                          *)
Succeed(r) ==
    /\ r \in checked
    /\ checked' = checked \ {r}
    /\ UNCHANGED <<table, window, failed>>

(* prune_service_token_failure_buckets: expired rows, at most a batch, then    *)
(* what is over the bound.                                                   *)
Pruned(t) ==
    LET kept == SubSeq(t, Least(PruneBatch, Cardinality(Expired(t))) + 1, Len(t))
        over == IF Len(kept) > MaxRows THEN Least(Len(kept) - MaxRows, PruneBatch) ELSE 0
    IN  SubSeq(kept, over + 1, Len(kept))

Prune ==
    /\ table' = Pruned(table)
    /\ table' # table
    /\ UNCHANGED <<window, checked, failed>>

(* The next window begins.                                                   *)
Tick ==
    /\ window < MaxWindow
    /\ window' = window + 1
    /\ failed' = [k \in Dimensions |-> 0]
    /\ UNCHANGED <<table, checked>>

Next ==
    \/ \E r \in Calls : Check(r) \/ Fail(r) \/ Succeed(r)
    \/ Prune
    \/ Tick

Spec == Init /\ [][Next]_vars

-----------------------------------------------------------------------------
(* Who has failed as often in this window as a limit allows, by source, by     *)
(* token or all together, passes the check no more, whatever was evicted or    *)
(* pruned: the window fails closed instead of losing a threshold.            *)
ThrottledAfterLimit ==
    \A r \in Calls :
        (\E k \in {Global, r.source, r.token} : failed[k] >= Limit(k)) => Denied(table, r)

(* Nobody is locked out for nothing: those are denied who reached a limit, or  *)
(* everybody, when the table is full of counters of the running window.       *)
DeniedForCause ==
    \A r \in Calls :
        Denied(table, r) =>
            \/ \E k \in {Global, r.source, r.token} : failed[k] >= Limit(k)
            \/ Len(table) = MaxRows /\ Expired(table) = {}
=============================================================================
