--------------------- MODULE LeasesAndAdministrationProofs ---------------------
(***************************************************************************)
(* Machine-checked facts about the components that MCLeasesAndAdministration   *)
(* puts side by side, for all values of their constants: any number of workers, *)
(* targets, instances, principals, commands, sources and tokens, any durations   *)
(* and limits.                                                              *)
(*                                                                         *)
(* MonitoringLeases: while monitoring cannot be disabled, two workers never    *)
(* probe at the same time; and whether it is disabled or not, a result is only   *)
(* stored for the target that is enabled when it is stored.  The first          *)
(* argument is the one the lease margin is there for.  A worker that renewed its  *)
(* claim age ticks ago holds a claim with at least Lease - age ticks to go; it  *)
(* probes for at most Deadline < Lease ticks; whoever takes or deletes the row   *)
(* finds it free first.  The second needs no lease: the store compares the        *)
(* catalog revision it validated at, and that revision still means the target it *)
(* was validated for.                                                       *)
(*                                                                         *)
(* ReleaseLeases: who claims a row keeps it until the lease has run out, unless  *)
(* reconciliation robs him, so that no answer is newer than that of a check whose  *)
(* lease still runs; the rest is what the last compare of a write sees.         *)
(*                                                                         *)
(* TokenFailureBuckets: the table is in the order of the windows with at most one *)
(* row per counter and window; either the window is closed, or every counter     *)
(* counts what it has seen; and a counter that counts more than that is the     *)
(* global one of a full table.                                               *)
(*                                                                         *)
(* PrincipalAdministration: the facts of PrincipalAdministrationProofs, at the   *)
(* variables of the module that is run.                                       *)
(***************************************************************************)
EXTENDS MCLeasesAndAdministration, Sequences, FiniteSetTheorems, SequenceTheorems,
        WellFoundedInduction, TLAPS

PP == INSTANCE PrincipalAdministrationProofs WITH row <- pRow, seen <- pSeen

-----------------------------------------------------------------------------
(* MonitoringLeases.                                                         *)

(* Monitoring stays enabled, in the catalog and in what a reconciliation     *)
(* has read of it.                                                          *)
StaysEnabled ==
    /\ config # Off
    /\ \A w \in Workers : at[w] \in {"read", "sync"} => wanted[w] # Off

(* A worker past the selection works on a target.                            *)
HasTarget ==
    \A w \in Workers :
        at[w] \in {"claim", "validate", "renew", "check", "answered", "store", "diagnose", "drop"}
            => target[w] # Off

(* How much of the lease is left while its owner probes.                     *)
Margin ==
    \A w \in Workers :
        at[w] = "check" => /\ Owned(w)
                           /\ row.expires >= Lease - age[w]
                           /\ age[w] <= Deadline

Inv == TypeOK /\ HasTarget /\ StaysEnabled /\ Margin

(* A result that waits to be stored was validated at a revision of the        *)
(* catalog, and as long as that is the current one the target stands.        *)
Validated ==
    \A w \in Workers :
        at[w] = "store" => read[w] <= edits /\ (read[w] = edits => MayRecord(w))

ResultInv == TypeOK /\ HasTarget /\ Validated

-----------------------------------------------------------------------------
(* Types.                                                                   *)

LEMMA Constants ==
    /\ Interval \in Nat /\ Jitter \in Nat /\ MaxAge \in Nat /\ MaxEdits \in Nat
    /\ MaxCrashes \in Nat /\ Lease \in Nat /\ Deadline \in Nat
    /\ Deadline < Lease /\ Deadline <= MaxAge /\ Jitter <= Interval
    /\ Earliest \in Int /\ Earliest = -MaxAge
  BY BoundsAssumption, LeaseAssumption DEF Earliest

(* A pass that ends leaves well-typed worker state behind.                   *)
LEMMA EndPassTypes ==
    ASSUME TypeOK, NEW w \in Workers, EndPass(w)
    PROVE  /\ at' \in [Workers -> Stages]
           /\ wanted' \in [Workers -> Targets \cup {Off}]
           /\ known' \in [Workers -> Rows \cup {NoRow}]
           /\ target' \in [Workers -> Targets \cup {Off}]
           /\ age' \in [Workers -> 0..MaxAge]
           /\ read' \in [Workers -> 0..MaxEdits]
  BY Constants DEF EndPass, Goto, TypeOK, Stages

LEMMA TickTypes == ASSUME TypeOK, Tick PROVE TypeOK'
  <1>1. \A t \in Earliest..Interval : Sooner(t) \in Earliest..Interval
    BY Constants DEF Sooner
  <1>2. \A t \in Earliest..Lease : Sooner(t) \in Earliest..Lease
    BY Constants DEF Sooner
  <1>3. \A r \in Rows : [r EXCEPT !.due = Sooner(@), !.expires = Sooner(@)] \in Rows
    BY <1>1, <1>2 DEF Rows
  <1>4. row' \in Rows \cup {NoRow}
    BY <1>3 DEF TypeOK, Tick
  <1>5. known' \in [Workers -> Rows \cup {NoRow}]
    BY <1>3 DEF TypeOK, Tick
  <1>6. seen' \in [target : Targets, due : Earliest..Interval] \cup {NoRow}
    BY <1>1 DEF TypeOK, Tick
  <1>7. age' \in [Workers -> 0..MaxAge]
    <2>1. \A w \in Workers : age[w] < MaxAge
      <3>1. SUFFICES ASSUME NEW w \in Workers PROVE age[w] < MaxAge
        OBVIOUS
      <3>2. age[w] \in 0..MaxAge
        BY DEF TypeOK
      <3>3. age[w] < (IF at[w] = "check" THEN Deadline ELSE MaxAge)
        BY DEF Tick
      <3>4. QED
        BY <3>2, <3>3, Constants
    <2>2. \A w \in Workers : (IF at[w] = "idle" THEN 0 ELSE age[w] + 1) \in 0..MaxAge
      <3>1. SUFFICES ASSUME NEW w \in Workers
                     PROVE  (IF at[w] = "idle" THEN 0 ELSE age[w] + 1) \in 0..MaxAge
        OBVIOUS
      <3>2. age[w] \in 0..MaxAge /\ age[w] < MaxAge
        BY <2>1 DEF TypeOK
      <3>3. QED
        BY <3>2, Constants
    <2>3. QED
      BY <2>2 DEF Tick
  <1>8. QED
    BY <1>4, <1>5, <1>6, <1>7 DEF TypeOK, Tick, shared

(* The rows that a step can leave behind.                                   *)
LEMMA ReleasedRowType ==
    ASSUME TypeOK, NEW w \in Workers, NEW due \in Earliest..Interval
    PROVE  ReleasedRow(w, due) \in Rows \cup {NoRow}
  <1>1. Earliest \in Earliest..Lease
    BY Constants
  <1>2. QED
    BY <1>1 DEF ReleasedRow, TypeOK, Owned, Rows

LEMMA ReconciledType ==
    ASSUME TypeOK, NEW w \in Workers, NEW r \in Reconciled(w)
    PROVE  Freed(r, w) \in Rows \cup {NoRow}
  <1>0. Earliest \in Earliest..Lease
    BY Constants
  <1>1. \A t \in Targets, d \in FirstDue(w) : Unclaimed(t, d) \in Rows
    BY <1>0 DEF Unclaimed, FirstDue, Rows
  <1>2. \A x \in Rows : Scheduled(x, w) \in Rows
    BY DEF Scheduled, TypeOK, Rows
  <1>3. wanted[w] # Off => wanted[w] \in Targets
    BY DEF TypeOK
  <1>4. Rebound(w) \subseteq Rows \cup {NoRow} \/ wanted[w] = Off
    BY <1>1, <1>2, <1>3 DEF Rebound, TypeOK
  <1>5. r \in Rows \cup {NoRow}
    BY <1>1, <1>2, <1>3, <1>4 DEF Reconciled, TypeOK
  <1>6. QED
    BY <1>0, <1>5 DEF Freed, Rows

LEMMA NextDueType ==
    ASSUME TypeOK, NEW w \in Workers
    PROVE  NextDue(w) \in Earliest..Interval
  BY Constants DEF NextDue, TypeOK

LEMMA ClaimTypes == ASSUME TypeOK, NEW w \in Workers, Claim(w) PROVE TypeOK'
  <1>1. CASE Claimable(row, w) /\ Goto(w, "validate") /\ UNCHANGED <<wanted, known, target, age, read>>
             /\ row' = [row EXCEPT !.owner = w, !.expires = Lease - age[w]]
    <2>1. Lease - age[w] \in Earliest..Lease
      BY Constants DEF TypeOK
    <2>2. row' \in Rows
      BY <1>1, <2>1 DEF Claimable, TypeOK, Rows
    <2>3. QED
      BY <1>1, <2>2 DEF Claim, Goto, TypeOK, Stages, shared
  <1>2. CASE EndPass(w) /\ UNCHANGED row
    BY <1>2, EndPassTypes DEF Claim, TypeOK, shared
  <1>3. QED
    BY <1>1, <1>2 DEF Claim

LEMMA RenewTypes == ASSUME TypeOK, NEW w \in Workers, Renew(w) PROVE TypeOK'
  <1>1. CASE Owned(w) /\ Goto(w, "check") /\ row' = [row EXCEPT !.expires = Lease]
             /\ age' = [age EXCEPT ![w] = 0] /\ UNCHANGED <<wanted, known, target, read>>
    <2>1. Lease \in Earliest..Lease /\ 0 \in 0..MaxAge
      BY Constants
    <2>2. row' \in Rows
      BY <1>1, <2>1 DEF Owned, TypeOK, Rows
    <2>3. QED
      BY <1>1, <2>1, <2>2 DEF Renew, Goto, TypeOK, Stages, shared
  <1>2. CASE EndPass(w) /\ UNCHANGED row
    BY <1>2, EndPassTypes DEF Renew, TypeOK, shared
  <1>3. QED
    BY <1>1, <1>2 DEF Renew

LEMMA ResultTypes ==
    ASSUME TypeOK, HasTarget, NEW w \in Workers,
           Store(w) \/ Diagnose(w) \/ Drop(w) \/ Postpone(w)
    PROVE  TypeOK'
  <1>1. ReleasedRow(w, NextDue(w)) \in Rows \cup {NoRow}
    BY NextDueType, ReleasedRowType
  <1>2. DroppedRow(w) \in Rows \cup {NoRow}
    BY DEF DroppedRow, TypeOK
  <1>3. row' \in Rows \cup {NoRow}
    <2>1. CASE Postpone(w)
      <3>1. seen.due \in Earliest..Interval
        BY <2>1 DEF Postpone, NotYetDue, TypeOK
      <3>2. QED
        BY <2>1, <3>1, ReleasedRowType DEF Postpone
    <2>2. QED
      BY <1>1, <1>2, <2>1 DEF Store, Diagnose, Drop, TypeOK
  <1>4. at[w] # "idle"
    BY DEF Store, Diagnose, Drop, Postpone
  <1>5. seen' \in [target : Targets, due : Earliest..Interval] \cup {NoRow}
    <2>1. at[w] \in {"store", "diagnose"} => target[w] \in Targets
      BY DEF HasTarget, TypeOK
    <2>2. QED
      BY <2>1, NextDueType DEF Store, Diagnose, Drop, Postpone, TypeOK
  <1>6. EndPass(w)
    BY DEF Store, Diagnose, Drop, Postpone
  <1>7. UNCHANGED shared
    BY DEF Store, Diagnose, Drop, Postpone
  <1>8. QED
    BY <1>3, <1>5, <1>6, <1>7, EndPassTypes DEF TypeOK, shared

(* The remaining steps of a pass leave the row and the observation alone.    *)
LEMMA TypeStep == ASSUME TypeOK, HasTarget, [Next]_vars PROVE TypeOK'
  <1>1. CASE Tick
    BY <1>1, TickTypes
  <1>2. ASSUME NEW c \in Configs, Edit(c) PROVE TypeOK'
    BY <1>2, ConfigsAssumption, Constants DEF Edit, TypeOK
  <1>3. ASSUME NEW w \in Workers, Crash(w) PROVE TypeOK'
    BY <1>3, EndPassTypes, Constants DEF Crash, TypeOK
  <1>4. ASSUME NEW w \in Workers, PassStep(w) PROVE TypeOK'
    <2>1. CASE BeginPass(w) \/ ReadLease(w)
      BY <2>1 DEF BeginPass, ReadLease, Goto, TypeOK, Stages, shared
    <2>2. CASE Synchronize(w)
      <3>1. row' \in Rows \cup {NoRow}
        BY <2>2, ReconciledType DEF Synchronize
      <3>2. QED
        BY <2>2, <3>1 DEF Synchronize, Goto, TypeOK, Stages, shared
    <2>3. CASE SelectDue(w)
      <3>1. CASE EndPass(w)
        BY <2>3, <3>1, EndPassTypes DEF SelectDue, TypeOK, shared
      <3>2. CASE ~EndPass(w)
        <4>1. row.target \in Targets
          BY <2>3, <3>2 DEF SelectDue, Claimable, TypeOK, Rows
        <4>2. QED
          BY <2>3, <3>2, <4>1 DEF SelectDue, Goto, TypeOK, Stages, shared
      <3>3. QED
        BY <3>1, <3>2
    <2>4. CASE Claim(w)
      BY <2>4, ClaimTypes
    <2>5. CASE Validate(w)
      BY <2>5 DEF Validate, Goto, TypeOK, Stages, shared
    <2>6. CASE Postpone(w) \/ Drop(w) \/ Diagnose(w) \/ Store(w)
      BY <2>6, ResultTypes
    <2>7. CASE Renew(w)
      BY <2>7, RenewTypes
    <2>8. CASE Answer(w) \/ Revalidate(w)
      BY <2>8, Constants DEF Answer, Revalidate, Goto, TypeOK, Stages, shared
    <2>9. QED
      BY <1>4, <2>1, <2>2, <2>3, <2>4, <2>5, <2>6, <2>7, <2>8 DEF PassStep
  <1>5. CASE UNCHANGED vars
    BY <1>5 DEF vars, TypeOK, Rows, Stages
  <1>6. QED
    BY <1>1, <1>2, <1>3, <1>4, <1>5 DEF Next

-----------------------------------------------------------------------------
(* The margin.                                                              *)

(* Who else may a probing worker meet?  Nobody finds its row free.           *)
LEMMA NotFree ==
    ASSUME TypeOK, Margin, NEW v \in Workers, NEW w \in Workers, at[v] = "check"
    PROVE  ~Free(row, w)
  <1>1. row.owner = v /\ row.expires >= Lease - age[v] /\ age[v] <= Deadline
    BY DEF Margin, Owned
  <1>2. row \in Rows /\ age[v] \in Nat /\ age[w] \in Nat
    BY Constants DEF Margin, Owned, TypeOK
  <1>3. row.expires \in Int
    BY <1>2, Constants DEF Rows
  <1>4. QED
    BY <1>1, <1>2, <1>3, Constants, NobodyAssumption DEF Free

(* A step of one worker keeps the row of another one that probes.            *)
LEMMA OthersKeepRow ==
    ASSUME Inv, NEW v \in Workers, NEW w \in Workers, v # w, at[v] = "check", PassStep(w)
    PROVE  row' # NoRow /\ row'.owner = row.owner /\ row'.expires = row.expires
  <1>0. row \in Rows /\ row # NoRow /\ row.owner = v
    BY DEF Inv, Margin, Owned, TypeOK
  <1>1. ~Free(row, w)
    BY NotFree DEF Inv
  <1>2. ~Owned(w)
    BY <1>0 DEF Owned
  <1>3. CASE Synchronize(w)
    <2>1. PICK r \in Reconciled(w) : row' = Freed(r, w)
      BY <1>3 DEF Synchronize
    <2>2. wanted[w] # Off
      BY <1>3 DEF Inv, StaysEnabled, Synchronize
    <2>3. r = row \/ r = Scheduled(row, w)
      BY <1>0, <1>1, <2>1, <2>2 DEF Reconciled, Rebound
    <2>4. r \in Rows /\ r.owner = row.owner /\ r.expires = row.expires
      <3>1. Scheduled(row, w) \in Rows
        BY <1>0 DEF Scheduled, Inv, TypeOK, Rows
      <3>2. Scheduled(row, w).owner = row.owner /\ Scheduled(row, w).expires = row.expires
        BY <1>0 DEF Scheduled, Rows
      <3>3. QED
        BY <1>0, <2>3, <3>1, <3>2
    <2>5. ~Free(r, w)
      BY <1>1, <2>4 DEF Free
    <2>6. QED
      BY <2>1, <2>4, <2>5, NoRowAssumption DEF Freed
  <1>4. CASE row' = row
    BY <1>0, <1>4
  <1>5. CASE Claim(w)
    BY <1>0, <1>1, <1>5 DEF Claim, Claimable
  <1>6. CASE Renew(w)
    BY <1>0, <1>2, <1>6 DEF Renew
  <1>7. CASE Postpone(w) \/ Drop(w) \/ Diagnose(w) \/ Store(w)
    BY <1>0, <1>2, <1>7 DEF Postpone, Drop, Diagnose, Store, ReleasedRow, DroppedRow
  <1>8. QED
    BY <1>3, <1>4, <1>5, <1>6, <1>7 DEF PassStep, BeginPass, ReadLease, SelectDue, Validate,
       Answer, Revalidate

LEMMA MarginTick == ASSUME Inv, Tick PROVE Margin'
  <1>1. SUFFICES ASSUME NEW w \in Workers, at[w] = "check"
                 PROVE  /\ Owned(w)'
                        /\ row'.expires >= Lease - age'[w]
                        /\ age'[w] <= Deadline
    BY DEF Margin, Tick
  <1>2. /\ row \in Rows /\ row # NoRow /\ row.owner = w
        /\ row.expires >= Lease - age[w] /\ age[w] < Deadline
        /\ age[w] \in Nat /\ row.expires \in Int
    <2>1. row \in Rows /\ row # NoRow /\ row.owner = w /\ row.expires >= Lease - age[w]
      BY <1>1 DEF Inv, Margin, Owned, TypeOK
    <2>2. age[w] < Deadline
      BY <1>1 DEF Tick
    <2>3. age[w] \in 0..MaxAge
      BY DEF Inv, TypeOK
    <2>4. row.expires \in Earliest..Lease
      BY <2>1 DEF Rows
    <2>5. QED
      BY <2>1, <2>2, <2>3, <2>4, Constants
  <1>3. age'[w] = age[w] + 1
    BY <1>1 DEF Tick
  <1>4. row' \in Rows /\ row'.owner = row.owner /\ row'.expires = Sooner(row.expires)
    <2>1. row' = [row EXCEPT !.due = Sooner(@), !.expires = Sooner(@)]
      BY <1>2 DEF Tick
    <2>2. row'.owner = row.owner /\ row'.expires = Sooner(row.expires)
      BY <1>2, <2>1 DEF Rows
    <2>3. \A t \in Earliest..Interval : Sooner(t) \in Earliest..Interval
      BY Constants DEF Sooner
    <2>4. \A t \in Earliest..Lease : Sooner(t) \in Earliest..Lease
      BY Constants DEF Sooner
    <2>5. QED
      BY <1>2, <2>1, <2>2, <2>3, <2>4 DEF Rows
  <1>5. row'.expires = row.expires - 1
    BY <1>2, <1>4, Constants DEF Sooner
  <1>6. QED
    BY <1>2, <1>3, <1>4, <1>5, NoRowAssumption, Constants DEF Owned

LEMMA MarginStep == ASSUME Inv, [Next]_vars PROVE Margin'
  <1>1. CASE Tick
    BY <1>1, MarginTick
  <1>2. ASSUME NEW c \in Configs, Edit(c) PROVE Margin'
    BY <1>2 DEF Inv, Margin, Edit, Owned
  <1>3. ASSUME NEW w \in Workers, Crash(w) PROVE Margin'
    BY <1>3 DEF Inv, Margin, Crash, EndPass, Goto, Owned, TypeOK
  <1>4. ASSUME NEW w \in Workers, PassStep(w), NEW v \in Workers, at'[v] = "check"
        PROVE  Owned(v)' /\ row'.expires >= Lease - age'[v] /\ age'[v] <= Deadline
    <2>1. CASE v = w
      <3>1. Renew(w)
        BY <1>4, <2>1 DEF PassStep, BeginPass, ReadLease, Synchronize, SelectDue, Claim, Validate,
           Postpone, Drop, Diagnose, Answer, Revalidate, Store, EndPass, Goto, Inv, TypeOK
      <3>2. Owned(w) /\ row' = [row EXCEPT !.expires = Lease] /\ age' = [age EXCEPT ![w] = 0]
        BY <1>4, <2>1, <3>1 DEF Renew, EndPass, Goto, Inv, TypeOK
      <3>3. row' \in Rows /\ row'.owner = w /\ row'.expires = Lease /\ age'[w] = 0
        <4>1. Lease \in Earliest..Lease
          BY Constants
        <4>2. QED
          BY <3>2, <4>1 DEF Owned, Inv, TypeOK, Rows
      <3>4. QED
        BY <2>1, <3>3, NoRowAssumption, Constants DEF Owned
    <2>2. CASE v # w
      <3>1. at[v] = "check" /\ age'[v] = age[v]
        BY <1>4, <2>2 DEF PassStep, BeginPass, ReadLease, Synchronize, SelectDue, Claim, Validate,
           Postpone, Drop, Diagnose, Renew, Answer, Revalidate, Store, EndPass, Goto, Inv, TypeOK
      <3>2. row' # NoRow /\ row'.owner = row.owner /\ row'.expires = row.expires
        BY <1>4, <2>2, <3>1, OthersKeepRow
      <3>3. QED
        BY <3>1, <3>2 DEF Inv, Margin, Owned
    <2>3. QED
      BY <2>1, <2>2
  <1>5. CASE UNCHANGED vars
    BY <1>5 DEF Inv, Margin, vars, Owned
  <1>6. QED
    BY <1>1, <1>2, <1>3, <1>4, <1>5 DEF Next, Margin

-----------------------------------------------------------------------------
(* However monitoring is edited, a worker past the selection has a target.   *)
LEMMA TargetStep == ASSUME TypeOK, HasTarget, [Next]_vars PROVE HasTarget'
  <1>1. CASE Tick \/ UNCHANGED vars
    BY <1>1 DEF HasTarget, Tick, vars
  <1>2. ASSUME NEW c \in Configs, Edit(c) PROVE HasTarget'
    BY <1>2 DEF HasTarget, Edit
  <1>3. ASSUME NEW w \in Workers, Crash(w) PROVE HasTarget'
    BY <1>3 DEF TypeOK, HasTarget, Crash, EndPass, Goto
  <1>4. ASSUME NEW w \in Workers, PassStep(w) PROVE HasTarget'
    <2>1. CASE BeginPass(w) \/ ReadLease(w) \/ Synchronize(w)
      BY <2>1 DEF TypeOK, HasTarget, BeginPass, ReadLease, Synchronize, Goto
    <2>2. CASE SelectDue(w)
      <3>1. Claimable(row, w) => row.target # Off
        BY ConfigsAssumption DEF Claimable, TypeOK, Rows
      <3>2. QED
        BY <2>2, <3>1 DEF TypeOK, HasTarget, SelectDue, EndPass, Goto
    <2>3. CASE Claim(w) \/ Validate(w) \/ Postpone(w) \/ Drop(w)
      BY <2>3 DEF TypeOK, HasTarget, Claim, Validate, Postpone, Drop, EndPass, Goto
    <2>4. CASE Diagnose(w) \/ Renew(w) \/ Answer(w) \/ Revalidate(w) \/ Store(w)
      BY <2>4 DEF TypeOK, HasTarget, Diagnose, Renew, Answer, Revalidate, Store, EndPass, Goto
    <2>5. QED
      BY <1>4, <2>1, <2>2, <2>3, <2>4 DEF PassStep
  <1>5. QED
    BY <1>1, <1>2, <1>3, <1>4 DEF Next

LEMMA EnabledStep ==
    ASSUME Off \notin Configs, TypeOK, StaysEnabled, [Next]_vars
    PROVE  StaysEnabled'
  <1>1. CASE Tick \/ UNCHANGED vars
    BY <1>1 DEF StaysEnabled, Tick, vars, shared
  <1>2. ASSUME NEW c \in Configs, Edit(c) PROVE StaysEnabled'
    BY <1>2 DEF StaysEnabled, Edit
  <1>3. ASSUME NEW w \in Workers, Crash(w) PROVE StaysEnabled'
    BY <1>3 DEF TypeOK, StaysEnabled, Crash, EndPass, Goto
  <1>4. ASSUME NEW w \in Workers, PassStep(w) PROVE StaysEnabled'
    <2>1. CASE BeginPass(w) \/ ReadLease(w) \/ Synchronize(w) \/ SelectDue(w)
      BY <2>1 DEF TypeOK, StaysEnabled, BeginPass, ReadLease, Synchronize, SelectDue, EndPass,
         Goto, shared
    <2>2. CASE Claim(w) \/ Validate(w) \/ Postpone(w) \/ Drop(w)
      BY <2>2 DEF TypeOK, StaysEnabled, Claim, Validate, Postpone, Drop, EndPass, Goto, shared
    <2>3. CASE Diagnose(w) \/ Renew(w) \/ Answer(w) \/ Revalidate(w) \/ Store(w)
      BY <2>3 DEF TypeOK, StaysEnabled, Diagnose, Renew, Answer, Revalidate, Store, EndPass,
         Goto, shared
    <2>4. QED
      BY <1>4, <2>1, <2>2, <2>3 DEF PassStep
  <1>5. QED
    BY <1>1, <1>2, <1>3, <1>4 DEF Next

LEMMA InitInv == ASSUME Off \notin Configs, Init PROVE Inv
  BY ConfigsAssumption, Constants DEF Init, Inv, TypeOK, HasTarget, StaysEnabled, Margin, Stages

(* The invariant, while monitoring stays enabled.                            *)
THEOREM Invariance == ASSUME Off \notin Configs PROVE Spec => []Inv
  <1>1. Init => Inv
    BY InitInv
  <1>2. Inv /\ [Next]_vars => Inv'
    BY TypeStep, MarginStep, TargetStep, EnabledStep DEF Inv
  <1>3. QED
    BY <1>1, <1>2, PTL DEF Spec

(* A worker that probes holds a live claim, with the whole margin that        *)
(* MonitoringSettings demands still to go.                                   *)
THEOREM ProbesUnderLease == ASSUME Off \notin Configs PROVE Spec => []ProbeUnderLease
  <1>1. Inv => ProbeUnderLease
    <2>1. SUFFICES ASSUME Inv, NEW w \in Workers, at[w] = "check"
                   PROVE  Owned(w) /\ row.expires > 0
      BY DEF ProbeUnderLease
    <2>2. row.expires >= Lease - age[w] /\ age[w] <= Deadline /\ Owned(w)
      BY <2>1 DEF Inv, Margin
    <2>3. row.expires \in Int /\ age[w] \in Nat
      BY <2>1, <2>2, Constants DEF Inv, TypeOK, Owned, Rows
    <2>4. QED
      BY <2>2, <2>3, Constants
  <1>2. QED
    BY <1>1, Invariance, PTL

(* Two workers never probe at the same time.                                 *)
THEOREM OneCheckAtATime == ASSUME Off \notin Configs PROVE Spec => []AtMostOneCheck
  <1>1. Inv => AtMostOneCheck
    BY DEF Inv, Margin, AtMostOneCheck, Owned
  <1>2. QED
    BY <1>1, Invariance, PTL

-----------------------------------------------------------------------------
(* Results.                                                                 *)

(* An edit moves the revision on, so what was validated before it is not      *)
(* stored any more.                                                         *)
LEMMA ValidatedStep == ASSUME ResultInv, [Next]_vars PROVE Validated'
  <1>1. CASE Tick \/ UNCHANGED vars
    BY <1>1 DEF ResultInv, Validated, MayRecord, Tick, vars, shared
  <1>2. ASSUME NEW c \in Configs, Edit(c) PROVE Validated'
    <2>1. SUFFICES ASSUME NEW w \in Workers, at[w] = "store"
                   PROVE  read[w] <= edits' /\ read[w] # edits'
      BY <1>2 DEF Validated, Edit
    <2>2. read[w] \in Nat /\ edits \in Nat /\ edits' = edits + 1 /\ read[w] <= edits
      BY <1>2, <2>1, Constants DEF ResultInv, Validated, TypeOK, Edit
    <2>3. QED
      BY <2>2
  <1>3. ASSUME NEW w \in Workers, Crash(w) PROVE Validated'
    BY <1>3 DEF ResultInv, TypeOK, Validated, MayRecord, Crash, EndPass, Goto
  <1>4. ASSUME NEW w \in Workers, PassStep(w) PROVE Validated'
    <2>1. CASE Revalidate(w)
      <3>1. /\ \/ at' = [at EXCEPT ![w] = "store"] /\ MayRecord(w)
               \/ at' = [at EXCEPT ![w] = "drop"]
            /\ read' = [read EXCEPT ![w] = edits]
            /\ config' = config /\ target' = target /\ edits' = edits
        BY <2>1 DEF MayRefuse, Revalidate, Goto, shared
      <3>2. edits \in Nat
        BY Constants DEF ResultInv, TypeOK
      <3>3. QED
        BY <3>1, <3>2 DEF ResultInv, TypeOK, Validated, MayRecord
    <2>2. CASE BeginPass(w) \/ ReadLease(w) \/ Synchronize(w) \/ SelectDue(w)
      BY <2>2 DEF ResultInv, TypeOK, Validated, MayRecord, BeginPass, ReadLease, Synchronize, SelectDue,
         EndPass, Goto, shared
    <2>3. CASE Claim(w) \/ Validate(w) \/ Postpone(w) \/ Drop(w)
      BY <2>3 DEF ResultInv, TypeOK, Validated, MayRecord, Claim, Validate, Postpone, Drop, EndPass, Goto, shared
    <2>4. CASE Diagnose(w) \/ Renew(w) \/ Answer(w) \/ Store(w)
      BY <2>4 DEF ResultInv, TypeOK, Validated, MayRecord, Diagnose, Renew, Answer, Store, EndPass, Goto, shared
    <2>5. QED
      BY <1>4, <2>1, <2>2, <2>3, <2>4 DEF PassStep
  <1>5. QED
    BY <1>1, <1>2, <1>3, <1>4 DEF Next

(* What an observation of another target than before has to do with the       *)
(* configuration: only the two writers of a result make one.                 *)
LEMMA StoredStep ==
    ASSUME ResultInv, [Next]_vars, seen' # NoRow, seen = NoRow \/ seen'.target # seen.target
    PROVE  config \in {seen'.target, Off}
  <1>1. CASE seen' = seen
    BY <1>1
  <1>2. CASE Tick
    <2>1. seen # NoRow => seen \in [target : Targets, due : Earliest..Interval]
      BY DEF ResultInv, TypeOK
    <2>2. seen # NoRow => seen'.target = seen.target
      BY <1>2, <2>1 DEF Tick
    <2>3. seen = NoRow => seen' = NoRow
      BY <1>2 DEF Tick
    <2>4. QED
      BY <2>2, <2>3
  <1>3. ASSUME NEW w \in Workers, Store(w) PROVE config \in {seen'.target, Off}
    BY <1>1, <1>3 DEF Store, ResultInv, Validated, MayRecord
  <1>4. ASSUME NEW w \in Workers, Diagnose(w) PROVE config \in {seen'.target, Off}
    BY <1>1, <1>4 DEF Diagnose, MayRecord
  <1>5. QED
    BY <1>1, <1>2, <1>3, <1>4 DEF Next, PassStep, vars, Edit, Crash, BeginPass, ReadLease,
       Synchronize, SelectDue, Claim, Validate, Postpone, Drop, Renew, Answer, Revalidate

LEMMA ResultInit == ASSUME Init PROVE ResultInv
  BY ConfigsAssumption, Constants DEF Init, ResultInv, TypeOK, HasTarget, Validated, Stages

(* A result that waits to be stored was validated at a revision of the catalog *)
(* that, as long as it is the current one, still means the same target.       *)
THEOREM ResultsValidated == Spec => []ResultInv
  <1>1. Init => ResultInv
    BY ResultInit
  <1>2. ResultInv /\ [Next]_vars => ResultInv'
    BY TypeStep, TargetStep, ValidatedStep DEF ResultInv
  <1>3. QED
    BY <1>1, <1>2, PTL DEF Spec

(* A late answer of an old target never replaces the evidence of a new one that is *)
(* enabled, whatever is edited or disabled meanwhile and whoever else probes.     *)
THEOREM StoredForCurrentTargetHolds == Spec => StoredForCurrentTarget
  <1>1. ResultInv /\ [Next]_vars =>
          [seen' # NoRow /\ (seen = NoRow \/ seen'.target # seen.target)
             => config \in {seen'.target, Off}]_vars
    BY StoredStep
  <1>2. QED
    BY <1>1, ResultsValidated, PTL DEF Spec, StoredForCurrentTarget

-----------------------------------------------------------------------------
(* ReleaseLeases: a worker on its way has a reading, and asks about a target.    *)
ReadingsDated ==
    \A w \in Workers :
        rAt[w] # "idle" =>
            /\ my[w] \in R!Readings /\ my[w].now <= clock /\ my[w].checked <= clock
            /\ R!Checking(w) => my[w].lease \in R!Leases
            /\ rAt[w] \notin {"sync", "pass"} => my[w].target \in ReleaseTargets

(* A check holds the row until its lease runs out, unless reconciliation took it.  *)
CheckHolds(w) ==
    LET row_ == leases[my[w].instance]
    IN  row_ # NoRow /\ row_.owner = w /\ row_.expires = my[w].lease.expires

ChecksHold ==
    \A w \in Workers :
        R!Checking(w) /\ my[w].instance \notin robbed /\ my[w].lease.expires > clock => CheckHolds(w)

(* What a user's check saw when it looked had cooled down.                      *)
CooledDown ==
    \A w \in Workers :
        rAt[w] \in {"claim", "validate", "ask"} /\ my[w].manual /\ R!Matches(my[w].seen, my[w].looked) =>
            my[w].seen.checked + Cooldown <= clock

(* A check has an answer, and its lease still keeps others away.                *)
Answered(w) == rAt[w] \in {"answered", "write"}
InTime(w) ==
    /\ Answered(w) /\ my[w].instance \notin robbed \cup late /\ my[w].lease.expires > clock

(* No answer is newer than that of a check in time, neither the one stored nor    *)
(* those on their way.                                                       *)
AnswersInOrder ==
    /\ \A i \in R!Instances : observed[i] # NoRow => observed[i].checked <= clock
    /\ \A w \in Workers :
        InTime(w) =>
            /\ observed[my[w].instance] # NoRow => observed[my[w].instance].checked <= my[w].checked
            /\ \A v \in Workers :
                   Answered(v) /\ my[v].instance = my[w].instance => my[v].checked <= my[w].checked

ReleaseInv == R!TypeOK /\ ReadingsDated /\ ChecksHold /\ CooledDown /\ AnswersInOrder

LEMMA ReleaseConstants ==
    /\ Nobody \notin Workers
    /\ NoRow \notin R!Leases /\ NoRow \notin R!Observations /\ NoRow \notin R!Readings
    /\ ReleaseLease \in Nat /\ ReleaseLease > 0 /\ MaxInstances \in Nat /\ 1 \in R!Instances
    /\ ReleaseInterval \in Nat /\ Backoff \in Nat /\ Cooldown \in Nat
    /\ MaxClock \in Nat /\ MaxChecks \in Nat /\ ReleaseInterval <= MaxClock
  BY ReleasesAssumption DEF R!ConstantsSound, R!Instances

LEMMA ClockIsTime ==
    ASSUME NEW n \in Nat, n <= MaxClock
    PROVE  /\ n \in R!Times /\ n + ReleaseLease \in R!Times
           /\ n + ReleaseInterval \in R!Times /\ n + Backoff \in R!Times
  BY ReleaseConstants DEF R!Times

LEMMA TimesAreNat == R!Times \subseteq Nat
  BY ReleaseConstants DEF R!Times

(* What a worker reads of the service.                                        *)
LEMMA ReadingTypes ==
    ASSUME R!TypeOK, NEW manual \in BOOLEAN
    PROVE  /\ R!Reading(manual) \in R!Readings
           /\ R!Reading(manual).now = clock /\ R!Reading(manual).checked = 0
  <1>1. clock \in R!Times /\ 0 \in R!Times
    BY ClockIsTime, ReleaseConstants DEF R!TypeOK
  <1>2. QED
    BY <1>1 DEF R!Reading, R!TypeOK, R!Readings

LEMMA FoundTypes ==
    ASSUME R!TypeOK, NEW w \in Workers, my[w] \in R!Readings
    PROVE  R!Found(w) \in R!Observations \cup {NoRow}
  BY DEF R!Found, R!TypeOK, R!Readings

(* The rows that a step may leave behind.                                      *)
LEMMA ReconciledTypes ==
    ASSUME ReleaseInv, NEW w \in Workers, rAt[w] # "idle", NEW r, r = R!Reconciled(my[w]), r # NoRow
    PROVE  /\ r \in R!Leases
           /\ r.owner = Nobody <=> r.expires = 0
           /\ leases[my[w].instance] # NoRow =>
                 r.owner = leases[my[w].instance].owner /\ r.expires = leases[my[w].instance].expires
           /\ leases[my[w].instance] = NoRow => r.owner = Nobody
  <1>1. /\ my[w] \in R!Readings /\ my[w].instance \in R!Instances
        /\ my[w].seen # NoRow => my[w].seen \in R!Observations
        /\ my[w].lease # NoRow => my[w].lease \in R!Leases
        /\ leases[my[w].instance] # NoRow => leases[my[w].instance] \in R!Leases
    BY DEF ReleaseInv, ReadingsDated, R!Readings, R!TypeOK
  <1>2. R!WantedDue(my[w]) \in R!Times
    BY <1>1 DEF R!WantedDue, R!Matches, R!Readings, R!Observations, R!Leases
  <1>3. DEFINE i == my[w].instance
  <1>4. rows + 1 \in Nat /\ 0 \in R!Times
    BY ReleaseConstants, ClockIsTime DEF ReleaseInv, R!TypeOK
  <1>5. CASE r = [id |-> rows + 1, owner |-> Nobody, expires |-> 0, due |-> R!WantedDue(my[w])]
             /\ leases[i] = NoRow
    BY <1>2, <1>4, <1>5 DEF R!Leases
  <1>6. CASE r = leases[i]
    BY <1>1, <1>6 DEF ReleaseInv, R!TypeOK
  <1>7. CASE r = [leases[i] EXCEPT !.due = R!WantedDue(my[w])] /\ leases[i] # NoRow
    <2>1. leases[i] \in R!Leases /\ (leases[i].owner = Nobody <=> leases[i].expires = 0)
      BY <1>1, <1>7 DEF ReleaseInv, R!TypeOK
    <2>2. QED
      BY <1>2, <1>7, <2>1 DEF R!Leases
  <1>8. QED
    BY <1>5, <1>6, <1>7 DEF R!Reconciled, R!SameRow

LEMMA ReleasedTypes ==
    ASSUME NEW r \in R!Leases \cup {NoRow}, r # NoRow => (r.owner = Nobody <=> r.expires = 0), NEW n
    PROVE  LET s == R!Released(r, n)
           IN  /\ s \in R!Leases \cup {NoRow}
               /\ s # NoRow => (s.owner = Nobody <=> s.expires = 0)
  <1>1. 0 \in R!Times
    BY ClockIsTime, ReleaseConstants
  <1>2. CASE R!Released(r, n) = r
    BY <1>2
  <1>3. CASE R!Released(r, n) = [r EXCEPT !.owner = Nobody, !.expires = 0] /\ r # NoRow
    <2>1. r \in R!Leases
      BY <1>3
    <2>2. /\ R!Released(r, n) \in R!Leases
          /\ R!Released(r, n).owner = Nobody /\ R!Released(r, n).expires = 0
      BY <1>1, <1>3, <2>1 DEF R!Leases
    <2>3. QED
      BY <2>2
  <1>4. QED
    BY <1>2, <1>3 DEF R!Released, R!Unowned

(* Every step of a release check keeps the types.                               *)
LEMMA StopTypes ==
    ASSUME R!TypeOK, NEW w \in Workers, R!Stop(w)
    PROVE  /\ rAt' \in [Workers -> R!Stages] /\ my' \in [Workers -> R!Readings \cup {NoRow}]
           /\ rAt'[w] = "idle"
           /\ \A v \in Workers \ {w} : rAt'[v] = rAt[v] /\ my'[v] = my[v]
  BY DEF R!TypeOK, R!Stop, R!Stages

(* The step of a worker is its own.                                            *)
LEMMA OnlyReleaseWorker ==
    ASSUME R!TypeOK, NEW w \in Workers, R!Step(w), NEW v \in Workers \ {w}
    PROVE  rAt'[v] = rAt[v] /\ my'[v] = my[v]
  BY DEF R!TypeOK, R!Step, R!SyncRead, R!SyncWrite, R!Select, R!Manual, R!Claim, R!Validate, R!GiveUp, R!Ask,
     R!Store, R!Write, R!Crash, R!Stop, R!Goto

LEMMA SyncWriteTypes ==
    ASSUME ReleaseInv, NEW w \in Workers, R!SyncWrite(w)
    PROVE  R!TypeOK'
  <1>0. DEFINE m == my[w]
               synced == R!Pruned([leases EXCEPT ![m.instance] = R!Reconciled(m)])
  <1>1. m \in R!Readings /\ m.instance \in R!Instances
    BY DEF ReleaseInv, ReadingsDated, R!SyncWrite, R!Readings
  <1>2. \A i \in R!Instances :
          /\ synced[i] \in R!Leases \cup {NoRow}
          /\ synced[i] # NoRow => (synced[i].owner = Nobody <=> synced[i].expires = 0)
    <2>1. ASSUME NEW i \in R!Instances
          PROVE  synced[i] \in {NoRow, leases[i]} \/ (i = m.instance /\ synced[i] = R!Reconciled(m))
      <3>1. leases \in [R!Instances -> R!Leases \cup {NoRow}]
        BY DEF ReleaseInv, R!TypeOK
      <3>2. synced[i] = IF i = service.instance
                        THEN [leases EXCEPT ![m.instance] = R!Reconciled(m)][i] ELSE NoRow
        BY DEF R!Pruned
      <3>3. QED
        BY <1>1, <3>1, <3>2
    <2>2. QED
      BY <1>1, <2>1, ReconciledTypes DEF ReleaseInv, R!TypeOK, R!SyncWrite
  <1>3. \A i \in R!Instances :
          /\ leases'[i] \in R!Leases \cup {NoRow}
          /\ leases'[i] # NoRow => (leases'[i].owner = Nobody <=> leases'[i].expires = 0)
    <2>1. ASSUME NEW i \in R!Instances PROVE leases'[i] = R!Released(synced[i], m.now)
      BY DEF R!SyncWrite
    <2>2. SUFFICES ASSUME NEW i \in R!Instances
                   PROVE  /\ leases'[i] \in R!Leases \cup {NoRow}
                          /\ leases'[i] # NoRow => (leases'[i].owner = Nobody <=> leases'[i].expires = 0)
      OBVIOUS
    <2>3. HIDE DEF synced
    <2>4. QED
      BY <1>2, <2>1, ReleasedTypes
  <1>4. leases' \in [R!Instances -> R!Leases \cup {NoRow}]
    BY <1>3 DEF R!SyncWrite
  <1>5. observed' \in [R!Instances -> R!Observations \cup {NoRow}]
    BY DEF R!SyncWrite, R!Pruned, ReleaseInv, R!TypeOK
  <1>6. rows' \in Nat
    BY DEF R!SyncWrite, R!NewRows, ReleaseInv, R!TypeOK
  <1>7. QED
    BY <1>3, <1>4, <1>5, <1>6 DEF R!SyncWrite, R!Goto, R!Stages, ReleaseInv, R!TypeOK

(* What a claim does: the row is the worker's until the lease ends.              *)
LEMMA ClaimFrame ==
    ASSUME ReleaseInv, NEW w \in Workers, R!Claim(w)
    PROVE  /\ R!TypeOK'
           /\ rAt'[w] = "validate" =>
                 LET i == my[w].instance
                 IN  /\ my'[w] \in R!Readings /\ my'[w].lease \in R!Leases
                     /\ leases' = [leases EXCEPT ![i] = my'[w].lease] /\ i \in R!Instances
                     /\ my'[w].lease.owner = w
                     /\ leases[i] # NoRow => leases[i].expires <= my[w].now
                     /\ \A f \in {"manual", "instance", "target", "looked", "now", "seen", "checked"} :
                           my'[w][f] = my[w][f]
           /\ rAt'[w] # "validate" =>
                 \A i \in R!Instances : leases[i] # NoRow => leases'[i] = leases[i]
  <1>0. DEFINE m == my[w]
               fresh == [id |-> rows + 1, owner |-> Nobody, expires |-> 0, due |-> m.now]
               r == IF leases[m.instance] # NoRow THEN leases[m.instance] ELSE fresh
               claimed == [r EXCEPT !.owner = w, !.expires = m.now + ReleaseLease]
  <1>1. m \in R!Readings /\ m.instance \in R!Instances /\ m.now \in Nat /\ m.now <= clock
        /\ clock \in Nat /\ clock <= MaxClock /\ rows \in Nat
    BY TimesAreNat, ReleaseConstants DEF ReleaseInv, ReadingsDated, R!Claim, R!Readings, R!TypeOK
  <1>2. m.now \in R!Times /\ 0 \in R!Times /\ m.now + ReleaseLease \in R!Times /\ m.now + ReleaseLease # 0
    BY <1>1, ClockIsTime, ReleaseConstants
  <1>3. r \in R!Leases /\ (r.owner = Nobody <=> r.expires = 0)
    <2>1. CASE leases[m.instance] # NoRow
      BY <1>1, <2>1 DEF ReleaseInv, R!TypeOK
    <2>2. fresh \in R!Leases /\ fresh.owner = Nobody /\ fresh.expires = 0
      BY <1>1, <1>2 DEF R!Leases
    <2>3. QED
      BY <2>1, <2>2
  <1>4. claimed \in R!Leases /\ claimed.owner # Nobody /\ claimed.expires # 0
    BY <1>2, <1>3, ReleaseConstants DEF R!Leases
  <1>5. rows' \in Nat
    BY <1>1 DEF R!Claim, R!NewRows
  <1>6. CASE /\ leases' = [leases EXCEPT ![m.instance] = claimed]
             /\ my' = [my EXCEPT ![w].lease = claimed]
             /\ R!Goto(w, "validate") /\ R!Claimable(r, m)
    <2>1. /\ [m EXCEPT !.lease = claimed] \in R!Readings
          /\ \A f \in {"manual", "instance", "target", "looked", "now", "seen", "checked"} :
                [m EXCEPT !.lease = claimed][f] = m[f]
          /\ [m EXCEPT !.lease = claimed].lease = claimed
      BY <1>1, <1>4 DEF R!Readings
    <2>2. my' \in [Workers -> R!Readings \cup {NoRow}] /\ my'[w] = [m EXCEPT !.lease = claimed]
      BY <1>6, <2>1 DEF ReleaseInv, R!TypeOK
    <2>3. R!TypeOK'
      BY <1>1, <1>4, <1>5, <1>6, <2>2 DEF R!Claim, R!Goto, R!Stages, ReleaseInv, R!TypeOK
    <2>4. claimed.owner = w
      BY <1>3 DEF R!Leases
    <2>5. leases[m.instance] # NoRow => leases[m.instance].expires <= m.now
      BY <1>6 DEF R!Claimable
    <2>6. rAt'[w] = "validate"
      BY <1>6 DEF R!Goto, ReleaseInv, R!TypeOK
    <2>7. HIDE DEF claimed
    <2>8. QED
      BY <1>1, <1>4, <1>6, <2>1, <2>2, <2>3, <2>4, <2>5, <2>6
  <1>7. CASE leases' = [leases EXCEPT ![m.instance] = r] /\ R!Stop(w)
    <2>1. R!TypeOK'
      BY <1>1, <1>3, <1>5, <1>7, StopTypes DEF R!Claim, ReleaseInv, R!TypeOK
    <2>2. rAt'[w] = "idle"
      BY <1>7, StopTypes DEF ReleaseInv
    <2>3. \A i \in R!Instances : leases[i] # NoRow => leases'[i] = leases[i]
      BY <1>1, <1>7 DEF ReleaseInv, R!TypeOK
    <2>4. QED
      BY <2>1, <2>2, <2>3
  <1>8. QED
    BY <1>6, <1>7 DEF R!Claim

(* The observation that a write leaves has its columns from the answer or from    *)
(* what is stored.                                                           *)
LEMMA FlushedRow ==
    ASSUME ReleaseInv, NEW w \in Workers, R!Write(w), observed' # observed
    PROVE  LET m == my[w]
           IN  /\ observed' = [observed EXCEPT ![m.instance] = R!Flushed(m)]
               /\ R!Flushed(m) \in R!Observations
               /\ \/ R!Flushed(m).checked = m.checked
                  \/ /\ observed[m.instance] # NoRow
                     /\ R!Flushed(m).checked = observed[m.instance].checked
               /\ ~R!Newer(m) /\ ((m.seen = NoRow) <=> (observed[m.instance] = NoRow))
  <1>0. DEFINE m == my[w]
  <1>1. m \in R!Readings /\ m.instance \in R!Instances /\ m.checked \in Nat /\ m.checked <= clock
        /\ clock \in Nat /\ clock <= MaxClock /\ m.target \in ReleaseTargets
    BY TimesAreNat, ReleaseConstants DEF ReleaseInv, ReadingsDated, R!Write, R!Readings, R!TypeOK
  <1>2. m.checked \in R!Times /\ R!Due(m) \in R!Times
    BY <1>1, ClockIsTime, ReleaseConstants DEF R!Due
  <1>3. /\ observed' = [observed EXCEPT ![m.instance] = R!Flushed(m)]
        /\ ~R!Newer(m) /\ ((m.seen = NoRow) <=> (observed[m.instance] = NoRow))
    BY DEF R!Write
  <1>4. R!Answer(m) \in R!Observations /\ R!Answer(m).checked = m.checked
    BY <1>1, <1>2 DEF R!Answer, R!Observations
  <1>5. m.seen # NoRow => observed[m.instance] \in R!Observations
    BY <1>1, <1>3 DEF ReleaseInv, R!TypeOK
  <1>6. DEFINE Column(c) == IF m.seen # NoRow /\ R!Answer(m)[c] = m.seen[c]
                            THEN observed[m.instance][c] ELSE R!Answer(m)[c]
  <1>7. R!Flushed(m) = [target |-> Column("target"), checked |-> Column("checked"), due |-> Column("due")]
    BY DEF R!Flushed
  <1>8. Column("target") \in ReleaseTargets /\ Column("checked") \in R!Times /\ Column("due") \in R!Times
    BY <1>4, <1>5 DEF R!Observations
  <1>9. \/ Column("checked") = m.checked
        \/ m.seen # NoRow /\ Column("checked") = observed[m.instance].checked
    BY <1>4
  <1>10. R!Flushed(m) \in R!Observations /\ R!Flushed(m).checked = Column("checked")
    <2>1. HIDE DEF Column
    <2>2. QED
      BY <1>7, <1>8 DEF R!Observations
  <1>11. QED
    BY <1>3, <1>9, <1>10

LEMMA WriteTypes ==
    ASSUME ReleaseInv, NEW w \in Workers, R!Write(w)
    PROVE  R!TypeOK'
  <1>0. DEFINE m == my[w]
               kept == IF R!Newer(m) THEN m.seen ELSE R!Answer(m)
  <1>1. m \in R!Readings /\ m.instance \in R!Instances /\ m.checked \in Nat /\ m.checked <= clock
        /\ clock \in Nat /\ clock <= MaxClock /\ m.target \in ReleaseTargets
    BY TimesAreNat, ReleaseConstants DEF ReleaseInv, ReadingsDated, R!Write, R!Readings, R!TypeOK
  <1>2. m.checked \in R!Times /\ 0 \in R!Times /\ R!Due(m) \in R!Times
    BY <1>1, ClockIsTime, ReleaseConstants DEF R!Due
  <1>3. kept \in R!Observations
    <2>1. R!Newer(m) => m.seen \in R!Observations
      BY <1>1 DEF R!Newer, R!Matches, R!Readings
    <2>2. R!Answer(m) \in R!Observations
      BY <1>1, <1>2 DEF R!Answer, R!Observations
    <2>3. QED
      BY <2>1, <2>2
  <1>4. observed' \in [R!Instances -> R!Observations \cup {NoRow}]
    <2>1. CASE observed' = observed
      BY <2>1 DEF ReleaseInv, R!TypeOK
    <2>2. CASE observed' # observed
      <3>1. observed' = [observed EXCEPT ![m.instance] = R!Flushed(m)] /\ R!Flushed(m) \in R!Observations
        BY <2>2, FlushedRow
      <3>2. QED
        BY <1>1, <3>1 DEF ReleaseInv, R!TypeOK
    <2>3. QED
      BY <2>1, <2>2
  <1>5. /\ leases' \in [R!Instances -> R!Leases \cup {NoRow}]
        /\ \A i \in R!Instances : leases'[i] # NoRow => (leases'[i].owner = Nobody <=> leases'[i].expires = 0)
    <2>1. CASE leases' = leases
      BY <2>1 DEF ReleaseInv, R!TypeOK
    <2>2. CASE leases' # leases
      <3>1. /\ leases' = [leases EXCEPT ![m.instance] = [R!Unowned(@) EXCEPT !.due = kept.due]]
            /\ leases[m.instance] # NoRow
        BY <2>2 DEF R!Write, R!Mine, R!SameRow
      <3>2. leases[m.instance] \in R!Leases /\ kept.due \in R!Times
        BY <1>1, <1>3, <3>1 DEF ReleaseInv, R!TypeOK, R!Observations
      <3>3. DEFINE s == [R!Unowned(leases[m.instance]) EXCEPT !.due = kept.due]
      <3>4. s \in R!Leases /\ s.owner = Nobody /\ s.expires = 0
        BY <1>2, <3>2 DEF R!Unowned, R!Leases
      <3>5. leases' = [leases EXCEPT ![m.instance] = s]
        BY <3>1
      <3>6. QED
        BY <1>1, <3>4, <3>5 DEF ReleaseInv, R!TypeOK
    <2>3. QED
      BY <2>1, <2>2
  <1>6. QED
    BY <1>4, <1>5, StopTypes DEF R!Write, ReleaseInv, R!TypeOK

LEMMA GiveUpTypes ==
    ASSUME ReleaseInv, NEW w \in Workers, my[w] \in R!Readings, R!GiveUp(w)
    PROVE  R!TypeOK'
  <1>1. my[w].instance \in R!Instances
    BY DEF R!Readings
  <1>2. QED
    BY <1>1, StopTypes DEF R!GiveUp, ReleaseInv, R!TypeOK

LEMMA ReleaseTypeStep ==
    ASSUME ReleaseInv, [R!Next]_releaseVars
    PROVE  R!TypeOK'
  <1>1. ASSUME NEW w \in Workers, R!SyncRead(w) \/ R!Manual(w) PROVE R!TypeOK'
    <2>1. my' \in [Workers -> R!Readings \cup {NoRow}]
      BY <1>1, ReadingTypes DEF R!SyncRead, R!Manual, ReleaseInv, R!TypeOK
    <2>2. checks' \in 0..MaxChecks
      <3>1. checks' = checks + 1 /\ checks < MaxChecks
        BY <1>1 DEF R!SyncRead, R!Manual
      <3>2. QED
        BY <3>1, ReleaseConstants DEF ReleaseInv, R!TypeOK
    <2>3. rAt' \in [Workers -> R!Stages]
      BY <1>1 DEF R!SyncRead, R!Manual, R!Goto, R!Stages, ReleaseInv, R!TypeOK
    <2>4. QED
      BY <1>1, <2>1, <2>2, <2>3 DEF R!SyncRead, R!Manual, ReleaseInv, R!TypeOK
  <1>2. ASSUME NEW w \in Workers, R!Select(w) PROVE R!TypeOK'
    <2>1. CASE R!Stop(w)
      BY <1>2, <2>1, StopTypes DEF R!Select, ReleaseInv, R!TypeOK
    <2>2. CASE my' = [my EXCEPT ![w] = R!Reading(FALSE)] /\ R!Goto(w, "claim")
      BY <1>2, <2>2, ReadingTypes DEF R!Select, R!Goto, R!Stages, ReleaseInv, R!TypeOK
    <2>3. QED
      BY <1>2, <2>1, <2>2 DEF R!Select
  <1>3. ASSUME NEW w \in Workers, R!Validate(w) PROVE R!TypeOK'
    <2>1. my[w] \in R!Readings
      BY <1>3 DEF R!Validate, ReleaseInv, ReadingsDated
    <2>2. CASE R!GiveUp(w)
      BY <2>1, <2>2, GiveUpTypes
    <2>3. CASE /\ my' = IF my[w].manual
                        THEN [my EXCEPT ![w].target = service.target, ![w].revision = service.revision]
                        ELSE [my EXCEPT ![w].seen = R!Found(w)]
               /\ R!Goto(w, "ask")
               /\ UNCHANGED <<clock, service, leases, observed, rows, checks, robbed, late>>
      <3>1. [[my[w] EXCEPT !.target = service.target] EXCEPT !.revision = service.revision] \in R!Readings
        BY <2>1 DEF R!Readings, ReleaseInv, R!TypeOK
      <3>2. [my[w] EXCEPT !.seen = R!Found(w)] \in R!Readings
        BY <2>1, FoundTypes DEF R!Readings, ReleaseInv
      <3>3. my' \in [Workers -> R!Readings \cup {NoRow}]
        BY <2>1, <2>3, <3>1, <3>2 DEF ReleaseInv, R!TypeOK
      <3>4. QED
        BY <2>3, <3>3 DEF R!Goto, R!Stages, ReleaseInv, R!TypeOK
    <2>4. QED
      BY <1>3, <2>2, <2>3 DEF R!Validate
  <1>4. ASSUME NEW w \in Workers, NEW f \in BOOLEAN, R!Ask(w, f) PROVE R!TypeOK'
    <2>1. my[w] \in R!Readings /\ clock \in R!Times
      BY <1>4, ClockIsTime, ReleaseConstants DEF R!Ask, ReleaseInv, ReadingsDated, R!TypeOK
    <2>2. [[my[w] EXCEPT !.checked = clock] EXCEPT !.failed = f] \in R!Readings
      BY <2>1 DEF R!Readings
    <2>3. late' \subseteq R!Instances
      <3>1. my[w].instance \in R!Instances /\ late \subseteq R!Instances
        BY <2>1 DEF R!Readings, ReleaseInv, R!TypeOK
      <3>2. late' = late \/ late' = late \cup {my[w].instance}
        BY <1>4 DEF R!Ask
      <3>3. QED
        BY <3>1, <3>2
    <2>4. /\ my' = [my EXCEPT ![w].checked = clock, ![w].failed = f]
          /\ UNCHANGED <<clock, service, leases, observed, rows, checks, robbed>>
      BY <1>4 DEF R!Ask
    <2>5. my' \in [Workers -> R!Readings \cup {NoRow}] /\ rAt' \in [Workers -> R!Stages]
      BY <1>4, <2>2, <2>4 DEF R!Ask, R!Goto, R!Stages, ReleaseInv, R!TypeOK
    <2>6. QED
      BY <2>3, <2>4, <2>5 DEF ReleaseInv, R!TypeOK
  <1>5. ASSUME NEW w \in Workers, R!Store(w) PROVE R!TypeOK'
    <2>1. my[w] \in R!Readings
      BY <1>5 DEF R!Store, ReleaseInv, ReadingsDated
    <2>2. CASE R!GiveUp(w)
      BY <2>1, <2>2, GiveUpTypes
    <2>3. CASE /\ my' = [my EXCEPT ![w].seen = R!Found(w)]
               /\ R!Goto(w, "write")
               /\ UNCHANGED <<clock, service, leases, observed, rows, checks, robbed, late>>
      <3>1. [my[w] EXCEPT !.seen = R!Found(w)] \in R!Readings
        BY <2>1, FoundTypes DEF R!Readings, ReleaseInv
      <3>2. QED
        BY <2>3, <3>1 DEF R!Goto, R!Stages, ReleaseInv, R!TypeOK
    <2>4. QED
      BY <1>5, <2>2, <2>3 DEF R!Store
  <1>6. ASSUME NEW w \in Workers, R!Crash(w) PROVE R!TypeOK'
    BY <1>6, StopTypes DEF R!Crash, ReleaseInv, R!TypeOK
  <1>7. ASSUME NEW t \in ReleaseTargets \cup {Off}, R!Edit(t) \/ R!Recreate(t) PROVE R!TypeOK'
    <2>1. service \in [instance: R!Instances, target: ReleaseTargets \cup {Off}, revision: Nat]
      BY DEF ReleaseInv, R!TypeOK
    <2>2. CASE R!Edit(t)
      <3>1. service' = [instance |-> service.instance, target |-> t, revision |-> service.revision + 1]
        BY <2>1, <2>2 DEF R!Edit
      <3>2. service' \in [instance: R!Instances, target: ReleaseTargets \cup {Off}, revision: Nat]
        BY <2>1, <3>1
      <3>3. QED
        BY <2>2, <3>2 DEF R!Edit, ReleaseInv, R!TypeOK
    <2>3. CASE R!Recreate(t)
      <3>1. service.instance + 1 \in R!Instances
        BY <2>1, <2>3, ReleaseConstants DEF R!Recreate, R!Instances
      <3>2. QED
        BY <2>3, <3>1 DEF R!Recreate, ReleaseInv, R!TypeOK
    <2>4. QED
      BY <1>7, <2>2, <2>3
  <1>8. CASE R!Tick
    BY <1>8, ReleaseConstants DEF R!Tick, ReleaseInv, R!TypeOK
  <1>9. CASE UNCHANGED releaseVars
    BY <1>9 DEF releaseVars, ReleaseInv, R!TypeOK
  <1>10. QED
    BY <1>1, <1>2, <1>3, <1>4, <1>5, <1>6, <1>7, <1>8, <1>9, SyncWriteTypes, ClaimFrame, WriteTypes
       DEF R!Next, R!Step

-----------------------------------------------------------------------------
LEMMA DatedStep ==
    ASSUME ReleaseInv, [R!Next]_releaseVars
    PROVE  ReadingsDated'
  <1>1. clock \in Nat /\ clock' \in Nat /\ clock <= clock'
    <2>1. clock' = clock \/ clock' = clock + 1
      BY DEF R!Next, R!Tick, R!Step, R!Edit, R!Recreate, R!SyncRead, R!SyncWrite, R!Select, R!Manual, R!Claim,
         R!Validate, R!GiveUp, R!Ask, R!Store, R!Write, R!Crash, releaseVars
    <2>2. QED
      BY <2>1, ReleaseConstants DEF ReleaseInv, R!TypeOK
  <1>2. ASSUME NEW v \in Workers, rAt'[v] = rAt[v], my'[v] = my[v], rAt[v] # "idle"
        PROVE  /\ my'[v] \in R!Readings /\ my'[v].now <= clock' /\ my'[v].checked <= clock'
               /\ R!Checking(v)' => my'[v].lease \in R!Leases
               /\ rAt'[v] \notin {"sync", "pass"} => my'[v].target \in ReleaseTargets
    <2>1. /\ my[v] \in R!Readings /\ my[v].now <= clock /\ my[v].checked <= clock
          /\ R!Checking(v) => my[v].lease \in R!Leases
          /\ rAt[v] \notin {"sync", "pass"} => my[v].target \in ReleaseTargets
      BY <1>2 DEF ReleaseInv, ReadingsDated
    <2>2. my[v].now \in Nat /\ my[v].checked \in Nat
      BY <2>1, TimesAreNat DEF R!Readings
    <2>3. QED
      BY <1>1, <1>2, <2>1, <2>2 DEF R!Checking
  <1>3. CASE UNCHANGED <<rAt, my>>
    BY <1>2, <1>3 DEF ReadingsDated
  <1>4. ASSUME NEW w \in Workers, R!Step(w), rAt'[w] # "idle"
        PROVE  /\ my'[w] \in R!Readings /\ my'[w].now <= clock' /\ my'[w].checked <= clock'
               /\ R!Checking(w)' => my'[w].lease \in R!Leases
               /\ rAt'[w] \notin {"sync", "pass"} => my'[w].target \in ReleaseTargets
    <2>0. rAt \in [Workers -> R!Stages] /\ my \in [Workers -> R!Readings \cup {NoRow}]
      BY DEF ReleaseInv, R!TypeOK
    <2>1. rAt[w] # "idle" => /\ my[w] \in R!Readings /\ my[w].now <= clock /\ my[w].checked <= clock
                             /\ R!Checking(w) => my[w].lease \in R!Leases
                             /\ rAt[w] \notin {"sync", "pass"} => my[w].target \in ReleaseTargets
      BY DEF ReleaseInv, ReadingsDated
    <2>2. ASSUME NEW manual \in BOOLEAN, my'[w] = R!Reading(manual), clock' = clock,
                 rAt'[w] = "sync" \/ (rAt'[w] = "claim" /\ service.target # Off)
          PROVE  /\ my'[w] \in R!Readings /\ my'[w].now <= clock' /\ my'[w].checked <= clock'
                 /\ R!Checking(w)' => my'[w].lease \in R!Leases
                 /\ rAt'[w] \notin {"sync", "pass"} => my'[w].target \in ReleaseTargets
      <3>1. my'[w].target = service.target /\ (service.target # Off => service.target \in ReleaseTargets)
        BY <2>2 DEF R!Reading, ReleaseInv, R!TypeOK
      <3>2. QED
        BY <1>1, <2>2, <3>1, ReadingTypes DEF R!Checking, ReleaseInv
    <2>3. CASE R!SyncRead(w) \/ R!Manual(w) \/ R!Select(w)
      <3>1. CASE R!SyncRead(w)
        <4>1. my'[w] = R!Reading(FALSE) /\ clock' = clock /\ rAt'[w] = "sync" /\ FALSE \in BOOLEAN
          BY <2>0, <3>1 DEF R!SyncRead, R!Goto
        <4>2. QED
          <5>1. R!Reading(FALSE) \in R!Readings /\ R!Reading(FALSE).now = clock /\ R!Reading(FALSE).checked = 0
            BY <4>1, ReadingTypes DEF ReleaseInv
          <5>2. ~R!Checking(w)'
            BY <4>1 DEF R!Checking
          <5>3. my'[w].now = clock' /\ my'[w].checked = 0 /\ my'[w] \in R!Readings
            BY <4>1, <5>1
          <5>4. clock' <= clock' /\ 0 <= clock'
            BY <1>1
          <5>5. my'[w].now <= clock' /\ my'[w].checked <= clock'
            BY <5>3, <5>4
          <5>6. rAt'[w] \in {"sync", "pass"}
            BY <4>1
          <5>7. QED
            BY <5>2, <5>3, <5>5, <5>6
      <3>2. CASE R!Manual(w)
        BY <2>0, <2>2, <3>2 DEF R!Manual, R!Goto
      <3>3. CASE R!Select(w)
        BY <2>0, <2>2, <3>3, <1>4 DEF R!Select, R!Goto, R!Stop
      <3>4. QED
        BY <2>3, <3>1, <3>2, <3>3
    <2>4. CASE R!SyncWrite(w)
      BY <2>0, <2>1, <2>4 DEF R!SyncWrite, R!Goto, R!Checking
    <2>5. CASE R!Claim(w)
      <3>1. /\ rAt[w] = "claim" /\ rAt'[w] = "validate" /\ clock' = clock
        BY <1>4, <2>0, <2>5 DEF R!Claim, R!Goto, R!Stop
      <3>2. /\ my'[w].lease \in R!Leases /\ my'[w] \in R!Readings /\ my'[w].target = my[w].target
            /\ my'[w].now = my[w].now /\ my'[w].checked = my[w].checked
        BY <2>5, <3>1, ClaimFrame
      <3>3. QED
        BY <2>1, <3>1, <3>2
    <2>6. CASE R!Validate(w)
      <3>0. /\ rAt[w] = "validate" /\ rAt'[w] = "ask" /\ UNCHANGED <<clock, service>>
            /\ my' = IF my[w].manual
                     THEN [my EXCEPT ![w].target = service.target, ![w].revision = service.revision]
                     ELSE [my EXCEPT ![w].seen = R!Found(w)]
            /\ my[w].manual => service.target \in ReleaseTargets
        BY <1>4, <2>0, <2>6 DEF R!Validate, R!Goto, R!GiveUp, R!Stop, ReleaseInv, R!TypeOK
      <3>1. CASE ~my[w].manual
        <4>1. my'[w] = [my[w] EXCEPT !.seen = R!Found(w)] /\ my[w] \in R!Readings
          BY <2>0, <2>1, <3>0, <3>1
        <4>2. R!Found(w) \in R!Observations \cup {NoRow}
          BY <4>1, FoundTypes DEF ReleaseInv
        <4>3. /\ my'[w] \in R!Readings /\ my'[w].now = my[w].now /\ my'[w].checked = my[w].checked
              /\ my'[w].lease = my[w].lease /\ my'[w].target = my[w].target
          BY <4>1, <4>2 DEF R!Readings
        <4>4. QED
          BY <2>1, <3>0, <4>3 DEF R!Checking
      <3>2. CASE my[w].manual
        <4>1. my'[w] = [[my[w] EXCEPT !.target = service.target] EXCEPT !.revision = service.revision]
          BY <2>0, <3>0, <3>2
        <4>2. service.revision \in Nat /\ service.target \in ReleaseTargets
          BY <3>0, <3>2 DEF ReleaseInv, R!TypeOK
        <4>3. my[w] \in R!Readings
          BY <2>1, <3>0
        <4>4. /\ my'[w] \in R!Readings /\ my'[w].now = my[w].now /\ my'[w].checked = my[w].checked
              /\ my'[w].lease = my[w].lease /\ my'[w].target = service.target
          BY <4>1, <4>2, <4>3 DEF R!Readings
        <4>5. QED
          BY <2>1, <3>0, <4>2, <4>4 DEF R!Checking
      <3>3. QED
        BY <3>0, <3>1, <3>2
    <2>7. ASSUME NEW f \in BOOLEAN, R!Ask(w, f)
          PROVE  /\ my'[w] \in R!Readings /\ my'[w].now <= clock' /\ my'[w].checked <= clock'
                 /\ R!Checking(w)' => my'[w].lease \in R!Leases
                 /\ rAt'[w] \notin {"sync", "pass"} => my'[w].target \in ReleaseTargets
      <3>1. my'[w] = [[my[w] EXCEPT !.checked = clock] EXCEPT !.failed = f] /\ clock' = clock
            /\ rAt[w] = "ask" /\ clock \in R!Times
        BY <2>0, <2>7, <1>1, ClockIsTime, ReleaseConstants DEF R!Ask, ReleaseInv, R!TypeOK
      <3>2. QED
        BY <1>1, <2>1, <3>1 DEF R!Readings, R!Checking
    <2>8. CASE R!Store(w)
      <3>1. my'[w] = [my[w] EXCEPT !.seen = R!Found(w)] /\ clock' = clock /\ rAt[w] = "answered"
        BY <1>4, <2>0, <2>8 DEF R!Store, R!Goto, R!GiveUp, R!Stop
      <3>2. R!Found(w) \in R!Observations \cup {NoRow}
        BY <2>1, <3>1, FoundTypes DEF ReleaseInv
      <3>3. QED
        BY <2>1, <3>1, <3>2 DEF R!Readings, R!Checking
    <2>9. CASE R!Write(w) \/ R!Crash(w)
      BY <1>4, <2>0, <2>9 DEF R!Write, R!Crash, R!Stop
    <2>10. QED
      BY <1>4, <2>3, <2>4, <2>5, <2>6, <2>7, <2>8, <2>9 DEF R!Step
  <1>5. ASSUME NEW w \in Workers, R!Step(w), NEW v \in Workers \ {w} PROVE rAt'[v] = rAt[v] /\ my'[v] = my[v]
    BY <1>5, OnlyReleaseWorker DEF ReleaseInv
  <1>6. ASSUME NEW w \in Workers, R!Step(w) PROVE ReadingsDated'
    BY <1>2, <1>4, <1>5, <1>6 DEF ReadingsDated
  <1>7. QED
    BY <1>3, <1>6 DEF R!Next, R!Edit, R!Recreate, R!Tick, releaseVars

-----------------------------------------------------------------------------
(* Who has claimed a row keeps it until the lease has run out: other workers      *)
(* take, free and delete rows of their own or rows that have run out; only        *)
(* reconciliation takes others away, and then it counts as robbed.               *)
LEMMA RowStays ==
    ASSUME ReleaseInv, [R!Next]_releaseVars, NEW v \in Workers, NEW i \in R!Instances,
           i \notin robbed', leases[i] # NoRow, leases[i].owner = v, leases[i].expires > clock,
           R!Step(v) => rAt'[v] = "ask" \/ rAt'[v] = "answered" \/ rAt'[v] = "write"
    PROVE  /\ leases'[i] # NoRow /\ leases'[i].owner = v /\ leases'[i].expires = leases[i].expires
  <1>0. /\ leases \in [R!Instances -> R!Leases \cup {NoRow}] /\ leases[i] \in R!Leases
        /\ rAt \in [Workers -> R!Stages] /\ clock \in Nat /\ leases[i].expires \in Nat
        /\ v # Nobody
    <2>1. leases \in [R!Instances -> R!Leases \cup {NoRow}] /\ rAt \in [Workers -> R!Stages] /\ clock \in Nat
      BY ReleaseConstants DEF ReleaseInv, R!TypeOK
    <2>2. leases[i] \in R!Leases
      BY <2>1
    <2>3. leases[i].expires \in Nat
      BY <2>2, TimesAreNat DEF R!Leases
    <2>4. QED
      BY <2>1, <2>2, <2>3, ReleaseConstants
  <1>1. CASE leases'[i] = leases[i]
    BY <1>0, <1>1
  <1>2. ASSUME NEW w \in Workers, R!SyncWrite(w)
        PROVE  leases'[i] # NoRow /\ leases'[i].owner = v /\ leases'[i].expires = leases[i].expires
    <2>0. DEFINE m == my[w]
                 synced == R!Pruned([leases EXCEPT ![m.instance] = R!Reconciled(m)])
    <2>1. m \in R!Readings /\ m.instance \in R!Instances /\ m.now \in Nat /\ m.now <= clock
      BY <1>2, TimesAreNat DEF ReleaseInv, ReadingsDated, R!SyncWrite, R!Readings
    <2>2. synced[i] # NoRow
      BY <1>0, <1>2 DEF R!SyncWrite
    <2>3. synced[i] = IF i = m.instance THEN R!Reconciled(m) ELSE leases[i]
      BY <1>0, <2>1, <2>2 DEF R!Pruned
    <2>4. synced[i].owner = v /\ synced[i].expires = leases[i].expires
      BY <1>0, <1>2, <2>2, <2>3, ReconciledTypes DEF R!SyncWrite
    <2>5. leases'[i] = R!Released(synced[i], m.now)
      BY <1>2 DEF R!SyncWrite
    <2>6. ~(synced[i].expires <= m.now)
      BY <1>0, <2>1, <2>4
    <2>7. leases'[i] = synced[i]
      BY <2>5, <2>6 DEF R!Released
    <2>8. HIDE DEF synced
    <2>9. QED
      BY <2>2, <2>4, <2>7
  <1>3. ASSUME NEW w \in Workers, R!Claim(w) PROVE leases'[i] = leases[i]
    <2>1. CASE rAt'[w] = "validate"
      <3>1. my[w].now \in Nat /\ my[w].now <= clock
        BY <1>3, TimesAreNat DEF ReleaseInv, ReadingsDated, R!Claim, R!Readings
      <3>2. i # my[w].instance
        BY <1>0, <1>3, <2>1, <3>1, ClaimFrame
      <3>3. QED
        BY <1>0, <1>3, <2>1, <3>2, ClaimFrame
    <2>2. QED
      BY <1>3, <2>1, ClaimFrame
  <1>4. ASSUME NEW w \in Workers, R!GiveUp(w), R!Step(w) PROVE leases'[i] = leases[i]
    <2>1. rAt'[w] = "idle"
      BY <1>0, <1>4 DEF R!GiveUp, R!Stop
    <2>2. w # v
      BY <1>4, <2>1
    <2>3. QED
      BY <1>0, <1>4, <2>2 DEF R!GiveUp, R!Mine
  <1>5. ASSUME NEW w \in Workers, R!Write(w) PROVE leases'[i] = leases[i]
    <2>1. rAt'[w] = "idle" /\ R!Step(w)
      BY <1>0, <1>5 DEF R!Write, R!Stop, R!Step
    <2>2. w # v
      BY <1>5, <2>1
    <2>3. my[w].instance = i => ~R!Mine(w)
      BY <2>2 DEF R!Mine
    <2>4. QED
      BY <1>0, <1>5, <2>3 DEF R!Write
  <1>6. CASE UNCHANGED leases
    BY <1>1, <1>6
  <1>7. ASSUME NEW w \in Workers, R!Step(w)
        PROVE  leases'[i] # NoRow /\ leases'[i].owner = v /\ leases'[i].expires = leases[i].expires
    <2>1. CASE R!Validate(w) \/ R!Store(w)
      BY <1>1, <1>4, <1>6, <1>7, <2>1 DEF R!Validate, R!Store
    <2>2. QED
      BY <1>1, <1>2, <1>3, <1>5, <1>6, <1>7, <2>1 DEF R!Step, R!SyncRead, R!Select, R!Manual, R!Ask, R!Crash
  <1>8. QED
    BY <1>6, <1>7 DEF R!Next, R!Edit, R!Recreate, R!Tick, releaseVars

LEMMA HoldStep ==
    ASSUME ReleaseInv, [R!Next]_releaseVars
    PROVE  ChecksHold'
  <1>1. SUFFICES ASSUME NEW v \in Workers, R!Checking(v)', (my[v].instance \notin robbed)', (my[v].lease.expires > clock)'
                 PROVE  CheckHolds(v)'
    BY DEF ChecksHold
  <1>2. clock' >= clock /\ robbed \subseteq robbed' /\ clock \in Nat
    <2>1. (clock' = clock \/ clock' = clock + 1) /\ robbed \subseteq robbed'
      BY DEF R!Next, R!Tick, R!Step, R!Edit, R!Recreate, R!SyncRead, R!SyncWrite, R!Select, R!Manual, R!Claim,
         R!Validate, R!GiveUp, R!Ask, R!Store, R!Write, R!Crash, releaseVars
    <2>2. QED
      BY <2>1, ReleaseConstants DEF ReleaseInv, R!TypeOK
  <1>3. ASSUME R!Checking(v), my'[v].instance = my[v].instance, my'[v].lease = my[v].lease,
               R!Step(v) => rAt'[v] = "ask" \/ rAt'[v] = "answered" \/ rAt'[v] = "write"
        PROVE  CheckHolds(v)'
    <2>0. my[v].lease \in R!Leases /\ my[v].instance \in R!Instances /\ my[v].lease.expires \in Nat
      BY <1>3, TimesAreNat DEF ReleaseInv, ReadingsDated, R!Checking, R!Readings, R!Leases
    <2>1. my[v].instance \notin robbed /\ my[v].lease.expires > clock /\ clock' \in Nat
      BY <1>1, <1>2, <1>3, <2>0, ReleaseTypeStep, ReleaseConstants DEF R!TypeOK
    <2>2. leases[my[v].instance] # NoRow /\ leases[my[v].instance].owner = v
          /\ leases[my[v].instance].expires = my[v].lease.expires
      BY <1>3, <2>1 DEF ReleaseInv, ChecksHold, CheckHolds
    <2>3. QED
      BY <1>1, <1>3, <2>0, <2>1, <2>2, RowStays DEF CheckHolds
  <1>4. CASE R!Step(v)
    <2>0. rAt \in [Workers -> R!Stages] /\ my \in [Workers -> R!Readings \cup {NoRow}]
      BY DEF ReleaseInv, R!TypeOK
    <2>1. CASE R!Claim(v)
      <3>1. rAt'[v] = "validate"
        BY <1>1, <2>0, <2>1 DEF R!Claim, R!Goto, R!Stop, R!Checking
      <3>2. my'[v].instance = my[v].instance
        BY <2>1, <3>1, ClaimFrame DEF R!Readings
      <3>3. QED
        BY <2>1, <3>1, <3>2, ClaimFrame, ReleaseConstants DEF CheckHolds, ReleaseInv, R!TypeOK
    <2>2. CASE R!Validate(v) \/ R!Store(v) \/ \E f \in BOOLEAN : R!Ask(v, f)
      <3>1. my[v] \in R!Readings
        BY <2>2 DEF ReleaseInv, ReadingsDated, R!Validate, R!Store, R!Ask
      <3>2. /\ rAt[v] \in {"validate", "answered", "ask"} /\ rAt'[v] \in {"ask", "answered", "write"}
            /\ my'[v].instance = my[v].instance /\ my'[v].lease = my[v].lease
        BY <1>1, <2>0, <2>2, <3>1 DEF R!Validate, R!Store, R!Ask, R!GiveUp, R!Stop, R!Goto, R!Checking, R!Readings
      <3>3. QED
        BY <1>3, <3>2 DEF R!Checking
    <2>3. CASE R!SyncRead(v) \/ R!SyncWrite(v) \/ R!Select(v) \/ R!Manual(v) \/ R!Write(v) \/ R!Crash(v)
      BY <1>1, <2>0, <2>3 DEF R!SyncRead, R!SyncWrite, R!Select, R!Manual, R!Write, R!Crash, R!Stop, R!Goto, R!Checking
    <2>4. QED
      BY <1>4, <2>1, <2>2, <2>3 DEF R!Step
  <1>5. CASE ~R!Step(v)
    <2>1. rAt'[v] = rAt[v] /\ my'[v] = my[v]
      <3>1. ASSUME NEW w \in Workers, R!Step(w) PROVE rAt'[v] = rAt[v] /\ my'[v] = my[v]
        BY <1>5, <3>1, OnlyReleaseWorker DEF ReleaseInv
      <3>2. QED
        BY <3>1 DEF R!Next, R!Edit, R!Recreate, R!Tick, releaseVars
    <2>2. QED
      BY <1>1, <1>3, <1>5, <2>1 DEF R!Checking
  <1>6. QED
    BY <1>4, <1>5

LEMMA CooledStep ==
    ASSUME ReleaseInv, [R!Next]_releaseVars
    PROVE  CooledDown'
  <1>1. SUFFICES ASSUME NEW v \in Workers, rAt'[v] \in {"claim", "validate", "ask"}, my'[v].manual,
                        R!Matches(my'[v].seen, my'[v].looked)
                 PROVE  my'[v].seen.checked + Cooldown <= clock'
    BY DEF CooledDown
  <1>2. clock \in Nat /\ clock' \in Nat /\ clock <= clock'
    <2>1. clock' = clock \/ clock' = clock + 1
      BY DEF R!Next, R!Tick, R!Step, R!Edit, R!Recreate, R!SyncRead, R!SyncWrite, R!Select, R!Manual, R!Claim,
         R!Validate, R!GiveUp, R!Ask, R!Store, R!Write, R!Crash, releaseVars
    <2>2. QED
      BY <2>1, ReleaseConstants DEF ReleaseInv, R!TypeOK
  <1>3. ASSUME rAt[v] \in {"claim", "validate", "ask"}, my'[v].manual = my[v].manual,
               my'[v].looked = my[v].looked, my'[v].seen = my[v].seen
        PROVE  my'[v].seen.checked + Cooldown <= clock'
    <2>1. my[v].seen \in R!Observations
      BY <1>1, <1>3 DEF ReleaseInv, ReadingsDated, R!Matches, R!Readings
    <2>2. my[v].seen.checked \in Nat
      BY <2>1, TimesAreNat DEF R!Observations
    <2>3. my[v].seen.checked + Cooldown <= clock
      BY <1>1, <1>3 DEF ReleaseInv, CooledDown
    <2>4. QED
      BY <1>2, <1>3, <2>2, <2>3, ReleaseConstants
  <1>4. CASE R!Step(v)
    <2>0. rAt \in [Workers -> R!Stages] /\ my \in [Workers -> R!Readings \cup {NoRow}]
      BY DEF ReleaseInv, R!TypeOK
    <2>1. CASE R!Manual(v)
      <3>1. /\ my'[v].seen = observed[service.instance] /\ my'[v].looked = service.target /\ clock' = clock
            /\ ~R!Cooling(observed[service.instance], service.target)
        BY <2>0, <2>1 DEF R!Manual, R!Reading
      <3>2. my'[v].seen \in R!Observations
        BY <1>1, <3>1 DEF R!Matches, ReleaseInv, R!TypeOK
      <3>3. my'[v].seen.checked \in Nat
        BY <3>2, TimesAreNat DEF R!Observations
      <3>4. ~(my'[v].seen.checked + Cooldown > clock)
        BY <1>1, <3>1 DEF R!Cooling
      <3>5. QED
        BY <1>2, <3>1, <3>3, <3>4, ReleaseConstants
    <2>2. CASE R!Claim(v)
      <3>1. rAt'[v] = "validate" /\ rAt[v] = "claim"
        BY <1>1, <2>0, <2>2 DEF R!Claim, R!Goto, R!Stop
      <3>2. \A f \in {"manual", "instance", "target", "looked", "now", "seen", "checked"} : my'[v][f] = my[v][f]
        BY <2>2, <3>1, ClaimFrame
      <3>3. my'[v].manual = my[v].manual /\ my'[v].looked = my[v].looked /\ my'[v].seen = my[v].seen
        BY <3>2
      <3>4. QED
        BY <1>3, <3>1, <3>3
    <2>3. CASE R!Validate(v)
      <3>1. my[v] \in R!Readings /\ rAt[v] = "validate"
        BY <2>3 DEF ReleaseInv, ReadingsDated, R!Validate
      <3>2. my'[v].manual = my[v].manual /\ my'[v].looked = my[v].looked /\ my'[v].seen = my[v].seen
        <4>1. my' = IF my[v].manual
                    THEN [my EXCEPT ![v].target = service.target, ![v].revision = service.revision]
                    ELSE [my EXCEPT ![v].seen = R!Found(v)]
          BY <1>1, <2>0, <2>3 DEF R!Validate, R!GiveUp, R!Stop
        <4>2. /\ my[v].manual =>
                    my'[v] = [[my[v] EXCEPT !.target = service.target] EXCEPT !.revision = service.revision]
              /\ ~my[v].manual => my'[v] = [my[v] EXCEPT !.seen = R!Found(v)]
          BY <2>0, <4>1
        <4>3. CASE my[v].manual
          <5>1. PICK r : r = my[v]
            OBVIOUS
          <5>2. r \in R!Readings /\ my'[v] = [[r EXCEPT !.target = service.target] EXCEPT !.revision = service.revision]
            BY <3>1, <4>2, <4>3, <5>1
          <5>3. QED
            BY <5>1, <5>2 DEF R!Readings
        <4>4. CASE ~my[v].manual
          <5>1. my'[v].manual = my[v].manual
            BY <3>1, <4>2, <4>4 DEF R!Readings
          <5>2. QED
            BY <1>1, <4>4, <5>1
        <4>5. QED
          BY <4>3, <4>4
      <3>3. QED
        BY <1>3, <3>1, <3>2
    <2>4. CASE R!Select(v)
      BY <1>1, <2>0, <2>4 DEF R!Select, R!Reading, R!Stop, R!Goto
    <2>5. CASE R!SyncRead(v) \/ R!SyncWrite(v) \/ R!Store(v) \/ R!Write(v) \/ R!Crash(v)
               \/ \E f \in BOOLEAN : R!Ask(v, f)
      BY <1>1, <2>0, <2>5 DEF R!SyncRead, R!SyncWrite, R!Store, R!Write, R!Crash, R!Ask, R!GiveUp, R!Stop, R!Goto
    <2>6. QED
      BY <1>4, <2>1, <2>2, <2>3, <2>4, <2>5 DEF R!Step
  <1>5. CASE ~R!Step(v)
    <2>1. rAt'[v] = rAt[v] /\ my'[v] = my[v]
      <3>1. ASSUME NEW w \in Workers, R!Step(w) PROVE rAt'[v] = rAt[v] /\ my'[v] = my[v]
        BY <1>5, <3>1, OnlyReleaseWorker DEF ReleaseInv
      <3>2. QED
        BY <3>1 DEF R!Next, R!Edit, R!Recreate, R!Tick, releaseVars
    <2>2. QED
      BY <1>1, <1>3, <2>1
  <1>6. QED
    BY <1>4, <1>5

(* Two checks hold one row only when reconciliation took it from one of them or    *)
(* one lease has run out.                                                    *)
LEMMA OneHolder ==
    ASSUME ReleaseInv, NEW v \in Workers, NEW w \in Workers, v # w, R!Checking(v), R!Checking(w),
           my[v].instance = my[w].instance, my[v].instance \notin robbed,
           my[v].lease.expires > clock, my[w].lease.expires > clock
    PROVE  FALSE
  <1>1. CheckHolds(v) /\ CheckHolds(w)
    BY DEF ReleaseInv, ChecksHold
  <1>2. QED
    BY <1>1 DEF CheckHolds

(* A check that is in time after a step, and had its answer before, was in time.    *)
LEMMA WasInTime ==
    ASSUME ReleaseInv, [R!Next]_releaseVars, NEW w \in Workers, InTime(w)', Answered(w),
           my'[w].instance = my[w].instance, my'[w].lease = my[w].lease
    PROVE  InTime(w)
  <1>1. my[w].instance \notin robbed' \cup late' /\ my[w].lease.expires > clock'
    BY DEF InTime
  <1>2. (clock' = clock \/ clock' = clock + 1) /\ robbed \subseteq robbed' /\ late \subseteq late'
    BY DEF R!Next, R!Tick, R!Step, R!Edit, R!Recreate, R!SyncRead, R!SyncWrite, R!Select, R!Manual, R!Claim,
       R!Validate, R!GiveUp, R!Ask, R!Store, R!Write, R!Crash, releaseVars
  <1>3. my[w].lease \in R!Leases /\ clock \in Nat
    BY ReleaseConstants DEF Answered, ReleaseInv, ReadingsDated, R!Checking, R!TypeOK
  <1>4. my[w].lease.expires \in Nat
    BY <1>3, TimesAreNat DEF R!Leases
  <1>5. my[w].lease.expires > clock
    BY <1>1, <1>2, <1>3, <1>4
  <1>6. QED
    BY <1>1, <1>2, <1>5 DEF InTime

(* The answers of other workers and the one stored are as they were, or older     *)
(* than that of a check in time.                                             *)
LEMMA AnswersStep ==
    ASSUME ReleaseInv, [R!Next]_releaseVars
    PROVE  AnswersInOrder'
  <1>0. /\ rAt \in [Workers -> R!Stages] /\ my \in [Workers -> R!Readings \cup {NoRow}]
        /\ observed \in [R!Instances -> R!Observations \cup {NoRow}] /\ clock \in Nat
    BY ReleaseConstants DEF ReleaseInv, R!TypeOK
  <1>1. clock' \in Nat /\ clock <= clock'
    <2>1. clock' = clock \/ clock' = clock + 1
      BY DEF R!Next, R!Tick, R!Step, R!Edit, R!Recreate, R!SyncRead, R!SyncWrite, R!Select, R!Manual, R!Claim,
         R!Validate, R!GiveUp, R!Ask, R!Store, R!Write, R!Crash, releaseVars
    <2>2. QED
      BY <1>0, <2>1
  <1>2. ASSUME NEW u \in Workers, rAt[u] # "idle"
        PROVE  /\ my[u] \in R!Readings /\ my[u].checked \in Nat /\ my[u].checked <= clock
               /\ my[u].instance \in R!Instances
    BY <1>2, TimesAreNat DEF ReleaseInv, ReadingsDated, R!Readings
  <1>3. \A i \in R!Instances : observed[i] # NoRow => observed[i].checked \in Nat /\ observed[i].checked <= clock
    BY <1>0, TimesAreNat DEF ReleaseInv, AnswersInOrder, R!Observations
  (* What a step stores was stored, or is the answer of the worker that writes.       *)
  <1>4. ASSUME NEW i \in R!Instances, observed'[i] # NoRow
        PROVE  \/ observed[i] # NoRow /\ observed'[i].checked = observed[i].checked
               \/ \E v \in Workers : /\ R!Write(v) /\ my[v].instance = i
                                     /\ observed'[i].checked = my[v].checked
    <2>1. ASSUME NEW v \in Workers, R!Write(v), observed' # observed
          PROVE  \/ observed[i] # NoRow /\ observed'[i].checked = observed[i].checked
                 \/ my[v].instance = i /\ observed'[i].checked = my[v].checked
      <3>1. my[v].instance \in R!Instances
        BY <1>2, <2>1 DEF R!Write
      <3>2. QED
        BY <1>0, <1>4, <2>1, <3>1, FlushedRow
    <2>2. ASSUME NEW v \in Workers, R!SyncWrite(v) PROVE observed'[i] = observed[i]
      BY <1>4, <2>2 DEF R!SyncWrite, R!Pruned
    <2>3. CASE observed' = observed
      BY <1>4, <2>3
    <2>4. QED
      BY <1>4, <2>1, <2>2, <2>3 DEF R!Next, R!Tick, R!Step, R!Edit, R!Recreate, R!SyncRead, R!Select,
         R!Manual, R!Claim, R!Validate, R!GiveUp, R!Ask, R!Store, R!Crash, releaseVars
  (* Who has an answer had it before, or has asked now, in time or late.              *)
  <1>5. ASSUME NEW w \in Workers, Answered(w)'
        PROVE  \/ /\ Answered(w) /\ my'[w].checked = my[w].checked
                  /\ my'[w].instance = my[w].instance /\ my'[w].lease = my[w].lease
               \/ \E f \in BOOLEAN : R!Ask(w, f)
    <2>1. CASE R!Step(w)
      <3>1. CASE R!Store(w)
        <4>1. my'[w] = [my[w] EXCEPT !.seen = R!Found(w)] /\ rAt[w] = "answered"
          BY <1>0, <1>5, <3>1 DEF R!Store, R!GiveUp, R!Stop, Answered
        <4>2. my[w] \in R!Readings
          BY <1>2, <4>1
        <4>3. QED
          BY <4>1, <4>2 DEF Answered, R!Readings
      <3>2. ~(R!SyncRead(w) \/ R!SyncWrite(w) \/ R!Select(w) \/ R!Manual(w) \/ R!Claim(w) \/ R!Validate(w)
              \/ R!Write(w) \/ R!Crash(w))
        BY <1>0, <1>5 DEF R!SyncRead, R!SyncWrite, R!Select, R!Manual, R!Claim, R!Validate, R!Write, R!Crash,
           R!GiveUp, R!Stop, R!Goto, Answered
      <3>3. QED
        BY <2>1, <3>1, <3>2 DEF R!Step
    <2>2. CASE ~R!Step(w)
      <3>1. rAt'[w] = rAt[w] /\ my'[w] = my[w]
        <4>1. ASSUME NEW u \in Workers, R!Step(u) PROVE rAt'[w] = rAt[w] /\ my'[w] = my[w]
          BY <2>2, <4>1, OnlyReleaseWorker DEF ReleaseInv
        <4>2. QED
          BY <4>1 DEF R!Next, R!Edit, R!Recreate, R!Tick, releaseVars
      <3>2. QED
        BY <1>5, <3>1 DEF Answered
    <2>3. QED
      BY <2>1, <2>2
  <1>6. ASSUME NEW i \in R!Instances, observed'[i] # NoRow PROVE observed'[i].checked <= clock'
    <2>1. CASE observed[i] # NoRow /\ observed'[i].checked = observed[i].checked
      BY <1>0, <1>1, <1>3, <2>1
    <2>2. ASSUME NEW v \in Workers, R!Write(v), observed'[i].checked = my[v].checked
          PROVE  observed'[i].checked <= clock'
      BY <1>0, <1>1, <1>2, <2>2 DEF R!Write
    <2>3. QED
      BY <1>4, <1>6, <2>1, <2>2
  <1>7. ASSUME NEW w \in Workers, InTime(w)'
        PROVE  /\ observed'[my'[w].instance] # NoRow => observed'[my'[w].instance].checked <= my'[w].checked
               /\ \A v \in Workers :
                     Answered(v)' /\ my'[v].instance = my'[w].instance => my'[v].checked <= my'[w].checked
    <2>1. ASSUME NEW f \in BOOLEAN, R!Ask(w, f)
          PROVE  /\ observed'[my'[w].instance] # NoRow => observed'[my'[w].instance].checked <= my'[w].checked
                 /\ \A v \in Workers : Answered(v)' => my'[v].checked <= my'[w].checked
      <3>1. /\ my[w] \in R!Readings /\ my[w].instance \in R!Instances /\ observed' = observed /\ clock' = clock
            /\ my'[w] = [[my[w] EXCEPT !.checked = clock] EXCEPT !.failed = f]
        BY <1>0, <1>2, <2>1 DEF R!Ask
      <3>2. my'[w].checked = clock /\ my'[w].instance = my[w].instance
        BY <3>1 DEF R!Readings
      <3>3. ASSUME NEW v \in Workers, Answered(v)', v # w PROVE my'[v].checked <= clock
        <4>1. R!Step(w)
          BY <2>1 DEF R!Step
        <4>2. Answered(v) /\ my'[v] = my[v]
          BY <3>3, <4>1, OnlyReleaseWorker DEF ReleaseInv, Answered
        <4>3. QED
          BY <1>2, <4>2 DEF Answered
      <3>4. \A v \in Workers : Answered(v)' => my'[v].checked <= my'[w].checked
        BY <1>0, <3>2, <3>3
      <3>5. observed'[my'[w].instance] # NoRow => observed'[my'[w].instance].checked <= my'[w].checked
        BY <1>3, <3>1, <3>2
      <3>6. QED
        BY <3>4, <3>5
    <2>2. CASE /\ Answered(w) /\ my'[w].checked = my[w].checked
               /\ my'[w].instance = my[w].instance /\ my'[w].lease = my[w].lease
      <3>1. InTime(w)
        BY <1>7, <2>2, WasInTime
      <3>2. /\ observed[my[w].instance] # NoRow => observed[my[w].instance].checked <= my[w].checked
            /\ \A v \in Workers :
                  Answered(v) /\ my[v].instance = my[w].instance => my[v].checked <= my[w].checked
        BY <3>1 DEF ReleaseInv, AnswersInOrder
      <3>3. my[w].instance \in R!Instances
        BY <1>2, <2>2 DEF Answered
      <3>4. observed'[my[w].instance] # NoRow => observed'[my[w].instance].checked <= my[w].checked
        BY <1>4, <3>2, <3>3 DEF R!Write, Answered
      <3>5. ASSUME NEW v \in Workers, Answered(v)', my'[v].instance = my[w].instance
            PROVE  my'[v].checked <= my[w].checked
        <4>1. ASSUME NEW f \in BOOLEAN, R!Ask(v, f) PROVE FALSE
          <5>1. v # w /\ R!Checking(v) /\ R!Checking(w)
            BY <2>2, <4>1 DEF Answered, R!Ask, R!Checking
          <5>2. my'[v].instance = my[v].instance
            <6>1. my[v] \in R!Readings /\ my'[v] = [[my[v] EXCEPT !.checked = clock] EXCEPT !.failed = f]
              BY <1>0, <1>2, <4>1 DEF R!Ask
            <6>2. QED
              BY <6>1 DEF R!Readings
          <5>3. my[v].lease.expires > clock
            <6>1. ~(my[v].lease.expires <= clock)
              BY <1>7, <2>2, <3>5, <4>1, <5>2 DEF R!Ask, InTime
            <6>2. my[v].lease \in R!Leases
              BY <5>1 DEF ReleaseInv, ReadingsDated, R!Checking
            <6>3. my[v].lease.expires \in Nat
              BY <6>2, TimesAreNat DEF R!Leases
            <6>4. QED
              BY <1>0, <6>1, <6>3
          <5>4. QED
            BY <3>1, <3>5, <5>1, <5>2, <5>3, OneHolder DEF InTime
        <4>2. Answered(v) /\ my'[v].checked = my[v].checked /\ my'[v].instance = my[v].instance
          BY <1>5, <3>5, <4>1
        <4>3. QED
          BY <3>2, <3>5, <4>2
      <3>6. QED
        BY <2>2, <3>4, <3>5
    <2>3. QED
      BY <1>5, <1>7, <2>1, <2>2 DEF InTime
  <1>8. QED
    BY <1>6, <1>7 DEF AnswersInOrder

LEMMA ReleaseInit == ASSUME R!Init PROVE ReleaseInv
  <1>1. /\ 0 \in R!Times /\ ReleaseInterval \in R!Times /\ ReleaseInterval \in 0..MaxClock
        /\ 1 \in R!Instances /\ ReleaseInterval \in Nat
    BY ReleaseConstants, ClockIsTime
  <1>2. [id |-> 1, owner |-> Nobody, expires |-> 0, due |-> ReleaseInterval] \in R!Leases
    BY <1>1 DEF R!Leases
  <1>3. \A t \in ReleaseTargets : [target |-> t, checked |-> 0, due |-> ReleaseInterval] \in R!Observations
    BY <1>1 DEF R!Observations
  <1>4. \A i \in R!Instances :
          /\ leases[i] \in {NoRow, [id |-> 1, owner |-> Nobody, expires |-> 0, due |-> ReleaseInterval]}
          /\ observed[i] # NoRow =>
                \E t \in ReleaseTargets : observed[i] = [target |-> t, checked |-> 0, due |-> ReleaseInterval]
    BY DEF R!Init
  <1>5. leases \in [R!Instances -> R!Leases \cup {NoRow}] /\ observed \in [R!Instances -> R!Observations \cup {NoRow}]
    BY <1>2, <1>3, <1>4 DEF R!Init
  <1>6. \A i \in R!Instances : leases[i] # NoRow => (leases[i].owner = Nobody <=> leases[i].expires = 0)
    BY <1>4
  <1>7. R!TypeOK
    BY <1>1, <1>5, <1>6, ReleaseConstants DEF R!Init, R!TypeOK, R!Stages
  <1>8. AnswersInOrder
    BY <1>1, <1>4 DEF R!Init, AnswersInOrder, InTime, Answered
  <1>9. QED
    BY <1>7, <1>8 DEF R!Init, ReleaseInv, ReadingsDated, ChecksHold, CooledDown, R!Checking

LEMMA ReleaseStep == ASSUME ReleaseInv, [R!Next]_releaseVars PROVE ReleaseInv'
  BY ReleaseTypeStep, DatedStep, HoldStep, CooledStep, AnswersStep DEF ReleaseInv

(* The orders that every step keeps.                                           *)
LEMMA OrderStep == ASSUME ReleaseInv, R!Next PROVE R!ChecksOrdered
  <1>0. /\ rAt \in [Workers -> R!Stages] /\ my \in [Workers -> R!Readings \cup {NoRow}]
        /\ observed \in [R!Instances -> R!Observations \cup {NoRow}]
    BY DEF ReleaseInv, R!TypeOK
  <1>1. R!OneCheckAtATime
    <2>1. SUFFICES ASSUME NEW v \in Workers, NEW w \in Workers, R!Overlap(v, w), my[v].instance \notin robbed
                   PROVE  FALSE
      BY DEF R!OneCheckAtATime
    <2>2. QED
      BY <2>1, OneHolder DEF R!Overlap
  <1>2. R!NewestAnswerKept
    <2>1. SUFFICES ASSUME NEW w \in Workers, rAt[w] = "write", rAt'[w] = "idle",
                          observed'[my[w].instance] # observed[my[w].instance], observed[my[w].instance] # NoRow,
                          observed[my[w].instance].target = my[w].target,
                          observed[my[w].instance].checked > my[w].checked,
                          \/ my[w].seen = observed[my[w].instance]
                          \/ /\ my[w].instance \notin robbed \cup late
                             /\ ~(my[w].lease.expires <= clock)
                   PROVE  FALSE
      BY DEF R!NewestAnswerKept
    <2>2. R!Step(w)
      <3>1. ASSUME NEW u \in Workers, R!Step(u) PROVE u = w
        BY <2>1, <3>1, OnlyReleaseWorker DEF ReleaseInv
      <3>2. QED
        BY <2>1, <3>1 DEF R!Next, R!Edit, R!Recreate, R!Tick
    <2>3. R!Write(w)
      BY <2>1, <2>2 DEF R!Step, R!SyncRead, R!SyncWrite, R!Select, R!Manual, R!Claim, R!Validate, R!Ask, R!Store, R!Crash
    <2>4. my[w] \in R!Readings /\ my[w].checked \in Nat /\ observed[my[w].instance].checked \in Nat
      <3>1. my[w] \in R!Readings /\ observed[my[w].instance] \in R!Observations
        BY <1>0, <2>1 DEF ReleaseInv, ReadingsDated, R!Readings
      <3>2. QED
        BY <3>1, TimesAreNat DEF R!Readings, R!Observations
    <2>5. CASE my[w].seen = observed[my[w].instance]
      <3>1. R!Newer(my[w])
        BY <2>1, <2>4, <2>5 DEF R!Newer, R!Matches
      <3>2. QED
        BY <2>1, <2>3, <3>1 DEF R!Write
    <2>6. CASE my[w].instance \notin robbed \cup late /\ ~(my[w].lease.expires <= clock)
      <3>1. my[w].lease \in R!Leases /\ clock \in Nat
        BY <2>1, ReleaseConstants DEF ReleaseInv, ReadingsDated, R!Checking, R!TypeOK
      <3>2. my[w].lease.expires > clock
        <4>1. my[w].lease.expires \in Nat
          BY <3>1, TimesAreNat DEF R!Leases
        <4>2. QED
          BY <2>6, <3>1, <4>1
      <3>3. InTime(w)
        BY <2>1, <2>6, <3>2 DEF InTime, Answered
      <3>4. observed[my[w].instance].checked <= my[w].checked
        BY <2>1, <3>3 DEF ReleaseInv, AnswersInOrder
      <3>5. QED
        BY <2>1, <2>4, <3>4
    <2>7. QED
      BY <2>1, <2>5, <2>6
  <1>3. R!CooldownMissedByRacesOnly
    <2>1. SUFFICES ASSUME NEW w \in Workers, rAt[w] = "ask", my[w].manual, observed[my[w].instance] # NoRow,
                          clock < observed[my[w].instance].checked + Cooldown,
                          my[w].seen = observed[my[w].instance], my[w].looked = my[w].target,
                          observed[my[w].instance].target = my[w].target
                   PROVE  FALSE
      BY DEF R!CooldownMissedByRacesOnly
    <2>2. my[w].seen.checked \in Nat /\ clock \in Nat
      <3>1. my[w].seen \in R!Observations
        BY <2>1 DEF ReleaseInv, ReadingsDated, R!Readings
      <3>2. QED
        <4>1. my[w].seen.checked \in R!Times
          BY <3>1 DEF R!Observations
        <4>2. clock \in Nat
          BY ReleaseConstants DEF ReleaseInv, R!TypeOK
        <4>3. QED
          BY <4>1, <4>2, TimesAreNat
    <2>3. my[w].seen.checked + Cooldown <= clock
      BY <2>1 DEF ReleaseInv, CooledDown, R!Matches
    <2>4. QED
      BY <2>1, <2>2, <2>3, ReleaseConstants
  <1>4. QED
    BY <1>1, <1>2, <1>3 DEF R!ChecksOrdered

-----------------------------------------------------------------------------
(* TokenFailureBuckets: the table is in the order of the windows and has a row  *)
(* for each counter of a window.                                             *)
TableSound(t) ==
    /\ t \in Seq(T!Buckets) /\ Len(t) <= MaxRows
    /\ \A i, j \in DOMAIN t : i < j => t[i].window <= t[j].window
    /\ \A i, j \in DOMAIN t : t[i].key = t[j].key /\ t[i].window = t[j].window => i = j
    /\ \A i \in DOMAIN t : t[i].window <= window

Full(t) == Len(t) = MaxRows /\ T!Expired(t) = {}

(* Nothing is forgotten unless nobody passes any more.                          *)
Remembers(t, f) ==
    \/ T!Count(t, T!Global) >= GlobalLimit
    \/ \A k \in T!Dimensions : T!Count(t, k) >= f[k]

(* Nothing is counted that did not happen, but when the table is full.           *)
Blames(t, f) ==
    \A k \in T!Dimensions :
        \/ T!Count(t, k) <= f[k]
        \/ f[k] = T!Limit(k)
        \/ k = T!Global /\ Full(t)

Failures == {f \in [T!Dimensions -> Nat] : \A k \in T!Dimensions : f[k] <= T!Limit(k)}

TokenInv ==
    /\ window \in 1..MaxWindow /\ checked \subseteq T!Calls /\ failed \in Failures
    /\ TableSound(table) /\ Remembers(table, failed) /\ Blames(table, failed)

LEMMA TokenConstants ==
    /\ T!Global \notin Sources \cup BearerTokens /\ Sources \cap BearerTokens = {}
    /\ MaxRows \in Nat /\ MaxRows > 0 /\ MaxWindow \in Nat /\ MaxWindow > 0 /\ PruneBatch \in Nat
    /\ \A k \in T!Dimensions : T!Limit(k) \in Nat /\ T!Limit(k) > 0
    /\ T!Global \in T!Dimensions /\ T!Limit(T!Global) = GlobalLimit
    /\ Sources \cup BearerTokens \subseteq T!Dimensions /\ GlobalLimit \in Nat /\ GlobalLimit > 0
  BY TokensAssumption DEF T!ConstantsSound, T!Dimensions, T!Limit

(* The counter of a window, if there is one.                                    *)
LEMMA CountOf ==
    ASSUME NEW t, TableSound(t), NEW k
    PROVE  /\ T!Count(t, k) \in Nat
           /\ \A i \in DOMAIN t : t[i].key = k /\ t[i].window = window => T!Count(t, k) = t[i].count
           /\ (\A i \in DOMAIN t : ~(t[i].key = k /\ t[i].window = window)) => T!Count(t, k) = 0
  <1>1. ASSUME NEW i \in DOMAIN t, t[i].key = k, t[i].window = window
        PROVE  T!Count(t, k) = t[i].count /\ t[i].count \in Nat
    <2>1. T!Current(t, k) = {i}
      BY <1>1 DEF T!Current, TableSound
    <2>2. (CHOOSE j \in T!Current(t, k) : TRUE) = i
      BY <2>1
    <2>3. t[i] \in T!Buckets
      BY <1>1 DEF TableSound
    <2>4. QED
      BY <2>1, <2>2, <2>3 DEF T!Count, T!Buckets
  <1>2. ASSUME \A i \in DOMAIN t : ~(t[i].key = k /\ t[i].window = window)
        PROVE  T!Count(t, k) = 0
    <2>1. T!Current(t, k) = {}
      BY <1>2 DEF T!Current
    <2>2. QED
      BY <2>1 DEF T!Count
  <1>3. QED
    BY <1>1, <1>2

LEMMA CurrentCount ==
    ASSUME NEW t, TableSound(t), NEW k, T!Current(t, k) = {}
    PROVE  T!Count(t, k) = 0
  BY DEF T!Count

LEMMA RemoveAtFacts ==
    ASSUME NEW S, NEW t \in Seq(S), NEW n \in DOMAIN t
    PROVE  /\ T!RemoveAt(t, n) \in Seq(S) /\ Len(T!RemoveAt(t, n)) = Len(t) - 1
           /\ DOMAIN T!RemoveAt(t, n) = 1..(Len(t) - 1)
           /\ \A i \in 1..(Len(t) - 1) : T!RemoveAt(t, n)[i] = IF i < n THEN t[i] ELSE t[i + 1]
  <1>1. Len(t) \in Nat /\ n \in 1..Len(t) /\ n \in Nat /\ n >= 1 /\ n <= Len(t)
    OBVIOUS
  <1>2. /\ SubSeq(t, 1, n - 1) \in Seq(S) /\ Len(SubSeq(t, 1, n - 1)) = n - 1
        /\ \A i \in 1..(n - 1) : SubSeq(t, 1, n - 1)[i] = t[i]
    BY <1>1
  <1>3. /\ SubSeq(t, n + 1, Len(t)) \in Seq(S) /\ Len(SubSeq(t, n + 1, Len(t))) = Len(t) - n
        /\ \A i \in 1..(Len(t) - n) : SubSeq(t, n + 1, Len(t))[i] = t[n + i]
    BY <1>1
  <1>4. T!RemoveAt(t, n) = SubSeq(t, 1, n - 1) \o SubSeq(t, n + 1, Len(t))
    BY DEF T!RemoveAt
  <1>5. ASSUME NEW a \in Seq(S), NEW b \in Seq(S), Len(a) = n - 1, Len(b) = Len(t) - n,
               \A i \in 1..(n - 1) : a[i] = t[i], \A i \in 1..(Len(t) - n) : b[i] = t[n + i]
        PROVE  /\ a \o b \in Seq(S) /\ Len(a \o b) = Len(t) - 1
               /\ \A i \in 1..(Len(t) - 1) : (a \o b)[i] = IF i < n THEN t[i] ELSE t[i + 1]
    <2>1. a \o b \in Seq(S) /\ Len(a \o b) = Len(t) - 1
      BY <1>1, <1>5
    <2>2. ASSUME NEW i \in 1..(Len(t) - 1) PROVE (a \o b)[i] = IF i < n THEN t[i] ELSE t[i + 1]
      <3>1. CASE i < n
        BY <1>1, <1>5, <2>2, <3>1
      <3>2. CASE i >= n
        <4>0. i \in 1..(Len(a) + Len(b)) /\ ~(i <= Len(a))
          BY <1>1, <1>5, <2>2, <3>2
        <4>1. (a \o b)[i] = b[i - (n - 1)]
          <5>1. \A m \in 1..(Len(a) + Len(b)) : (a \o b)[m] = IF m <= Len(a) THEN a[m] ELSE b[m - Len(a)]
            BY <1>5, ConcatProperties
          <5>2. (a \o b)[i] = IF i <= Len(a) THEN a[i] ELSE b[i - Len(a)]
            BY <4>0, <5>1
          <5>3. QED
            BY <1>5, <4>0, <5>2
        <4>2. i - (n - 1) \in 1..(Len(t) - n) /\ n + (i - (n - 1)) = i + 1
          BY <1>1, <2>2, <3>2
        <4>3. b[i - (n - 1)] = t[n + (i - (n - 1))]
          BY <1>5, <4>2
        <4>4. ~(i < n)
          BY <1>1, <2>2, <3>2
        <4>5. QED
          BY <4>1, <4>2, <4>3, <4>4
      <3>3. i < n \/ i >= n
        BY <1>1, <2>2
      <3>4. QED
        BY <3>1, <3>2, <3>3
    <2>3. QED
      BY <2>1, <2>2
  <1>6. DEFINE left == SubSeq(t, 1, n - 1)
               right == SubSeq(t, n + 1, Len(t))
  <1>7. HIDE DEF left, right
  <1>8. /\ left \o right \in Seq(S) /\ Len(left \o right) = Len(t) - 1
        /\ \A i \in 1..(Len(t) - 1) : (left \o right)[i] = IF i < n THEN t[i] ELSE t[i + 1]
    BY <1>2, <1>3, <1>5 DEF left, right
  <1>9. T!RemoveAt(t, n) = left \o right
    BY <1>4 DEF left, right
  <1>10. QED
    BY <1>1, <1>8, <1>9

(* A row goes.                                                              *)
LEMMA RowRemoved ==
    ASSUME NEW t, TableSound(t), NEW n \in DOMAIN t, NEW u, u = T!RemoveAt(t, n)
    PROVE  /\ TableSound(u) /\ Len(u) = Len(t) - 1
           /\ T!Expired(t) = {} => T!Expired(u) = {}
           /\ \A k : T!Current(t, k) = {} => T!Current(u, k) = {}
           /\ \A k : ~(t[n].key = k /\ t[n].window = window) => T!Count(u, k) = T!Count(t, k)
           /\ \A k : t[n].key = k /\ t[n].window = window => T!Count(u, k) = 0
  <1>0. t \in Seq(T!Buckets) /\ Len(t) \in Nat /\ n \in 1..Len(t) /\ Len(t) <= MaxRows /\ DOMAIN t = 1..Len(t)
    BY DEF TableSound
  <1>1. /\ u \in Seq(T!Buckets) /\ Len(u) = Len(t) - 1 /\ DOMAIN u = 1..(Len(t) - 1)
        /\ \A i \in DOMAIN u : u[i] = IF i < n THEN t[i] ELSE t[i + 1]
    BY <1>0, RemoveAtFacts
  <1>2. DEFINE from(i) == IF i < n THEN i ELSE i + 1
  <1>3. \A i \in DOMAIN u : from(i) \in DOMAIN t /\ from(i) # n /\ u[i] = t[from(i)]
    BY <1>0, <1>1
  <1>4. \A i, j \in DOMAIN u : (i < j => from(i) < from(j)) /\ (from(i) = from(j) => i = j)
    BY <1>0, <1>1
  <1>5. \A m \in DOMAIN t : m # n => \E i \in DOMAIN u : from(i) = m
    <2>1. SUFFICES ASSUME NEW m \in DOMAIN t, m # n PROVE \E i \in DOMAIN u : from(i) = m
      OBVIOUS
    <2>2. CASE m < n
      BY <1>0, <1>1, <2>1, <2>2
    <2>3. CASE m > n
      <3>1. m - 1 \in DOMAIN u /\ from(m - 1) = m
        BY <1>0, <1>1, <2>1, <2>3
      <3>2. QED
        BY <3>1
    <2>4. QED
      BY <1>0, <2>1, <2>2, <2>3
  <1>6. HIDE DEF from
  <1>7. TableSound(u)
    <2>1. Len(u) <= MaxRows
      BY <1>0, <1>1, TokenConstants
    <2>2. \A i, j \in DOMAIN u : i < j => u[i].window <= u[j].window
      BY <1>3, <1>4 DEF TableSound
    <2>3. \A i, j \in DOMAIN u : u[i].key = u[j].key /\ u[i].window = u[j].window => i = j
      BY <1>3, <1>4 DEF TableSound
    <2>4. \A i \in DOMAIN u : u[i].window <= window
      BY <1>3 DEF TableSound
    <2>5. QED
      BY <1>1, <2>1, <2>2, <2>3, <2>4 DEF TableSound
  <1>8. ASSUME NEW k, ~(t[n].key = k /\ t[n].window = window)
        PROVE  T!Count(u, k) = T!Count(t, k)
    <2>1. CASE \E m \in DOMAIN t : t[m].key = k /\ t[m].window = window
      <3>1. PICK m \in DOMAIN t : t[m].key = k /\ t[m].window = window
        BY <2>1
      <3>2. PICK i \in DOMAIN u : from(i) = m
        BY <1>5, <1>8, <3>1
      <3>3. u[i] = t[m]
        BY <1>3, <3>2
      <3>4. QED
        BY <1>7, <3>1, <3>3, CountOf
    <2>2. CASE \A m \in DOMAIN t : ~(t[m].key = k /\ t[m].window = window)
      <3>1. \A i \in DOMAIN u : ~(u[i].key = k /\ u[i].window = window)
        BY <1>3, <2>2
      <3>2. QED
        BY <1>7, <2>2, <3>1, CountOf
    <2>3. QED
      BY <2>1, <2>2
  <1>9. ASSUME NEW k, t[n].key = k, t[n].window = window
        PROVE  T!Count(u, k) = 0
    <2>1. \A i \in DOMAIN u : ~(u[i].key = k /\ u[i].window = window)
      BY <1>0, <1>3, <1>9 DEF TableSound
    <2>2. QED
      BY <1>7, <2>1, CountOf
  <1>10. /\ T!Expired(t) = {} => T!Expired(u) = {}
         /\ \A k : T!Current(t, k) = {} => T!Current(u, k) = {}
    BY <1>3 DEF T!Expired, T!Current
  <1>11. QED
    BY <1>1, <1>7, <1>8, <1>9, <1>10

(* A counter begins.                                                         *)
Begun(t, k) == Append(t, [key |-> k, window |-> window, count |-> 1])

LEMMA RowAppended ==
    ASSUME NEW t, TableSound(t), NEW k \in T!Dimensions, T!Current(t, k) = {}, Len(t) < MaxRows,
           window \in 1..MaxWindow, NEW u, u = Begun(t, k)
    PROVE  /\ TableSound(u) /\ Len(u) = Len(t) + 1
           /\ T!Expired(t) = {} => T!Expired(u) = {}
           /\ T!Count(u, k) = 1
           /\ \A j : j # k => T!Count(u, j) = T!Count(t, j)
  <1>0. t \in Seq(T!Buckets) /\ Len(t) \in Nat /\ DOMAIN t = 1..Len(t) /\ MaxRows \in Nat
        /\ window \in Nat
    BY TokenConstants DEF TableSound
  <1>1. DEFINE row_ == [key |-> k, window |-> window, count |-> 1]
  <1>2. row_ \in T!Buckets
    BY DEF T!Buckets
  <1>3. /\ u \in Seq(T!Buckets) /\ Len(u) = Len(t) + 1 /\ DOMAIN u = 1..(Len(t) + 1)
        /\ \A i \in 1..Len(t) : u[i] = t[i] /\ u[Len(t) + 1] = row_
    BY <1>0, <1>2 DEF Begun
  <1>4. u[Len(t) + 1] = row_
    BY <1>0, <1>2 DEF Begun
  <1>5. row_.key = k /\ row_.window = window /\ row_.count = 1
    OBVIOUS
  <1>6. HIDE DEF row_
  <1>7. \A i \in DOMAIN t : ~(t[i].key = k /\ t[i].window = window)
    BY DEF T!Current
  <1>8. TableSound(u)
    <2>1. Len(u) <= MaxRows
      BY <1>0, <1>3
    <2>2. ASSUME NEW i \in DOMAIN u, NEW j \in DOMAIN u, i < j PROVE u[i].window <= u[j].window
      <3>1. i \in 1..Len(t)
        BY <1>0, <1>3, <2>2
      <3>2. CASE j = Len(t) + 1
        BY <1>0, <1>3, <1>4, <1>5, <3>1, <3>2 DEF TableSound
      <3>3. CASE j # Len(t) + 1
        <4>1. j \in 1..Len(t)
          BY <1>0, <1>3, <3>3
        <4>2. QED
          BY <1>0, <1>3, <2>2, <3>1, <4>1 DEF TableSound
      <3>4. QED
        BY <3>2, <3>3
    <2>3. ASSUME NEW i \in DOMAIN u, NEW j \in DOMAIN u, u[i].key = u[j].key, u[i].window = u[j].window
          PROVE  i = j
      <3>1. i \in DOMAIN t \/ i = Len(t) + 1
        BY <1>0, <1>3
      <3>2. j \in DOMAIN t \/ j = Len(t) + 1
        BY <1>0, <1>3
      <3>3. CASE i \in DOMAIN t /\ j \in DOMAIN t
        BY <1>0, <1>3, <2>3, <3>3 DEF TableSound
      <3>4. QED
        BY <1>0, <1>3, <1>4, <1>5, <1>7, <2>3, <3>1, <3>2, <3>3
    <2>4. ASSUME NEW i \in DOMAIN u PROVE u[i].window <= window
      <3>1. CASE i \in DOMAIN t
        BY <1>0, <1>3, <3>1 DEF TableSound
      <3>2. CASE i = Len(t) + 1
        BY <1>0, <1>4, <1>5, <3>2
      <3>3. QED
        BY <1>0, <1>3, <3>1, <3>2
    <2>5. QED
      BY <1>3, <2>1, <2>2, <2>3, <2>4 DEF TableSound
  <1>9. T!Count(u, k) = 1
    <2>1. Len(t) + 1 \in DOMAIN u
      BY <1>0, <1>3
    <2>2. QED
      BY <1>4, <1>5, <1>8, <2>1, CountOf
  <1>10. ASSUME NEW j, j # k PROVE T!Count(u, j) = T!Count(t, j)
    <2>1. CASE \E m \in DOMAIN t : t[m].key = j /\ t[m].window = window
      <3>1. PICK m \in DOMAIN t : t[m].key = j /\ t[m].window = window
        BY <2>1
      <3>2. m \in DOMAIN u /\ u[m] = t[m]
        BY <1>0, <1>3
      <3>3. T!Count(t, j) = t[m].count
        BY <3>1, CountOf
      <3>4. T!Count(u, j) = u[m].count
        <4>1. u[m].key = j /\ u[m].window = window
          BY <3>1, <3>2
        <4>2. QED
          BY <1>8, <3>2, <4>1, CountOf
      <3>5. QED
        BY <3>2, <3>3, <3>4
    <2>2. CASE \A m \in DOMAIN t : ~(t[m].key = j /\ t[m].window = window)
      <3>1. ASSUME NEW i \in DOMAIN u PROVE ~(u[i].key = j /\ u[i].window = window)
        <4>1. CASE i \in DOMAIN t
          BY <1>0, <1>3, <2>2, <4>1
        <4>2. CASE i = Len(t) + 1
          BY <1>4, <1>5, <1>10, <4>2
        <4>3. QED
          BY <1>0, <1>3, <4>1, <4>2
      <3>2. T!Count(u, j) = 0
        BY <1>8, <3>1, CountOf
      <3>3. T!Count(t, j) = 0
        BY <2>2, CountOf
      <3>4. QED
        BY <3>2, <3>3
    <2>3. QED
      BY <2>1, <2>2
  <1>11. ASSUME T!Expired(t) = {} PROVE T!Expired(u) = {}
    <2>1. \A i \in DOMAIN t : ~(t[i].window < window)
      BY <1>11 DEF T!Expired
    <2>2. ASSUME NEW i \in DOMAIN u PROVE ~(u[i].window < window)
      <3>1. CASE i \in DOMAIN t
        BY <1>0, <1>3, <2>1, <3>1
      <3>2. CASE i = Len(t) + 1
        BY <1>0, <1>4, <1>5, <3>2
      <3>3. QED
        BY <1>0, <1>3, <3>1, <3>2
    <2>3. QED
      BY <2>2 DEF T!Expired
  <1>12. QED
    BY <1>3, <1>8, <1>9, <1>10, <1>11

(* Only counts change.                                                       *)
LEMMA RowsCounted ==
    ASSUME NEW t, TableSound(t), NEW u \in Seq(T!Buckets), DOMAIN u = DOMAIN t,
           \A i \in DOMAIN t : u[i].key = t[i].key /\ u[i].window = t[i].window
    PROVE  /\ TableSound(u) /\ Len(u) = Len(t) /\ T!Expired(u) = T!Expired(t)
           /\ \A k : T!Current(u, k) = T!Current(t, k)
           /\ \A k : (\A i \in T!Current(t, k) : u[i].count = t[i].count) => T!Count(u, k) = T!Count(t, k)
  <1>1. t \in Seq(T!Buckets)
    BY DEF TableSound
  <1>2. Len(u) = Len(t)
    BY <1>1
  <1>3. TableSound(u)
    BY <1>2 DEF TableSound
  <1>4. T!Expired(u) = T!Expired(t) /\ \A k : T!Current(u, k) = T!Current(t, k)
    BY DEF T!Expired, T!Current
  <1>5. ASSUME NEW k, \A i \in T!Current(t, k) : u[i].count = t[i].count
        PROVE  T!Count(u, k) = T!Count(t, k)
    <2>1. CASE T!Current(t, k) = {}
      BY <1>4, <2>1 DEF T!Count
    <2>2. CASE T!Current(t, k) # {}
      <3>1. (CHOOSE i \in T!Current(t, k) : TRUE) \in T!Current(t, k)
        BY <2>2
      <3>2. QED
        BY <1>4, <1>5, <2>2, <3>1 DEF T!Count
    <2>3. QED
      BY <2>1, <2>2
  <1>6. QED
    BY <1>2, <1>3, <1>4, <1>5

(* The counter of a key counts one more.                                     *)
LEMMA CounterRaised ==
    ASSUME NEW t, TableSound(t), NEW k \in T!Dimensions, T!Current(t, k) # {},
           NEW n \in Nat, NEW u,
           u = [i \in DOMAIN t |-> IF i \in T!Current(t, k) THEN [t[i] EXCEPT !.count = n] ELSE t[i]]
    PROVE  /\ TableSound(u) /\ Len(u) = Len(t) /\ T!Expired(u) = T!Expired(t)
           /\ T!Count(u, k) = n
           /\ \A j : j # k => T!Count(u, j) = T!Count(t, j)
  <1>1. t \in Seq(T!Buckets) /\ DOMAIN t = 1..Len(t) /\ Len(t) \in Nat
    BY DEF TableSound
  <1>2. ASSUME NEW i \in DOMAIN t
        PROVE  u[i] \in T!Buckets /\ u[i].key = t[i].key /\ u[i].window = t[i].window
               /\ (i \in T!Current(t, k) => u[i].count = n)
               /\ (i \notin T!Current(t, k) => u[i].count = t[i].count)
    <2>1. PICK r \in T!Buckets : r = t[i]
      BY <1>1, <1>2
    <2>2. u[i] = IF i \in T!Current(t, k) THEN [r EXCEPT !.count = n] ELSE r
      BY <1>2, <2>1
    <2>3. [r EXCEPT !.count = n] \in T!Buckets /\ [r EXCEPT !.count = n].key = r.key
          /\ [r EXCEPT !.count = n].window = r.window /\ [r EXCEPT !.count = n].count = n
      BY <2>1 DEF T!Buckets
    <2>4. QED
      BY <2>1, <2>2, <2>3
  <1>3. u \in Seq(T!Buckets) /\ DOMAIN u = DOMAIN t
    <2>1. DOMAIN u = 1..Len(t)
      BY <1>1
    <2>2. u \in [1..Len(t) -> T!Buckets]
      BY <1>1, <1>2
    <2>3. QED
      BY <1>1, <2>1, <2>2
  <1>4. /\ TableSound(u) /\ Len(u) = Len(t) /\ T!Expired(u) = T!Expired(t)
        /\ \A j : (\A i \in T!Current(t, j) : u[i].count = t[i].count) => T!Count(u, j) = T!Count(t, j)
    <2>1. \A i \in DOMAIN t : u[i].key = t[i].key /\ u[i].window = t[i].window
      BY <1>2
    <2>2. QED
      BY <1>3, <2>1, RowsCounted
  <1>5. T!Count(u, k) = n
    <2>1. PICK i \in T!Current(t, k) : TRUE
      OBVIOUS
    <2>2. i \in DOMAIN u /\ u[i].key = k /\ u[i].window = window /\ u[i].count = n
      BY <1>2, <1>3, <2>1 DEF T!Current
    <2>3. QED
      BY <1>4, <2>2, CountOf
  <1>6. ASSUME NEW j, j # k PROVE T!Count(u, j) = T!Count(t, j)
    <2>1. \A i \in T!Current(t, j) : i \in DOMAIN t /\ i \notin T!Current(t, k)
      BY <1>6 DEF T!Current
    <2>2. QED
      BY <1>2, <1>4, <2>1
  <1>7. QED
    BY <1>4, <1>5, <1>6

(* The first of some rows is one of them.                                    *)
LEMMA FirstOf ==
    ASSUME NEW t, TableSound(t), NEW some \in SUBSET DOMAIN t, some # {}
    PROVE  T!First(t, some) \in some
  <1>1. some \subseteq Nat
    BY DEF TableSound
  <1>2. PICK n \in some : TRUE
    OBVIOUS
  <1>3. \E i \in some : \A m \in some : i <= m
    <2>1. \E i \in some : \A m \in some : ~(<<m, i>> \in OpToRel(<, Nat))
      BY <1>1, NatLessThanWellFounded, WFMin
    <2>2. PICK i \in some : \A m \in some : ~(<<m, i>> \in OpToRel(<, Nat))
      BY <2>1
    <2>3. ASSUME NEW m \in some PROVE i <= m
      <3>1. ~(<<m, i>> \in OpToRel(<, Nat))
        BY <2>2
      <3>2. i \in Nat /\ m \in Nat
        BY <1>1
      <3>3. ~(m < i)
        BY <3>1, <3>2 DEF OpToRel
      <3>4. QED
        BY <3>2, <3>3
    <2>4. QED
      BY <2>3
  <1>4. QED
    BY <1>3 DEF T!First

(* _make_bucket_room: what it makes room with is expired, may be evicted and is    *)
(* lost, or is not needed.                                                   *)
LEMMA RoomMade ==
    ASSUME NEW t, TableSound(t), NEW E, NEW made, made = T!Room(t, E)
    PROVE  \/ made = [table |-> t, room |-> TRUE, lost |-> FALSE] /\ Len(t) < MaxRows
           \/ /\ Len(t) = MaxRows
              /\ \E n \in DOMAIN t : t[n].window < window
                    /\ made = [table |-> T!RemoveAt(t, n), room |-> TRUE, lost |-> FALSE]
              /\ T!Expired(t) # {}
           \/ /\ Full(t)
              /\ \E n \in DOMAIN t : t[n].key \in E
                    /\ made = [table |-> T!RemoveAt(t, n), room |-> TRUE, lost |-> TRUE]
           \/ /\ made = [table |-> t, room |-> FALSE, lost |-> FALSE] /\ Full(t)
              /\ \A n \in DOMAIN t : t[n].key \notin E
  <1>1. Len(t) \in Nat /\ MaxRows \in Nat /\ Len(t) <= MaxRows
    BY TokenConstants DEF TableSound
  <1>2. DEFINE victims == {i \in DOMAIN t : t[i].key \in E}
  <1>3. CASE Len(t) < MaxRows
    <2>1. made = [table |-> t, room |-> TRUE, lost |-> FALSE]
      BY <1>1, <1>3 DEF T!Room
    <2>2. QED
      BY <1>3, <2>1
  <1>4. CASE Len(t) = MaxRows /\ T!Expired(t) # {}
    <2>1. PICK n \in T!Expired(t) : n = T!First(t, T!Expired(t))
      BY <1>4, FirstOf DEF T!Expired
    <2>2. made = [table |-> T!RemoveAt(t, n), room |-> TRUE, lost |-> FALSE]
      BY <1>1, <1>4, <2>1 DEF T!Room
    <2>3. n \in DOMAIN t /\ t[n].window < window
      BY <2>1 DEF T!Expired
    <2>4. QED
      BY <1>4, <2>2, <2>3
  <1>5. CASE Full(t) /\ victims # {}
    <2>1. PICK n \in victims : n = T!First(t, victims)
      BY <1>5, FirstOf
    <2>2. made = [table |-> T!RemoveAt(t, n), room |-> TRUE, lost |-> TRUE]
      BY <1>1, <1>5, <2>1 DEF T!Room, Full
    <2>3. QED
      BY <1>5, <2>1, <2>2
  <1>6. CASE Full(t) /\ victims = {}
    <2>1. made = [table |-> t, room |-> FALSE, lost |-> FALSE]
      BY <1>1, <1>6 DEF T!Room, Full
    <2>2. QED
      BY <1>6, <2>1
  <1>7. QED
    BY <1>1, <1>3, <1>4, <1>5, <1>6 DEF Full

(* _increment_bucket: where there is room the counter counts one more; a counter   *)
(* that may still count is given up in a full table only, among those that may be.  *)
LEMMA Incremented ==
    ASSUME NEW t, TableSound(t), NEW k \in T!Dimensions, NEW E, window \in 1..MaxWindow,
           NEW s, s = T!Increment(t, k, E)
    PROVE  /\ s.room \in BOOLEAN /\ s.lost \in BOOLEAN /\ TableSound(s.table)
           /\ s.room => T!Count(s.table, k) = T!Least(T!Count(t, k) + 1, T!Limit(k) + 1)
           /\ \A j : j # k /\ j \notin E => T!Count(s.table, j) = T!Count(t, j)
           /\ ~s.lost => \A j : j # k => T!Count(s.table, j) = T!Count(t, j)
           /\ \A j : j # k => T!Count(s.table, j) = T!Count(t, j) \/ T!Count(s.table, j) = 0
           /\ Full(t) => Full(s.table)
           /\ s.lost => Full(s.table)
           /\ ~s.room => s.table = t /\ Full(t) /\ T!Current(t, k) = {} /\ \A n \in DOMAIN t : t[n].key \notin E
  <1>1. T!Limit(k) \in Nat /\ T!Limit(k) > 0 /\ MaxRows \in Nat /\ MaxRows > 0
    BY TokenConstants
  <1>2. Len(t) \in Nat /\ Len(t) <= MaxRows
    BY DEF TableSound
  <1>3. CASE T!Current(t, k) # {}
    <2>1. PICK c \in Nat : c = T!Count(t, k)
      BY CountOf
    <2>2. PICK n \in Nat : n = T!Least(c + 1, T!Limit(k) + 1)
      BY <1>1, <2>1 DEF T!Least
    <2>3. PICK u : u = [i \in DOMAIN t |-> IF i \in T!Current(t, k) THEN [t[i] EXCEPT !.count = n] ELSE t[i]]
      OBVIOUS
    <2>4. \A i \in T!Current(t, k) : i \in DOMAIN t /\ t[i].count = c
      BY <2>1, CountOf DEF T!Current
    <2>5. \A i \in T!Current(t, k) :
             [t[i] EXCEPT !.count = T!Least(@ + 1, T!Limit(k) + 1)] = [t[i] EXCEPT !.count = n]
      BY <2>2, <2>4
    <2>6. s = [table |-> u, room |-> TRUE, lost |-> FALSE]
      BY <1>3, <2>3, <2>5 DEF T!Increment
    <2>7. /\ TableSound(u) /\ Len(u) = Len(t) /\ T!Expired(u) = T!Expired(t)
          /\ T!Count(u, k) = n
          /\ \A j : j # k => T!Count(u, j) = T!Count(t, j)
      BY <1>3, <2>3, CounterRaised, SMTT(30)
    <2>8. Full(t) => Full(u)
      BY <2>7 DEF Full
    <2>9. QED
      BY <2>1, <2>2, <2>6, <2>7, <2>8
  <1>4. CASE T!Current(t, k) = {}
    <2>1. T!Count(t, k) = 0 /\ T!Least(0 + 1, T!Limit(k) + 1) = 1
      BY <1>1, <1>4, CurrentCount DEF T!Least
    <2>2. PICK made : made = T!Room(t, E)
      OBVIOUS
    <2>4. s = IF made.room THEN [made EXCEPT !.table = Begun(@, k)] ELSE made
      BY <1>4, <2>2 DEF T!Increment, Begun
    <2>6. ASSUME NEW u, TableSound(u), T!Current(u, k) = {}, Len(u) < MaxRows
          PROVE  /\ TableSound(Begun(u, k)) /\ Len(Begun(u, k)) = Len(u) + 1 /\ T!Count(Begun(u, k), k) = 1
                 /\ T!Expired(u) = {} => T!Expired(Begun(u, k)) = {}
                 /\ \A j : j # k => T!Count(Begun(u, k), j) = T!Count(u, j)
      BY <2>6, RowAppended
    <2>7. CASE made = [table |-> t, room |-> TRUE, lost |-> FALSE] /\ Len(t) < MaxRows
      <3>1. s = [table |-> Begun(t, k), room |-> TRUE, lost |-> FALSE]
        BY <2>4, <2>7
      <3>2. ~Full(t)
        BY <1>1, <1>2, <2>7 DEF Full
      <3>3. QED
        BY <1>4, <2>1, <2>6, <2>7, <3>1, <3>2
    <2>8. CASE /\ Len(t) = MaxRows
               /\ \E n \in DOMAIN t : t[n].window < window
                    /\ made = [table |-> T!RemoveAt(t, n), room |-> TRUE, lost |-> FALSE]
               /\ T!Expired(t) # {}
      <3>1. PICK n \in DOMAIN t : t[n].window < window
                    /\ made = [table |-> T!RemoveAt(t, n), room |-> TRUE, lost |-> FALSE]
        BY <2>8
      <3>2. PICK u : u = T!RemoveAt(t, n)
        OBVIOUS
      <3>3. t[n].window # window
        <4>1. t[n].window \in Nat /\ window \in Nat
          <5>1. t[n] \in T!Buckets
            BY DEF TableSound
          <5>2. MaxWindow \in Nat
            BY TokenConstants
          <5>3. QED
            BY <5>1, <5>2 DEF T!Buckets
        <4>2. QED
          BY <3>1, <4>1
      <3>4. /\ TableSound(u) /\ Len(u) = Len(t) - 1 /\ T!Current(u, k) = {}
            /\ \A j : T!Count(u, j) = T!Count(t, j)
        BY <1>4, <3>2, <3>3, RowRemoved
      <3>5. Len(u) < MaxRows /\ ~Full(t)
        BY <1>1, <2>8, <3>4 DEF Full
      <3>6. s = [table |-> Begun(u, k), room |-> TRUE, lost |-> FALSE]
        BY <2>4, <3>1, <3>2
      <3>7. /\ TableSound(Begun(u, k)) /\ T!Count(Begun(u, k), k) = 1
            /\ \A j : j # k => T!Count(Begun(u, k), j) = T!Count(u, j)
        BY <2>6, <3>4, <3>5
      <3>8. QED
        BY <2>1, <3>4, <3>5, <3>6, <3>7
    <2>9. CASE /\ Full(t)
               /\ \E n \in DOMAIN t : t[n].key \in E
                    /\ made = [table |-> T!RemoveAt(t, n), room |-> TRUE, lost |-> TRUE]
      <3>1. PICK n \in DOMAIN t : t[n].key \in E
                    /\ made = [table |-> T!RemoveAt(t, n), room |-> TRUE, lost |-> TRUE]
        BY <2>9
      <3>2. PICK u : u = T!RemoveAt(t, n)
        OBVIOUS
      <3>3. /\ TableSound(u) /\ Len(u) = Len(t) - 1 /\ T!Current(u, k) = {}
            /\ T!Expired(t) = {} => T!Expired(u) = {}
            /\ \A j : ~(t[n].key = j /\ t[n].window = window) => T!Count(u, j) = T!Count(t, j)
            /\ \A j : t[n].key = j /\ t[n].window = window => T!Count(u, j) = 0
        BY <1>4, <3>2, RowRemoved
      <3>4. Len(u) < MaxRows /\ Len(u) + 1 = MaxRows /\ T!Expired(u) = {}
        BY <1>1, <2>9, <3>3 DEF Full
      <3>5. s = [table |-> Begun(u, k), room |-> TRUE, lost |-> TRUE]
        BY <2>4, <3>1, <3>2
      <3>6. /\ TableSound(Begun(u, k)) /\ T!Count(Begun(u, k), k) = 1 /\ Len(Begun(u, k)) = MaxRows
            /\ T!Expired(Begun(u, k)) = {}
            /\ \A j : j # k => T!Count(Begun(u, k), j) = T!Count(u, j)
        BY <2>6, <3>3, <3>4
      <3>7. Full(Begun(u, k))
        BY <3>6 DEF Full
      <3>8. \A j : j # k /\ j \notin E => T!Count(Begun(u, k), j) = T!Count(t, j)
        BY <3>1, <3>3, <3>6
      <3>9. \A j : j # k => T!Count(Begun(u, k), j) = T!Count(t, j) \/ T!Count(Begun(u, k), j) = 0
        BY <3>3, <3>6
      <3>10. QED
        BY <2>1, <3>5, <3>6, <3>7, <3>8, <3>9
    <2>10. CASE /\ made = [table |-> t, room |-> FALSE, lost |-> FALSE] /\ Full(t)
                /\ \A n \in DOMAIN t : t[n].key \notin E
      <3>1. s = [table |-> t, room |-> FALSE, lost |-> FALSE]
        BY <2>4, <2>10
      <3>2. QED
        BY <1>4, <2>1, <2>10, <3>1
    <2>11. QED
      BY <2>2, <2>7, <2>8, <2>9, <2>10, RoomMade
  <1>5. QED
    BY <1>3, <1>4

(* _saturate_bucket: the global counter is over its limit.                     *)
LEMMA GlobalSaturated ==
    ASSUME NEW t, TableSound(t), T!Count(t, T!Global) >= 1, NEW u, u = T!Saturated(t)
    PROVE  /\ TableSound(u) /\ T!Count(u, T!Global) = GlobalLimit + 1
           /\ \A j : j # T!Global => T!Count(u, j) = T!Count(t, j)
           /\ Full(t) => Full(u)
  <1>1. T!Current(t, T!Global) # {}
    BY CurrentCount
  <1>2. GlobalLimit + 1 \in Nat /\ T!Global \in T!Dimensions
    BY TokenConstants
  <1>3. PICK n \in Nat : n = GlobalLimit + 1
    BY <1>2
  <1>4. u = [i \in DOMAIN t |-> IF i \in T!Current(t, T!Global) THEN [t[i] EXCEPT !.count = n] ELSE t[i]]
    BY <1>3 DEF T!Saturated
  <1>5. /\ TableSound(u) /\ Len(u) = Len(t) /\ T!Expired(u) = T!Expired(t)
        /\ T!Count(u, T!Global) = n
        /\ \A j : j # T!Global => T!Count(u, j) = T!Count(t, j)
    BY <1>1, <1>2, <1>4, CounterRaised
  <1>6. QED
    BY <1>3, <1>5 DEF Full

(* What became of a counter that counts one more: what the history remembers is     *)
(* remembered, and what it does not is blamed on nobody.                        *)
Bumped(f, k) == [f EXCEPT ![k] = T!Least(f[k] + 1, T!Limit(k))]

LEMMA BumpedFacts ==
    ASSUME NEW f \in Failures, NEW k \in T!Dimensions
    PROVE  /\ Bumped(f, k) \in Failures
           /\ Bumped(f, k)[k] = T!Least(f[k] + 1, T!Limit(k))
           /\ \A j \in T!Dimensions : j # k => Bumped(f, k)[j] = f[j]
  <1>1. f \in [T!Dimensions -> Nat] /\ f[k] \in Nat /\ f[k] <= T!Limit(k)
    BY DEF Failures
  <1>2. T!Limit(k) \in Nat
    BY TokenConstants
  <1>3. PICK n \in Nat : n = T!Least(f[k] + 1, T!Limit(k)) /\ n <= T!Limit(k)
    BY <1>1, <1>2 DEF T!Least
  <1>4. Bumped(f, k) = [f EXCEPT ![k] = n]
    BY <1>3 DEF Bumped
  <1>5. [f EXCEPT ![k] = n] \in [T!Dimensions -> Nat] /\ [f EXCEPT ![k] = n][k] = n
        /\ \A j \in T!Dimensions : j # k => [f EXCEPT ![k] = n][j] = f[j]
    BY <1>1
  <1>6. \A j \in T!Dimensions : [f EXCEPT ![k] = n][j] <= T!Limit(j)
    BY <1>3, <1>5 DEF Failures
  <1>7. QED
    BY <1>3, <1>4, <1>5, <1>6 DEF Failures

LEMMA Counted ==
    ASSUME NEW t, TableSound(t), window \in 1..MaxWindow,
           NEW k \in T!Dimensions, NEW E \in SUBSET (Sources \cup BearerTokens),
           k # T!Global => T!Count(t, T!Global) >= 1,
           k = T!Global => E = Sources \cup BearerTokens,
           NEW f \in Failures, Remembers(t, f), Blames(t, f),
           NEW s, s = T!FailClosed(T!Increment(t, k, E))
    PROVE  /\ TableSound(s) /\ T!Count(s, T!Global) >= 1
           /\ Remembers(s, Bumped(f, k)) /\ Blames(s, Bumped(f, k))
           /\ Full(t) => Full(s)
           /\ ~T!Increment(t, k, E).room => Full(s)
  <1>1. PICK step_ : step_ = T!Increment(t, k, E)
    OBVIOUS
  <1>2. /\ step_.room \in BOOLEAN /\ step_.lost \in BOOLEAN /\ TableSound(step_.table)
        /\ step_.room => T!Count(step_.table, k) = T!Least(T!Count(t, k) + 1, T!Limit(k) + 1)
        /\ \A j : j # k /\ j \notin E => T!Count(step_.table, j) = T!Count(t, j)
        /\ ~step_.lost => \A j : j # k => T!Count(step_.table, j) = T!Count(t, j)
        /\ \A j : j # k => T!Count(step_.table, j) = T!Count(t, j) \/ T!Count(step_.table, j) = 0
        /\ Full(t) => Full(step_.table)
        /\ step_.lost => Full(step_.table)
        /\ ~step_.room => step_.table = t /\ Full(t) /\ T!Current(t, k) = {} /\ \A n \in DOMAIN t : t[n].key \notin E
    BY <1>1, Incremented
  <1>3. PICK u : u = step_.table
    OBVIOUS
  <1>4. /\ T!Global \notin E /\ GlobalLimit \in Nat /\ GlobalLimit > 0 /\ T!Limit(T!Global) = GlobalLimit
        /\ \A j \in T!Dimensions : T!Limit(j) \in Nat /\ T!Limit(j) > 0
        /\ T!Global \in T!Dimensions /\ MaxRows \in Nat /\ MaxRows > 0
    BY TokenConstants
  <1>5. TableSound(u) /\ \A j : T!Count(t, j) \in Nat /\ T!Count(u, j) \in Nat
    BY <1>2, <1>3, CountOf
  <1>6. step_.room \/ k # T!Global
    <2>1. SUFFICES ASSUME ~step_.room, k = T!Global PROVE FALSE
      BY <1>2
    <2>2. Len(t) = MaxRows /\ T!Expired(t) = {} /\ T!Current(t, k) = {} /\ \A n \in DOMAIN t : t[n].key \notin E
      BY <1>2, <2>1 DEF Full
    <2>3. 1 \in DOMAIN t
      BY <1>4, <2>2 DEF TableSound
    <2>4. t[1] \in T!Buckets
      BY <2>3 DEF TableSound
    <2>5. t[1].key \in T!Dimensions /\ t[1].key \notin Sources \cup BearerTokens
      BY <2>1, <2>2, <2>3, <2>4 DEF T!Buckets
    <2>6. t[1].key = k
      BY <2>1, <2>5 DEF T!Dimensions
    <2>7. t[1].window = window
      <3>1. t[1].window <= window /\ ~(t[1].window < window)
        BY <2>2, <2>3 DEF TableSound, T!Expired
      <3>2. t[1].window \in Nat /\ window \in Nat
        BY <2>4, TokenConstants DEF T!Buckets
      <3>3. QED
        BY <3>1, <3>2
    <2>8. QED
      BY <2>2, <2>3, <2>6, <2>7 DEF T!Current
  <1>7. T!Count(u, T!Global) >= 1
    <2>1. CASE k = T!Global
      <3>1. T!Count(u, k) = T!Least(T!Count(t, k) + 1, T!Limit(k) + 1)
        BY <1>2, <1>3, <1>6, <2>1
      <3>2. QED
        BY <1>4, <1>5, <2>1, <3>1 DEF T!Least
    <2>2. CASE k # T!Global
      BY <1>2, <1>3, <1>4, <2>2
    <2>3. QED
      BY <2>1, <2>2
  <1>8. PICK g \in Failures : /\ g = Bumped(f, k)
                              /\ g[k] = T!Least(f[k] + 1, T!Limit(k))
                              /\ \A j \in T!Dimensions : j # k => g[j] = f[j]
    BY BumpedFacts
  <1>9. \A j \in T!Dimensions : f[j] \in Nat /\ f[j] <= T!Limit(j) /\ g[j] \in Nat /\ g[j] <= T!Limit(j)
    BY DEF Failures
  <1>10. ASSUME NEW j \in T!Dimensions, j # T!Global
         PROVE  T!Count(u, j) <= g[j] \/ g[j] = T!Limit(j)
    <2>1. T!Count(t, j) <= f[j] \/ f[j] = T!Limit(j)
      BY <1>10 DEF Blames
    <2>2. CASE j = k /\ step_.room
      <3>1. T!Count(u, k) = T!Least(T!Count(t, k) + 1, T!Limit(k) + 1)
        BY <1>2, <1>3, <2>2
      <3>2. QED
        BY <1>4, <1>5, <1>8, <1>9, <2>1, <2>2, <3>1 DEF T!Least
    <2>3. CASE j = k /\ ~step_.room
      <3>1. T!Count(u, k) = 0
        BY <1>2, <1>3, <2>3, CurrentCount
      <3>2. QED
        BY <1>9, <2>3, <3>1
    <2>4. CASE j # k
      <3>1. T!Count(u, j) = T!Count(t, j) \/ T!Count(u, j) = 0
        BY <1>2, <1>3, <2>4
      <3>2. QED
        BY <1>5, <1>8, <1>9, <2>1, <2>4, <3>1
    <2>5. QED
      BY <1>2, <2>2, <2>3, <2>4
  <1>11. CASE step_.lost \/ ~step_.room
    <2>1. s = T!Saturated(u)
      BY <1>1, <1>3, <1>11 DEF T!FailClosed
    <2>2. /\ TableSound(s) /\ T!Count(s, T!Global) = GlobalLimit + 1
          /\ \A j : j # T!Global => T!Count(s, j) = T!Count(u, j)
          /\ Full(u) => Full(s)
      BY <1>5, <1>7, <2>1, GlobalSaturated
    <2>3. Full(s)
      BY <1>2, <1>3, <1>11, <2>2
    <2>4. Remembers(s, g)
      BY <1>4, <2>2 DEF Remembers
    <2>5. Blames(s, g)
      <3>1. ASSUME NEW j \in T!Dimensions
            PROVE  T!Count(s, j) <= g[j] \/ g[j] = T!Limit(j) \/ (j = T!Global /\ Full(s))
        BY <1>10, <2>2, <2>3
      <3>2. QED
        BY <3>1 DEF Blames
    <2>6. QED
      BY <1>4, <1>8, <2>2, <2>3, <2>4, <2>5
  <1>12. CASE ~step_.lost /\ step_.room
    <2>1. s = u
      BY <1>1, <1>3, <1>12 DEF T!FailClosed
    <2>2. /\ T!Count(u, k) = T!Least(T!Count(t, k) + 1, T!Limit(k) + 1)
          /\ \A j : j # k => T!Count(u, j) = T!Count(t, j)
      BY <1>2, <1>3, <1>12
    <2>3. Remembers(s, g)
      <3>1. CASE T!Count(t, T!Global) >= GlobalLimit
        <4>1. T!Count(u, T!Global) >= GlobalLimit
          <5>1. CASE k = T!Global
            BY <1>4, <1>5, <2>2, <3>1, <5>1 DEF T!Least
          <5>2. CASE k # T!Global
            BY <2>2, <3>1, <5>2
          <5>3. QED
            BY <5>1, <5>2
        <4>2. QED
          BY <2>1, <4>1 DEF Remembers
      <3>2. CASE \A j \in T!Dimensions : T!Count(t, j) >= f[j]
        <4>1. ASSUME NEW j \in T!Dimensions PROVE T!Count(u, j) >= g[j]
          <5>1. CASE j = k
            <6>1. T!Count(t, k) >= f[k]
              BY <3>2
            <6>2. QED
              BY <1>4, <1>5, <1>8, <1>9, <2>2, <5>1, <6>1 DEF T!Least
          <5>2. CASE j # k
            BY <1>8, <2>2, <3>2, <5>2
          <5>3. QED
            BY <5>1, <5>2
        <4>2. QED
          BY <2>1, <4>1 DEF Remembers
      <3>3. QED
        BY <3>1, <3>2 DEF Remembers
    <2>4. Full(t) => Full(s)
      BY <1>2, <1>3, <2>1
    <2>5. Blames(s, g)
      <3>1. T!Count(u, T!Global) <= g[T!Global] \/ g[T!Global] = T!Limit(T!Global) \/ Full(s)
        <4>1. T!Count(t, T!Global) <= f[T!Global] \/ f[T!Global] = T!Limit(T!Global) \/ Full(t)
          BY <1>4 DEF Blames
        <4>2. CASE k = T!Global
          <5>1. T!Count(u, k) = T!Least(T!Count(t, k) + 1, T!Limit(k) + 1)
            BY <2>2
          <5>2. QED
            BY <1>4, <1>5, <1>8, <1>9, <2>4, <4>1, <4>2, <5>1 DEF T!Least
        <4>3. CASE k # T!Global
          BY <1>4, <1>8, <2>2, <2>4, <4>1, <4>3
        <4>4. QED
          BY <4>2, <4>3
      <3>2. QED
        BY <1>10, <2>1, <3>1 DEF Blames
    <2>6. QED
      BY <1>1, <1>5, <1>7, <1>8, <1>12, <2>1, <2>3, <2>4, <2>5
  <1>13. QED
    BY <1>2, <1>11, <1>12

(* record_service_token_failure: three counters, or fewer when the first closes the  *)
(* window.                                                                  *)
LEMMA FailureRecorded ==
    ASSUME NEW t, TableSound(t), window \in 1..MaxWindow, NEW r \in T!Calls,
           NEW f \in Failures, Remembers(t, f), Blames(t, f),
           NEW g, g = [k \in T!Dimensions |-> IF k \in {T!Global, r.source, r.token}
                                              THEN T!Least(f[k] + 1, T!Limit(k)) ELSE f[k]],
           NEW s, s = T!Recorded(t, r)
    PROVE  TableSound(s) /\ g \in Failures /\ Remembers(s, g) /\ Blames(s, g)
  <1>1. /\ r.source \in Sources /\ r.token \in BearerTokens /\ r.source # r.token
        /\ r.source # T!Global /\ r.token # T!Global
        /\ r.source \in T!Dimensions /\ r.token \in T!Dimensions /\ T!Global \in T!Dimensions
    BY TokenConstants DEF T!Calls
  <1>2. GlobalLimit \in Nat /\ GlobalLimit > 0 /\ T!Limit(T!Global) = GlobalLimit
    BY TokenConstants
  <1>3. PICK f1 \in Failures : /\ f1 = Bumped(f, T!Global) /\ f1[T!Global] = T!Least(f[T!Global] + 1, T!Limit(T!Global))
                               /\ \A j \in T!Dimensions : j # T!Global => f1[j] = f[j]
    BY <1>1, BumpedFacts
  <1>4. PICK f2 \in Failures : /\ f2 = Bumped(f1, r.source) /\ f2[r.source] = T!Least(f1[r.source] + 1, T!Limit(r.source))
                               /\ \A j \in T!Dimensions : j # r.source => f2[j] = f1[j]
    BY <1>1, BumpedFacts
  <1>5. PICK f3 \in Failures : /\ f3 = Bumped(f2, r.token) /\ f3[r.token] = T!Least(f2[r.token] + 1, T!Limit(r.token))
                               /\ \A j \in T!Dimensions : j # r.token => f3[j] = f2[j]
    BY <1>1, BumpedFacts
  <1>6. g = f3
    <2>1. f3 \in [T!Dimensions -> Nat]
      BY DEF Failures
    <2>2. ASSUME NEW k \in T!Dimensions PROVE g[k] = f3[k]
      <3>1. g[k] = IF k \in {T!Global, r.source, r.token} THEN T!Least(f[k] + 1, T!Limit(k)) ELSE f[k]
        OBVIOUS
      <3>2. (k = T!Global => f1[k] = T!Least(f[k] + 1, T!Limit(k))) /\ (k # T!Global => f1[k] = f[k])
        BY <1>3
      <3>3. (k = r.source => f2[k] = T!Least(f1[k] + 1, T!Limit(k))) /\ (k # r.source => f2[k] = f1[k])
        BY <1>4
      <3>4. (k = r.token => f3[k] = T!Least(f2[k] + 1, T!Limit(k))) /\ (k # r.token => f3[k] = f2[k])
        BY <1>5
      <3>5. CASE k = T!Global
        BY <1>1, <3>1, <3>2, <3>3, <3>4, <3>5
      <3>6. CASE k = r.source
        BY <1>1, <3>1, <3>2, <3>3, <3>4, <3>6
      <3>7. CASE k = r.token
        BY <1>1, <3>1, <3>2, <3>3, <3>4, <3>7
      <3>8. CASE k \notin {T!Global, r.source, r.token}
        BY <3>1, <3>2, <3>3, <3>4, <3>8
      <3>9. QED
        BY <3>5, <3>6, <3>7, <3>8
    <2>3. QED
      BY <2>1, <2>2
  <1>7. PICK total : total = T!FailClosed(T!Increment(t, T!Global, Sources \cup BearerTokens))
    OBVIOUS
  <1>8. TableSound(total) /\ T!Count(total, T!Global) >= 1 /\ Remembers(total, f1) /\ Blames(total, f1)
    BY <1>1, <1>3, <1>7, Counted
  <1>9. PICK first : first = T!Increment(total, r.source, BearerTokens)
    OBVIOUS
  <1>10. PICK source : source = IF first.room THEN T!FailClosed(first)
                  ELSE T!FailClosed(T!Increment(T!Saturated(total), r.source, Sources))
    OBVIOUS
  <1>11. s = IF T!Count(source, T!Global) > GlobalLimit THEN source
             ELSE T!FailClosed(T!Increment(source, r.token, BearerTokens))
    BY <1>7, <1>9, <1>10 DEF T!Recorded
  <1>12. TableSound(source) /\ T!Count(source, T!Global) >= 1 /\ Remembers(source, f2) /\ Blames(source, f2)
    <2>1. CASE first.room
      <3>1. source = T!FailClosed(T!Increment(total, r.source, BearerTokens))
        BY <1>9, <1>10, <2>1
      <3>2. BearerTokens \in SUBSET (Sources \cup BearerTokens)
        OBVIOUS
      <3>3. QED
        BY <1>1, <1>4, <1>8, <3>1, <3>2, Counted
    <2>2. CASE ~first.room
      <3>1. Full(total)
        BY <1>1, <1>8, <1>9, <2>2, Incremented
      <3>2. PICK u : u = T!Saturated(total)
        OBVIOUS
      <3>3. /\ TableSound(u) /\ T!Count(u, T!Global) = GlobalLimit + 1
            /\ \A j : j # T!Global => T!Count(u, j) = T!Count(total, j)
            /\ Full(u)
        BY <1>8, <3>1, <3>2, GlobalSaturated
      <3>4. T!Count(u, T!Global) >= 1 /\ T!Count(u, T!Global) >= GlobalLimit
        BY <1>2, <3>3
      <3>5. Remembers(u, f1)
        BY <3>4 DEF Remembers
      <3>6. Blames(u, f1)
        BY <1>8, <3>3 DEF Blames
      <3>7. source = T!FailClosed(T!Increment(u, r.source, Sources))
        BY <1>10, <2>2, <3>2
      <3>8. Sources \in SUBSET (Sources \cup BearerTokens)
        OBVIOUS
      <3>9. QED
        BY <1>1, <1>4, <3>3, <3>4, <3>5, <3>6, <3>7, <3>8, Counted
    <2>3. QED
      BY <2>1, <2>2
  <1>13. CASE T!Count(source, T!Global) > GlobalLimit
    <2>1. s = source
      BY <1>11, <1>13
    <2>2. T!Count(source, T!Global) >= GlobalLimit
      BY <1>2, <1>12, <1>13, CountOf
    <2>3. Remembers(s, f3)
      BY <2>1, <2>2 DEF Remembers
    <2>4. Blames(s, f3)
      <3>1. ASSUME NEW j \in T!Dimensions
            PROVE  T!Count(source, j) <= f3[j] \/ f3[j] = T!Limit(j) \/ (j = T!Global /\ Full(source))
        <4>1. T!Count(source, j) <= f2[j] \/ f2[j] = T!Limit(j) \/ (j = T!Global /\ Full(source))
          BY <1>12 DEF Blames
        <4>2. (j = r.token => f3[j] = T!Least(f2[j] + 1, T!Limit(j))) /\ (j # r.token => f3[j] = f2[j])
          BY <1>5
        <4>3. f2[j] \in Nat /\ f2[j] <= T!Limit(j) /\ T!Limit(j) \in Nat /\ T!Count(source, j) \in Nat
          BY <1>12, TokenConstants, CountOf DEF Failures
        <4>4. QED
          BY <4>1, <4>2, <4>3 DEF T!Least
      <3>2. QED
        BY <2>1, <3>1 DEF Blames
    <2>5. QED
      BY <1>6, <1>12, <2>1, <2>3, <2>4
  <1>14. CASE ~(T!Count(source, T!Global) > GlobalLimit)
    <2>1. s = T!FailClosed(T!Increment(source, r.token, BearerTokens))
      BY <1>11, <1>14
    <2>2. BearerTokens \in SUBSET (Sources \cup BearerTokens)
      OBVIOUS
    <2>3. TableSound(s) /\ Remembers(s, f3) /\ Blames(s, f3)
      BY <1>1, <1>5, <1>12, <2>1, <2>2, Counted
    <2>4. QED
      BY <1>6, <2>3
  <1>15. QED
    BY <1>13, <1>14

LEMMA SameCardinality == \A S : T!Cardinality(S) = Cardinality(S)
  BY DEF T!Cardinality, Cardinality, T!IsFiniteSet, IsFiniteSet

(* prune_service_token_failure_buckets: the first rows go, and they are expired.    *)
LEMMA RowsPruned ==
    ASSUME NEW t, TableSound(t), window \in 1..MaxWindow, NEW u, u = T!Pruned(t)
    PROVE  /\ TableSound(u)
           /\ Full(t) => Full(u)
           /\ \A k : T!Count(u, k) = T!Count(t, k)
  <1>1. t \in Seq(T!Buckets) /\ DOMAIN t = 1..Len(t) /\ Len(t) \in Nat /\ MaxRows \in Nat
        /\ Len(t) <= MaxRows /\ PruneBatch \in Nat
    BY TokenConstants DEF TableSound
  <1>2. PICK c : c = Cardinality(T!Expired(t)) /\ c = T!Cardinality(T!Expired(t))
    BY SameCardinality
  <1>3. c \in Nat /\ c <= Len(t) /\ (T!Expired(t) = {} => c = 0)
    <2>1. T!Expired(t) \in SUBSET (1..Len(t))
      BY <1>1 DEF T!Expired
    <2>2. IsFiniteSet(1..Len(t)) /\ Cardinality(1..Len(t)) = Len(t)
      <3>1. 1 \in Int /\ Len(t) \in Int
        BY <1>1
      <3>2. IsFiniteSet(1..Len(t)) /\ Cardinality(1..Len(t)) = IF 1 > Len(t) THEN 0 ELSE Len(t) - 1 + 1
        BY <3>1, FS_Interval
      <3>3. QED
        BY <1>1, <3>2
    <2>3. IsFiniteSet(T!Expired(t)) /\ c <= Len(t)
      BY <1>2, <2>1, <2>2, FS_Subset
    <2>4. QED
      BY <1>2, <2>3, FS_CardinalityType, FS_EmptySet
  <1>4. PICK n \in Nat : n = T!Least(PruneBatch, c) /\ n <= c
    BY <1>1, <1>3 DEF T!Least
  <1>5. PICK kept : kept = SubSeq(t, n + 1, Len(t))
    OBVIOUS
  <1>6. /\ kept \in Seq(T!Buckets) /\ Len(kept) = Len(t) - n /\ DOMAIN kept = 1..(Len(t) - n)
        /\ \A i \in 1..(Len(t) - n) : kept[i] = t[n + i]
    <2>1. n + 1 \in Int /\ Len(t) \in Int /\ \A i \in (n + 1)..Len(t) : t[i] \in T!Buckets
      BY <1>1, <1>4
    <2>2. /\ kept \in Seq(T!Buckets)
          /\ Len(kept) = IF n + 1 <= Len(t) THEN Len(t) - (n + 1) + 1 ELSE 0
          /\ \A i \in 1..(Len(t) - (n + 1) + 1) : kept[i] = t[(n + 1) + i - 1]
      BY <1>5, <2>1, SubSeqProperties
    <2>3. Len(kept) = Len(t) - n
      BY <1>1, <1>3, <1>4, <2>2
    <2>4. ASSUME NEW i \in 1..(Len(t) - n) PROVE kept[i] = t[n + i]
      <3>1. i \in 1..(Len(t) - (n + 1) + 1) /\ (n + 1) + i - 1 = n + i
        BY <1>1, <1>4, <2>4
      <3>2. QED
        BY <2>2, <3>1
    <2>5. DOMAIN kept = 1..Len(kept)
      BY <2>2
    <2>6. QED
      BY <2>2, <2>3, <2>4, <2>5
  <1>7. u = kept
    <2>1. ~(Len(kept) > MaxRows)
      BY <1>1, <1>3, <1>4, <1>6
    <2>2. u = SubSeq(kept, 1, Len(kept))
      <3>1. DEFINE over == IF Len(kept) > MaxRows THEN T!Least(Len(kept) - MaxRows, PruneBatch) ELSE 0
      <3>2. u = SubSeq(kept, over + 1, Len(kept))
        <4>1. T!Least(PruneBatch, T!Cardinality(T!Expired(t))) = n
          BY <1>2, <1>4
        <4>2. kept = SubSeq(t, T!Least(PruneBatch, T!Cardinality(T!Expired(t))) + 1, Len(t))
          BY <1>5, <4>1
        <4>3. PICK m : m = T!Least(PruneBatch, T!Cardinality(T!Expired(t)))
          OBVIOUS
        <4>4. T!Pruned(t) =
                SubSeq(SubSeq(t, m + 1, Len(t)),
                       (IF Len(SubSeq(t, m + 1, Len(t))) > MaxRows
                        THEN T!Least(Len(SubSeq(t, m + 1, Len(t))) - MaxRows, PruneBatch) ELSE 0) + 1,
                       Len(SubSeq(t, m + 1, Len(t))))
          BY <4>3 DEF T!Pruned
        <4>5. kept = SubSeq(t, m + 1, Len(t))
          BY <4>2, <4>3
        <4>6. QED
          BY <4>4, <4>5, Zenon
      <3>3. over + 1 = 1
        BY <2>1
      <3>4. HIDE DEF over
      <3>5. QED
        BY <3>2, <3>3
    <2>3. QED
      BY <1>6, <2>2
  <1>8. ASSUME NEW i \in DOMAIN t, ~(t[i].window < window) PROVE i > n
    <2>1. i \in Nat /\ i >= 1 /\ i <= Len(t)
      BY <1>1
    <2>2. T!Expired(t) \in SUBSET (1..(i - 1))
      <3>1. SUFFICES ASSUME NEW j \in T!Expired(t) PROVE j \in 1..(i - 1)
        OBVIOUS
      <3>2. j \in DOMAIN t /\ t[j].window < window
        BY <3>1 DEF T!Expired
      <3>3. t[i].window \in Nat /\ t[j].window \in Nat /\ window \in Nat
        <4>1. t[i] \in T!Buckets /\ t[j] \in T!Buckets
          BY <3>2 DEF TableSound
        <4>2. QED
          BY <4>1, TokenConstants DEF T!Buckets
      <3>4. j # i /\ ~(i < j)
        <4>1. ~(t[i].window <= t[j].window)
          BY <1>8, <3>2, <3>3
        <4>2. QED
          BY <1>8, <3>2, <4>1 DEF TableSound
      <3>5. QED
        BY <1>1, <2>1, <3>2, <3>4
    <2>3. IsFiniteSet(1..(i - 1)) /\ Cardinality(1..(i - 1)) = i - 1
      <3>1. 1 \in Int /\ i - 1 \in Int
        BY <2>1
      <3>2. IsFiniteSet(1..(i - 1)) /\ Cardinality(1..(i - 1)) = IF 1 > i - 1 THEN 0 ELSE (i - 1) - 1 + 1
        BY <3>1, FS_Interval
      <3>3. QED
        BY <2>1, <3>2
    <2>4. c <= i - 1
      BY <1>2, <2>2, <2>3, FS_Subset
    <2>5. QED
      BY <1>3, <1>4, <2>1, <2>4
  <1>9. TableSound(u)
    <2>1. Len(u) <= MaxRows
      BY <1>1, <1>4, <1>6, <1>7
    <2>2. \A i \in DOMAIN u : n + i \in DOMAIN t /\ u[i] = t[n + i]
      BY <1>1, <1>4, <1>6, <1>7
    <2>3. ASSUME NEW i \in DOMAIN u, NEW j \in DOMAIN u, i < j PROVE u[i].window <= u[j].window
      <3>1. n + i < n + j
        BY <1>4, <1>6, <1>7, <2>3
      <3>2. QED
        BY <2>2, <3>1 DEF TableSound
    <2>4. ASSUME NEW i \in DOMAIN u, NEW j \in DOMAIN u, u[i].key = u[j].key, u[i].window = u[j].window
          PROVE  i = j
      <3>1. n + i = n + j
        BY <2>2, <2>4 DEF TableSound
      <3>2. QED
        BY <1>4, <1>6, <1>7, <3>1
    <2>5. \A i \in DOMAIN u : u[i].window <= window
      BY <2>2 DEF TableSound
    <2>6. QED
      BY <1>6, <1>7, <2>1, <2>3, <2>4, <2>5 DEF TableSound
  <1>10. ASSUME NEW k PROVE T!Count(u, k) = T!Count(t, k)
    <2>1. CASE \E m \in DOMAIN t : t[m].key = k /\ t[m].window = window
      <3>1. PICK m \in DOMAIN t : t[m].key = k /\ t[m].window = window
        BY <2>1
      <3>2. window \in Nat
        BY TokenConstants
      <3>3. m > n
        BY <1>8, <3>1, <3>2
      <3>4. m - n \in DOMAIN u /\ n + (m - n) = m
        BY <1>1, <1>4, <1>6, <1>7, <3>3
      <3>5. u[m - n] = t[m]
        BY <1>6, <1>7, <3>4
      <3>6. u[m - n].key = k /\ u[m - n].window = window
        BY <3>1, <3>5
      <3>7. T!Count(u, k) = u[m - n].count
        BY <1>9, <3>4, <3>6, CountOf
      <3>8. T!Count(t, k) = t[m].count
        BY <3>1, CountOf
      <3>9. QED
        BY <3>5, <3>7, <3>8
    <2>2. CASE \A m \in DOMAIN t : ~(t[m].key = k /\ t[m].window = window)
      <3>1. \A i \in DOMAIN u : n + i \in DOMAIN t /\ u[i] = t[n + i]
        BY <1>1, <1>4, <1>6, <1>7
      <3>2. \A i \in DOMAIN u : ~(u[i].key = k /\ u[i].window = window)
        BY <2>2, <3>1
      <3>3. T!Count(u, k) = 0
        BY <1>9, <3>2, CountOf
      <3>4. T!Count(t, k) = 0
        BY <2>2, CountOf
      <3>5. QED
        BY <3>3, <3>4
    <2>3. QED
      BY <2>1, <2>2
  <1>11. ASSUME Full(t) PROVE Full(u)
    <2>1. T!Expired(t) = {} /\ Len(t) = MaxRows
      BY <1>11 DEF Full
    <2>2. n = 0
      BY <1>3, <1>4, <2>1
    <2>3. Len(u) = MaxRows /\ \A i \in DOMAIN u : i \in DOMAIN t /\ u[i] = t[i]
      BY <1>1, <1>6, <1>7, <2>1, <2>2
    <2>4. T!Expired(u) = {}
      BY <2>1, <2>3 DEF T!Expired
    <2>5. QED
      BY <2>3, <2>4 DEF Full
  <1>12. QED
    BY <1>9, <1>10, <1>11

(* While the window is the same a table is sound, and a counter counts, as before.    *)
LEMMA SameWindow ==
    ASSUME window' = window
    PROVE  /\ TableSound(table') => TableSound(table)'
           /\ \A k : T!Count(table, k)' = T!Count(table', k)
           /\ Full(table') => Full(table)'
           /\ Remembers(table', failed') => Remembers(table, failed)'
           /\ Blames(table', failed') => Blames(table, failed)'
  <1>1. TableSound(table') => TableSound(table)'
    BY DEF TableSound
  <1>2. \A k : T!Count(table, k)' = T!Count(table', k)
    BY DEF T!Count, T!Current
  <1>3. Full(table') => Full(table)'
    BY DEF Full, T!Expired
  <1>4. Remembers(table', failed') => Remembers(table, failed)'
    BY <1>2 DEF Remembers
  <1>5. Blames(table', failed') => Blames(table, failed)'
    BY <1>2, <1>3 DEF Blames
  <1>6. QED
    BY <1>1, <1>2, <1>3, <1>4, <1>5

LEMMA TokenInit == T!Init => TokenInv
  <1>1. SUFFICES ASSUME T!Init PROVE TokenInv
    OBVIOUS
  <1>2. table = <<>> /\ window = 1 /\ checked = {} /\ failed = [k \in T!Dimensions |-> 0]
    BY <1>1 DEF T!Init
  <1>3. TableSound(table)
    BY <1>2, TokenConstants DEF TableSound
  <1>4. \A k : T!Count(table, k) = 0
    BY <1>2 DEF T!Count, T!Current
  <1>5. failed \in Failures
    BY <1>2, TokenConstants DEF Failures
  <1>6. Remembers(table, failed) /\ Blames(table, failed)
    BY <1>2, <1>4 DEF Remembers, Blames
  <1>7. QED
    BY <1>2, <1>3, <1>5, <1>6, TokenConstants DEF TokenInv

LEMMA TokenStep ==
    ASSUME TokenInv, T!Next
    PROVE  TokenInv'
  <1>1. window \in 1..MaxWindow /\ checked \subseteq T!Calls /\ failed \in Failures
        /\ TableSound(table) /\ Remembers(table, failed) /\ Blames(table, failed)
    BY DEF TokenInv
  <1>2. ASSUME NEW r \in T!Calls, T!Check(r) \/ T!Succeed(r) PROVE TokenInv'
    <2>1. table' = table /\ window' = window /\ failed' = failed /\ checked' \subseteq T!Calls
      BY <1>1, <1>2 DEF T!Check, T!Succeed
    <2>2. TableSound(table)' /\ Remembers(table, failed)' /\ Blames(table, failed)'
      BY <1>1, <2>1, SameWindow
    <2>3. QED
      BY <1>1, <2>1, <2>2 DEF TokenInv, Failures
  <1>3. ASSUME NEW r \in T!Calls, T!Fail(r) PROVE TokenInv'
    <2>1. /\ table' = T!Recorded(table, r) /\ window' = window /\ checked' \subseteq T!Calls
          /\ failed' = [k \in T!Dimensions |-> IF k \in {T!Global, r.source, r.token}
                                               THEN T!Least(failed[k] + 1, T!Limit(k)) ELSE failed[k]]
      BY <1>1, <1>3 DEF T!Fail
    <2>2. TableSound(table') /\ failed' \in Failures /\ Remembers(table', failed') /\ Blames(table', failed')
      BY <1>1, <2>1, FailureRecorded
    <2>3. TableSound(table)' /\ Remembers(table, failed)' /\ Blames(table, failed)'
      BY <2>1, <2>2, SameWindow
    <2>4. QED
      BY <1>1, <2>1, <2>2, <2>3 DEF TokenInv, Failures
  <1>4. ASSUME T!Prune PROVE TokenInv'
    <2>1. table' = T!Pruned(table) /\ window' = window /\ checked' = checked /\ failed' = failed
      BY <1>4 DEF T!Prune
    <2>2. TableSound(table') /\ (Full(table) => Full(table')) /\ \A k : T!Count(table', k) = T!Count(table, k)
      BY <1>1, <2>1, RowsPruned
    <2>3. Remembers(table', failed') /\ Blames(table', failed')
      BY <1>1, <2>1, <2>2 DEF Remembers, Blames
    <2>4. TableSound(table)' /\ Remembers(table, failed)' /\ Blames(table, failed)'
      BY <2>1, <2>2, <2>3, SameWindow
    <2>5. QED
      BY <1>1, <2>1, <2>4 DEF TokenInv, Failures
  <1>5. ASSUME T!Tick PROVE TokenInv'
    <2>1. /\ window < MaxWindow /\ window' = window + 1 /\ table' = table /\ checked' = checked
          /\ failed' = [k \in T!Dimensions |-> 0]
      BY <1>5 DEF T!Tick
    <2>2. window' \in 1..MaxWindow
      BY <1>1, <2>1, TokenConstants
    <2>3. \A i \in DOMAIN table : table[i].window \in Nat /\ table[i].window <= window
      <3>1. \A i \in DOMAIN table : table[i] \in T!Buckets
        BY <1>1 DEF TableSound
      <3>2. \A i \in DOMAIN table : table[i].window \in Nat
        BY <3>1, TokenConstants DEF T!Buckets
      <3>3. QED
        BY <1>1, <3>2 DEF TableSound
    <2>4. \A i \in DOMAIN table : table[i].window < window' /\ table[i].window <= window'
      BY <1>1, <2>1, <2>3, TokenConstants
    <2>5. TableSound(table)'
      BY <1>1, <2>1, <2>4 DEF TableSound
    <2>6. \A k : T!Count(table, k)' = 0
      <3>1. \A i \in DOMAIN table : table[i].window # window'
        BY <1>1, <2>1, <2>3, TokenConstants
      <3>2. QED
        BY <2>1, <3>1 DEF T!Count, T!Current
    <2>7. failed' \in Failures
      BY <2>1, TokenConstants DEF Failures
    <2>8. Remembers(table, failed)' /\ Blames(table, failed)'
      BY <2>1, <2>6 DEF Remembers, Blames
    <2>9. QED
      BY <1>1, <2>1, <2>2, <2>5, <2>7, <2>8 DEF TokenInv, Failures
  <1>6. QED
    BY <1>2, <1>3, <1>4, <1>5 DEF T!Next

LEMMA TokenSafe ==
    ASSUME TokenInv
    PROVE  T!TypeOK /\ T!ThrottledAfterLimit /\ T!DeniedForCause
  <1>1. window \in 1..MaxWindow /\ checked \subseteq T!Calls /\ failed \in Failures
        /\ TableSound(table) /\ Remembers(table, failed) /\ Blames(table, failed)
    BY DEF TokenInv
  <1>2. T!TypeOK
    BY <1>1 DEF T!TypeOK, TableSound, Failures
  <1>3. \A k \in T!Dimensions : failed[k] \in Nat /\ failed[k] <= T!Limit(k) /\ T!Limit(k) \in Nat
                                  /\ T!Count(table, k) \in Nat
    BY <1>1, TokenConstants, CountOf DEF Failures
  <1>4. ASSUME NEW r \in T!Calls PROVE {T!Global, r.source, r.token} \subseteq T!Dimensions
    BY TokenConstants DEF T!Calls
  <1>5. T!Limit(T!Global) = GlobalLimit
    BY TokenConstants
  <1>6. T!ThrottledAfterLimit
    <2>1. SUFFICES ASSUME NEW r \in T!Calls, NEW k \in {T!Global, r.source, r.token}, failed[k] >= T!Limit(k)
                   PROVE  T!Denied(table, r)
      BY DEF T!ThrottledAfterLimit
    <2>2. CASE T!Count(table, T!Global) >= GlobalLimit
      BY <1>5, <2>2 DEF T!Denied
    <2>3. CASE \A j \in T!Dimensions : T!Count(table, j) >= failed[j]
      <3>1. T!Count(table, k) >= T!Limit(k)
        BY <1>3, <1>4, <2>1, <2>3
      <3>2. QED
        BY <2>1, <3>1 DEF T!Denied
    <2>4. QED
      BY <1>1, <2>2, <2>3 DEF Remembers
  <1>7. T!DeniedForCause
    <2>1. SUFFICES ASSUME NEW r \in T!Calls, T!Denied(table, r)
                   PROVE  \/ \E k \in {T!Global, r.source, r.token} : failed[k] >= T!Limit(k)
                          \/ Len(table) = MaxRows /\ T!Expired(table) = {}
      BY DEF T!DeniedForCause
    <2>2. PICK k \in {T!Global, r.source, r.token} : T!Count(table, k) >= T!Limit(k)
      BY <2>1 DEF T!Denied
    <2>3. k \in T!Dimensions
      BY <1>4, <2>1
    <2>4. T!Count(table, k) <= failed[k] \/ failed[k] = T!Limit(k) \/ Full(table)
      BY <1>1, <2>3 DEF Blames
    <2>5. failed[k] >= T!Limit(k) \/ Full(table)
      BY <1>3, <2>2, <2>3, <2>4
    <2>6. QED
      BY <2>2, <2>5 DEF Full
  <1>8. QED
    BY <1>2, <1>6, <1>7

-----------------------------------------------------------------------------
(* PrincipalAdministration is the same in the module that is run and in the proofs   *)
(* about it.                                                                *)

LEMMA SamePrincipals ==
    /\ P!ConstantsSound = PP!ConstantsSound /\ P!TypeOK = PP!TypeOK
    /\ P!AuthorityKept = PP!AuthorityKept /\ P!GatesHold = PP!GatesHold
  <1>1. P!ConstantsSound = PP!ConstantsSound
    BY DEF P!Principals, PP!Principals, P!Keyed, PP!Keyed, P!Gated, PP!Gated, P!Managed,
           PP!Managed, P!Cli, PP!Cli, P!CanBeAbout, PP!CanBeAbout, P!Jobs, PP!Jobs,
           P!ConstantsSound, PP!ConstantsSound
  <1>2. P!TypeOK = PP!TypeOK
    BY DEF P!Principals, PP!Principals, P!Revisions, PP!Revisions, P!Rows, PP!Rows, P!Absent,
           PP!Absent, P!Tokens, PP!Tokens, P!Sessions, PP!Sessions, P!Keyed, PP!Keyed,
           P!TypeOK, PP!TypeOK
  <1>3. P!AuthorityKept = PP!AuthorityKept
    BY DEF P!Principals, PP!Principals, P!ActiveAdmin, PP!ActiveAdmin, P!AuthorityKept,
           PP!AuthorityKept
  <1>4. P!GatesHold = PP!GatesHold
    BY DEF P!Principals, PP!Principals, P!ActiveOwner, PP!ActiveOwner, P!RetryReplayed,
           PP!RetryReplayed, P!ActiveAdmin, PP!ActiveAdmin, P!Dual, PP!Dual,
           P!ThroughTheGate, PP!ThroughTheGate, P!Keyed, PP!Keyed, P!CredentialsGuarded,
           PP!CredentialsGuarded, P!GatesHold, PP!GatesHold
  <1>5. QED
    BY <1>1, <1>2, <1>3, <1>4

LEMMA SameCommands == P!Init = PP!Init /\ P!Next = PP!Next
  <1>1. P!Init = PP!Init
    BY DEF P!Principals, PP!Principals, P!Absent, PP!Absent, P!Unread, PP!Unread, P!ActiveAdmin,
           PP!ActiveAdmin, P!Init, PP!Init
  <1>2. P!Next = PP!Next
    BY DEF P!Logout, PP!Logout, P!stored, PP!stored, P!Absent, PP!Absent, P!Keyed, PP!Keyed,
           P!Gated, PP!Gated, P!Managed, PP!Managed, P!Arrive, PP!Arrive, P!Principals,
           PP!Principals, P!ActiveOwner, PP!ActiveOwner, P!LocksRows, PP!LocksRows,
           P!Locking, PP!Locking, P!Wanted, PP!Wanted, P!Held, PP!Held, P!Free, PP!Free,
           P!Unread, PP!Unread, P!Finish, PP!Finish, P!Refuse, PP!Refuse, P!ActorRow,
           PP!ActorRow, P!ActiveAdmin, PP!ActiveAdmin, P!Dual, PP!Dual, P!DualHuman,
           PP!DualHuman, P!Reauthenticated, PP!Reauthenticated, P!MayAdministerCredentials,
           PP!MayAdministerCredentials, P!Authorized, PP!Authorized, P!OtherAdmin,
           PP!OtherAdmin, P!OtherOwner, PP!OtherOwner, P!Sound, PP!Sound, P!SoundToken,
           PP!SoundToken, P!Decide, PP!Decide, P!Decided, PP!Decided, P!TriggersAllow,
           PP!TriggersAllow, P!Claims, PP!Claims, P!Advanced, PP!Advanced, P!WriteRow,
           PP!WriteRow, P!Fail, PP!Fail, P!SetRow, PP!SetRow, P!CreatePrincipal,
           PP!CreatePrincipal, P!Revoked, PP!Revoked, P!AllIds, PP!AllIds,
           P!CredentialsEnd, PP!CredentialsEnd, P!UpdatePrincipal, PP!UpdatePrincipal,
           P!SetCatalogRole, PP!SetCatalogRole, P!SetProjectCreator, PP!SetProjectCreator,
           P!NewPassword, PP!NewPassword, P!ResetPassword, PP!ResetPassword, P!CliPassword,
           PP!CliPassword, P!CliDeactivate, PP!CliDeactivate, P!CliPromote, PP!CliPromote,
           P!NewValue, PP!NewValue, P!RecordOf, PP!RecordOf, P!SameRequest, PP!SameRequest,
           P!IssueManagedToken, PP!IssueManagedToken, P!RevokeToken, PP!RevokeToken,
           P!CliToken, PP!CliToken, P!Login, PP!Login, P!Step, PP!Step, P!Next, PP!Next,
           P!Cardinality, PP!Cardinality, P!IsFiniteSet, PP!IsFiniteSet
  <1>3. QED
    BY <1>1, <1>2

-----------------------------------------------------------------------------
(* The component at work keeps its invariant.                                   *)
PartInv ==
    /\ part = "monitoring" => ResultInv
    /\ part = "principals" => PP!Inv
    /\ part = "tokens" => TokenInv
    /\ part = "releases" => ReleaseInv

LEMMA PartInit == ASSUME MCInit PROVE PartInv
  <1>1. CASE part = "monitoring" /\ Init
    BY <1>1, ResultInit DEF PartInv
  <1>2. CASE part = "principals" /\ P!Init
    <2>1. PP!ConstantsSound /\ PP!Init
      BY <1>2, CommandsAssumption, SamePrincipals, SameCommands
    <2>2. PP!Inv
      BY <2>1, PP!InitInv
    <2>3. QED
      BY <1>2, <2>2 DEF PartInv
  <1>3. CASE part = "tokens" /\ T!Init
    BY <1>3, TokenInit DEF PartInv
  <1>4. CASE part = "releases" /\ R!Init
    BY <1>4, ReleaseInit DEF PartInv
  <1>5. QED
    BY <1>1, <1>2, <1>3, <1>4 DEF MCInit

LEMMA PartStep == ASSUME PartInv, [MCNext]_allVars PROVE PartInv'
  <1>1. part' = part
    BY DEF MCNext, allVars
  <1>2. ASSUME part = "monitoring" PROVE ResultInv'
    <2>1. [Next]_vars
      BY <1>2 DEF MCNext, allVars
    <2>2. ResultInv
      BY <1>2 DEF PartInv
    <2>3. QED
      BY <2>1, <2>2, TypeStep, TargetStep, ValidatedStep DEF ResultInv
  <1>3. ASSUME part = "principals" PROVE PP!Inv'
    <2>1. P!Next \/ UNCHANGED principalVars
      BY <1>3 DEF MCNext, allVars
    <2>2. [PP!Next]_PP!vars
      BY <2>1, SameCommands DEF PP!vars, PP!stored, principalVars
    <2>3. PP!Inv /\ PP!ConstantsSound
      BY <1>3, CommandsAssumption, SamePrincipals DEF PartInv
    <2>4. QED
      BY <2>2, <2>3, PP!NextInv
  <1>4. ASSUME part = "tokens" PROVE TokenInv'
    <2>1. TokenInv
      BY <1>4 DEF PartInv
    <2>2. T!Next \/ UNCHANGED tokenVars
      BY <1>4 DEF MCNext, allVars
    <2>3. CASE UNCHANGED tokenVars
      <3>1. table' = table /\ window' = window /\ checked' = checked /\ failed' = failed
        BY <2>3 DEF tokenVars
      <3>2. TableSound(table)' /\ Remembers(table, failed)' /\ Blames(table, failed)'
        BY <2>1, <3>1, SameWindow DEF TokenInv
      <3>3. QED
        BY <2>1, <3>1, <3>2 DEF TokenInv, Failures
    <2>4. QED
      BY <2>1, <2>2, <2>3, TokenStep
  <1>5. ASSUME part = "releases" PROVE ReleaseInv'
    <2>1. ReleaseInv
      BY <1>5 DEF PartInv
    <2>2. R!Next \/ UNCHANGED releaseVars
      BY <1>5 DEF MCNext, allVars
    <2>3. CASE UNCHANGED releaseVars
      BY <2>1, <2>3 DEF releaseVars, ReleaseInv, R!TypeOK, ReadingsDated, ChecksHold, CooledDown,
         CheckHolds, R!Checking, R!Matches, AnswersInOrder, InTime, Answered
    <2>4. QED
      BY <2>1, <2>2, <2>3, ReleaseStep
  <1>6. QED
    BY <1>1, <1>2, <1>3, <1>4, <1>5 DEF PartInv

LEMMA PartsAlways == MCSpec => []PartInv
  <1>1. MCInit => PartInv
    BY PartInit
  <1>2. PartInv /\ [MCNext]_allVars => PartInv'
    BY PartStep
  <1>3. QED
    BY <1>1, <1>2, PTL DEF MCSpec

(* Who may not get in does not, and nobody else is kept out: an administrator     *)
(* remains, dead credentials stay dead, who reached a failure limit passes the      *)
(* check no more in this window, and who is denied has reached one, unless the      *)
(* table is full; for any number of principals, commands, sources and tokens and     *)
(* any limits, at every overlap, eviction and pruning.                            *)
THEOREM AccessGuardedHolds == MCSpec => []AccessGuarded
  <1>1. ASSUME PartInv PROVE AccessGuarded
    <2>1. part = "monitoring" => TypeOK
      BY <1>1 DEF PartInv, ResultInv
    <2>2. part = "principals" => P!TypeOK /\ P!AuthorityKept
      <3>1. PP!Inv => PP!TypeOK /\ PP!AuthorityKept
        BY DEF PP!Inv, PP!AdminLeft, PP!ValuesUnique, PP!SessionsSound, PP!AuthorityKept
      <3>2. QED
        BY <1>1, <3>1, SamePrincipals DEF PartInv
    <2>3. part = "tokens" => T!TypeOK /\ T!ThrottledAfterLimit /\ T!DeniedForCause
      BY <1>1, TokenSafe DEF PartInv
    <2>4. part = "releases" => R!TypeOK
      BY <1>1 DEF PartInv, ReleaseInv
    <2>5. QED
      BY <2>1, <2>2, <2>3, <2>4 DEF AccessGuarded
  <1>2. QED
    BY <1>1, PartsAlways, PTL

(* The gates of GatesAlwaysHold, in the specification that is run.                   *)
THEOREM GatesHoldAlways == MCSpec => GatesHold
  <1>1. PartInv /\ [MCNext]_allVars => [part = "principals" => P!GatesHold]_principalVars
    <2>1. SUFFICES ASSUME PartInv, [MCNext]_allVars, part = "principals", ~UNCHANGED principalVars
                   PROVE  P!GatesHold
      OBVIOUS
    <2>2. P!Next
      BY <2>1 DEF MCNext, allVars
    <2>3. [PP!Next]_PP!vars
      BY <2>2, SameCommands
    <2>4. PP!Inv /\ PP!ConstantsSound
      BY <2>1, CommandsAssumption, SamePrincipals DEF PartInv
    <2>5. [PP!GatesHold]_PP!vars
      BY <2>3, <2>4, PP!GateStep
    <2>6. ~UNCHANGED PP!vars
      BY <2>1 DEF PP!vars, PP!stored, principalVars
    <2>7. QED
      BY <2>5, <2>6, SamePrincipals
  <1>2. QED
    BY <1>1, PartsAlways, PTL DEF MCSpec, GatesHold

(* Of every step of release checks: two run under leases that have not expired only    *)
(* when reconciliation deleted a claimed one; an older answer replaces a newer one of    *)
(* the same target only when the newer came after the worker's reading, which a poller    *)
(* makes before the request, and its lease did not keep the newer away: it has run out,   *)
(* a claimed one was deleted, or a check asked after its own; and a user's check asks    *)
(* within the cooldown only when the earlier answer came after its look.             *)
THEOREM ReleaseChecksStayOrdered == MCSpec => ReleaseChecksOrdered
  <1>1. PartInv /\ [MCNext]_allVars => [part = "releases" => R!ChecksOrdered]_releaseVars
    <2>1. SUFFICES ASSUME PartInv, [MCNext]_allVars, part = "releases", ~UNCHANGED releaseVars
                   PROVE  R!ChecksOrdered
      OBVIOUS
    <2>2. R!Next
      BY <2>1 DEF MCNext, allVars
    <2>3. ReleaseInv
      BY <2>1 DEF PartInv
    <2>4. QED
      BY <2>2, <2>3, OrderStep
  <1>2. QED
    BY <1>1, PartsAlways, PTL DEF MCSpec, ReleaseChecksOrdered
=============================================================================
