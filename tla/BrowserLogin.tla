----------------------------- MODULE BrowserLogin -----------------------------
(***************************************************************************)
(* Password logins at /auth (ui/auth.py) under the limits of LoginProtector    *)
(* (services/login_protection.py): sliding-window limits per process, source   *)
(* and account, a bounded number of logins at work, and a login challenge      *)
(* that a page hands out and a login consumes (services/identity.py).         *)
(*                                                                         *)
(* A login is admitted, reads its challenge, marks it used and commits, then   *)
(* verifies the password in a second transaction; any of these may raise.  An *)
(* unused challenge is read without a lock on either database.               *)
(***************************************************************************)
EXTENDS Naturals, Sequences, FiniteSets

CONSTANTS Threads, Sources, Accounts,
          Window,            \* window_seconds
          SourceLimit, AccountLimit, GlobalLimit, ChallengeLimit,
          Slots,             \* max_password_concurrency
          ChallengeTtl,
          MaxClock, MaxChallenges,  \* bounds
          Nobody

VARIABLES clock,
          attempts,    \* _attempt_global, _attempt_sources, _attempt_accounts: one log
          handedOut,   \* _challenge_global and _challenge_sources: one log
          challenges,  \* id -> [state, expires]
          login,       \* Threads -> the login it serves, or Nobody
          at,          \* Threads -> where it is
          slots,       \* free slots of _password_slots
          verified,    \* history: time and account of every password verification
          signedIn     \* history: challenge of every session issued

vars == <<clock, attempts, handedOut, challenges, login, at, slots, verified, signedIn>>

Ids == 1..MaxChallenges

NoChallenge == [state |-> "none", expires |-> 0]

Logins == [source: Sources, account: Accounts, challenge: Ids]

(* What the proofs about this module assume of its constants.                   *)
ConstantsSound ==
    /\ IsFiniteSet(Threads) /\ Nobody \notin Logins
    /\ {Window, SourceLimit, AccountLimit, GlobalLimit, ChallengeLimit, Slots} \subseteq Nat \ {0}
    /\ {ChallengeTtl, MaxClock, MaxChallenges} \subseteq Nat

TypeOK ==
    /\ clock \in 0..MaxClock
    /\ attempts \subseteq [time: 0..MaxClock, n: Nat, source: Sources, account: Accounts]
    /\ handedOut \subseteq [time: 0..MaxClock, n: Nat, source: Sources]
    /\ challenges \in [Ids -> [state: {"none", "fresh", "used", "deleted"}, expires: Nat]]
    /\ login \in [Threads -> Logins \cup {Nobody}]
    /\ at \in [Threads -> {"idle", "admitted", "valid", "refused", "consumed"}]
    /\ slots = Slots - Cardinality({t \in Threads : at[t] # "idle"})
    /\ slots >= 0
    /\ verified \in Seq([time: 0..MaxClock, account: Accounts])
    /\ signedIn \in Seq(Ids)

Init ==
    /\ clock = 0
    /\ attempts = {} /\ handedOut = {}
    /\ challenges = [c \in Ids |-> NoChallenge]
    /\ login = [t \in Threads |-> Nobody]
    /\ at = [t \in Threads |-> "idle"]
    /\ slots = Slots
    /\ verified = <<>> /\ signedIn = <<>>

-----------------------------------------------------------------------------
(* _purge: entries as old as the window are gone.  Those of one instant have numbers. *)
Live(log) == {e \in log : e.time + Window > clock}

From(log, s) == {e \in log : e.source = s}

For(log, a) == {e \in log : e.account = a}

NextNumber(log) == Cardinality({e \in log : e.time = clock}) + 1

(* allow_challenge                                                          *)
ChallengeAllowed(s) ==
    /\ Cardinality(Live(handedOut)) < ChallengeLimit
    /\ Cardinality(From(Live(handedOut), s)) < SourceLimit

Unissued == {c \in Ids : challenges[c].state = "none"}

(* issue_login_challenge deletes the used and the expired ones first.         *)
Issued(table) ==
    LET new == CHOOSE c \in Unissued : \A d \in Unissued : c <= d
    IN  [c \in Ids |->
            IF c = new THEN [state |-> "fresh", expires |-> clock + ChallengeTtl]
            ELSE IF table[c].state = "used" \/ (table[c].state = "fresh" /\ table[c].expires <= clock)
                 THEN [table[c] EXCEPT !.state = "deleted"]
                 ELSE table[c]]

(* A challenge for s goes out when s may have one, none otherwise.            *)
Replace(s, table) ==
    IF ChallengeAllowed(s) /\ Unissued # {}
    THEN /\ handedOut' = Live(handedOut) \cup {[time |-> clock, n |-> NextNumber(handedOut), source |-> s]}
         /\ challenges' = Issued(table)
    ELSE /\ handedOut' = Live(handedOut)
         /\ challenges' = table

(* auth_page, for a browser without a session                                *)
Page(s) ==
    /\ ChallengeAllowed(s) /\ Unissued # {}
    /\ Replace(s, challenges)
    /\ UNCHANGED <<clock, attempts, login, at, slots, verified, signedIn>>

(* Seeded fault: accounts have no limit.                                    *)
AnyAccount(l) ==
    /\ Cardinality(Live(attempts)) < GlobalLimit
    /\ Cardinality(From(Live(attempts), l.source)) < SourceLimit

Admissible(l) ==
    /\ Cardinality(Live(attempts)) < GlobalLimit
    /\ Cardinality(From(Live(attempts), l.source)) < SourceLimit
    /\ Cardinality(For(Live(attempts), l.account)) < AccountLimit

(* acquire_password_attempt: the attempt counts, also when no slot is free.    *)
Acquire(t, l) ==
    /\ at[t] = "idle"
    /\ challenges[l.challenge].state # "none"
    /\ IF Admissible(l)
       THEN /\ attempts' = Live(attempts) \cup
                    {[time |-> clock, n |-> NextNumber(attempts), source |-> l.source, account |-> l.account]}
            /\ IF slots > 0
               THEN /\ slots' = slots - 1
                    /\ login' = [login EXCEPT ![t] = l]
                    /\ at' = [at EXCEPT ![t] = "admitted"]
               ELSE UNCHANGED <<login, at, slots>>
       ELSE attempts' = Live(attempts) /\ UNCHANGED <<login, at, slots>>
    /\ UNCHANGED <<clock, handedOut, challenges, verified, signedIn>>

(* LoginAttemptLease.__exit__, on every way out                              *)
Leave(t) ==
    /\ at' = [at EXCEPT ![t] = "idle"]
    /\ login' = [login EXCEPT ![t] = Nobody]
    /\ slots' = slots + 1

(* Seeded fault: a used challenge will do.                                   *)
Unexpired(c) == c.state # "none" /\ c.expires > clock

Usable(c) == c.state = "fresh" /\ c.expires > clock

(* consume_login_challenge, its read                                         *)
ReadChallenge(t) ==
    /\ at[t] = "admitted"
    /\ at' = [at EXCEPT ![t] = IF Usable(challenges[login[t].challenge]) THEN "valid" ELSE "refused"]
    /\ UNCHANGED <<clock, attempts, handedOut, challenges, login, slots, verified, signedIn>>

(* Its write, by primary key: a row that was deleted meanwhile raises.        *)
Consume(t) ==
    /\ at[t] = "valid"
    /\ IF challenges[login[t].challenge].state = "deleted"
       THEN Leave(t) /\ UNCHANGED challenges
       ELSE /\ challenges' = [challenges EXCEPT ![login[t].challenge].state = "used"]
            /\ at' = [at EXCEPT ![t] = "consumed"]
            /\ UNCHANGED <<login, slots>>
    /\ UNCHANGED <<clock, attempts, handedOut, verified, signedIn>>

(* An invalid challenge: another one, if the source may have it.              *)
Reject(t) ==
    /\ at[t] = "refused"
    /\ Replace(login[t].source, challenges)
    /\ Leave(t)
    /\ UNCHANGED <<clock, attempts, verified, signedIn>>

(* authenticate_password: a session, or another challenge.                   *)
Authenticate(t) ==
    /\ at[t] = "consumed"
    /\ verified' = Append(verified, [time |-> clock, account |-> login[t].account])
    /\ \/ signedIn' = Append(signedIn, login[t].challenge) /\ UNCHANGED <<handedOut, challenges>>
       \/ Replace(login[t].source, challenges) /\ UNCHANGED signedIn
    /\ Leave(t)
    /\ UNCHANGED <<clock, attempts>>

(* A transaction raises: the database is locked, say.                        *)
Raise(t) ==
    /\ at[t] # "idle"
    /\ Leave(t)
    /\ UNCHANGED <<clock, attempts, handedOut, challenges, verified, signedIn>>

Tick ==
    /\ clock < MaxClock
    /\ clock' = clock + 1
    /\ UNCHANGED <<attempts, handedOut, challenges, login, at, slots, verified, signedIn>>

(* Seeded fault: a refused login hangs.                                     *)
ServeValid(t) == ReadChallenge(t) \/ Consume(t) \/ Authenticate(t)

Serve(t) == ReadChallenge(t) \/ Consume(t) \/ Reject(t) \/ Authenticate(t)

Next ==
    \/ \E s \in Sources : Page(s)
    \/ \E t \in Threads : (\E l \in Logins : Acquire(t, l)) \/ Serve(t) \/ Raise(t)
    \/ Tick

(* Threads run.                                                             *)
Spec == Init /\ [][Next]_vars /\ \A t \in Threads : WF_vars(Serve(t))

-----------------------------------------------------------------------------
(* Password work is bounded: within any window, an account's password is       *)
(* verified at most as often as its limit says and once more for every slot:   *)
(* a login that was admitted before the window may take its time.            *)
VerificationsBounded ==
    \A a \in Accounts : \A from \in 0..MaxClock :
        LET within == {i \in DOMAIN verified : verified[i].account = a /\ verified[i].time \in from..(from + Window - 1)}
        IN  Cardinality(within) <= AccountLimit + Slots

(* However logins end, their slots come back.                               *)
SlotsComeBack == []<>(slots > 0)

(* A challenge lets in as many logins as there are slots at the most: it is     *)
(* meant for one, but all that read it before the first has marked it get in.  *)
ChallengesLetFewIn ==
    \A c \in Ids : Cardinality({i \in DOMAIN signedIn : signedIn[i] = c}) <= Slots
=============================================================================
