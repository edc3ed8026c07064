-------------------------- MODULE IdempotencyContract --------------------------
(***************************************************************************)
(* What an Idempotency-Key promises a client of one principal's writes       *)
(* (docs/api-v1.md, "POST .../children" and "comments"), with every command  *)
(* one atomic step: while its key is remembered a request runs once, a        *)
(* repetition answers with what the first run made as long as that still      *)
(* exists, and another request with the key is refused.                      *)
(***************************************************************************)
EXTENDS Naturals

CONSTANTS Attempts,  \* requests received, retries included
          Keys,
          Requests,  \* [op, body]: what a request asks for, canonically
          Nothing

VARIABLES object,    \* the object's incarnation, or 0 when it does not exist
          comments,  \* [id, instance, body]
          minted,    \* IDs handed out so far, to incarnations and to comments
          memory,    \* Keys -> [request, instance, result], or Nothing
          job,       \* Attempts -> [key, request]
          answer     \* Attempts -> the answer sent, or Nothing

vars == <<object, comments, minted, memory, job, answer>>

Init ==
    /\ object \in {0, 1}
    /\ comments = {}
    /\ minted = 1
    /\ memory = [k \in Keys |-> Nothing]
    /\ job \in [Attempts -> [key: Keys, request: Requests]]
    /\ answer = [a \in Attempts |-> Nothing]

Reply(a, kind, result) == answer' = [answer EXCEPT ![a] = [kind |-> kind, result |-> result]]

Remembered(a) == memory[job[a].key]

(* What was made: a comment stays with its incarnation, an object must be    *)
(* the same incarnation still.                                              *)
StillThere(memo) ==
    IF memo.request.op = "create" THEN object = memo.result ELSE object = memo.instance

Repeat(a) ==
    /\ Remembered(a) # Nothing
    /\ Remembered(a).request = job[a].request
    /\ StillThere(Remembered(a))
    /\ Reply(a, "replayed", Remembered(a).result)
    /\ UNCHANGED <<object, comments, minted, memory, job>>

(* Another use of the key, something replaced since, or an ID that is taken.  *)
Conflict(a) ==
    /\ IF Remembered(a) # Nothing
       THEN Remembered(a).request # job[a].request \/ ~StillThere(Remembered(a))
       ELSE job[a].request.op = "create" /\ object # 0
    /\ Reply(a, "conflict", 0)
    /\ UNCHANGED <<object, comments, minted, memory, job>>

NotFound(a) ==
    /\ IF job[a].request.op = "comment"
       THEN object = 0
       ELSE Remembered(a) # Nothing /\ ~StillThere(Remembered(a))
    /\ Reply(a, "not found", 0)
    /\ UNCHANGED <<object, comments, minted, memory, job>>

Remember(a, instance) ==
    memory' = [memory EXCEPT ![job[a].key] =
                  [request |-> job[a].request, instance |-> instance, result |-> minted + 1]]

Create(a) ==
    /\ Remembered(a) = Nothing
    /\ job[a].request.op = "create"
    /\ object = 0
    /\ object' = minted + 1
    /\ minted' = minted + 1
    /\ Remember(a, minted + 1)
    /\ Reply(a, "done", minted + 1)
    /\ UNCHANGED <<comments, job>>

Comment(a) ==
    /\ Remembered(a) = Nothing
    /\ job[a].request.op = "comment"
    /\ object # 0
    /\ comments' = comments \cup {[id |-> minted + 1, instance |-> object, body |-> job[a].request.body]}
    /\ minted' = minted + 1
    /\ Remember(a, object)
    /\ Reply(a, "done", minted + 1)
    /\ UNCHANGED <<object, job>>

Serve(a) ==
    /\ answer[a] = Nothing
    /\ \/ Repeat(a)
       \/ Create(a)
       \/ Comment(a)
       \/ Conflict(a)
       \/ NotFound(a)

(* The time a key is remembered is over, and what others do to the object.   *)
Forget(k) ==
    /\ memory[k] # Nothing
    /\ memory' = [memory EXCEPT ![k] = Nothing]
    /\ UNCHANGED <<object, comments, minted, job, answer>>

DeleteObject ==
    /\ object # 0
    /\ object' = 0
    /\ UNCHANGED <<comments, minted, memory, job, answer>>

RecreateObject ==
    /\ object = 0
    /\ object' = minted + 1
    /\ minted' = minted + 1
    /\ UNCHANGED <<comments, memory, job, answer>>

Next ==
    \/ \E a \in Attempts : Serve(a)
    \/ \E k \in Keys : Forget(k)
    \/ DeleteObject
    \/ RecreateObject

Spec == Init /\ [][Next]_vars
=============================================================================
