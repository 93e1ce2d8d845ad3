------------------------------ MODULE Service ------------------------------
(***************************************************************************)
(* The user's side of the program: uploads that cost quota (Account), keys *)
(* that the runs need (Credentials), and the runs themselves as far as     *)
(* either is concerned: what they ask of the provider, where they pause,   *)
(* and the quota mark_failed gives back.                                   *)
(*                                                                         *)
(* A run is short here: the preflight, the stages before translation, the  *)
(* call of the translation provider, and the end.  Locks, generations and  *)
(* redelivery are TaskRun's subject; here a message is taken once.         *)
(***************************************************************************)
EXTENDS Account, Credentials

CONSTANTS Bounds        (* what behaviours may hold: which uploads take part, how many steps go wrong, which
                           key the deployment has, and how many keys are saved, revocations and
                           pauses come                                          *)

ASSUME ServiceAssumption ==
    /\ Bounds \subseteq [uploads : SUBSET Uploads, errors : Nat, system : Keys \cup {NoKey},
                         saves : 0 .. MaxKeys, revoked : Nat, pauses : Nat]
    /\ \A b \in Bounds : b.system + b.saves <= MaxKeys

VARIABLES
    run,        \* the run of each task: its step, the stage its message names, the key that
                \* was asked for at the preflight, and monthly_used as mark_failed has read it
    pauses      \* how many more pauses the owner may ask for

vars == <<account, credentials, run, pauses>>

\* The stages that differ in what their preflight asks for: a run from the start asks for all it
\* will need; one resumed at an earlier stage only for that stage's own provider.
Start == {"preparing", "earlier", "translating"}
NoRun == [pc |-> "none", start |-> "preparing", key |-> NoKey, seen |-> 0]

TypeOK ==
    /\ AccountTypeOK
    /\ CredentialsTypeOK
    /\ run \in [Uploads -> [pc : {"none", "preflight", "probing", "stages", "call", "refunding"},
                            start : Start, key : Keys \cup {NoKey}, seen : 0 .. Quota]]
    /\ pauses \in Nat

Init ==
    /\ \E b \in Bounds : /\ AccountInit(b.uploads, b.errors)
                         /\ CredentialsInit(b.system, b.saves, b.revoked)
                         /\ pauses = b.pauses
    /\ run = [u \in Uploads |-> NoRun]

-----------------------------------------------------------------------------
Running(u, pc) == run[u].pc = pc
Locked(u) == Running(u, "refunding")
Proceeds(u, pc) == run' = [run EXCEPT ![u].pc = pc]

\* A run that stops keeps the stage it is to be resumed from.
Stops(u, start) == run' = [run EXCEPT ![u] = [NoRun EXCEPT !.start = start]]

\* A status is written only to a row that is still there.
SetStatus(u, status) == task' = [task EXCEPT ![u] = IF @ = "gone" THEN @ ELSE status]

TakeMessage(u) ==
    /\ u \in queue /\ Running(u, "none")
    /\ queue' = queue \ {u}
    /\ IF task[u] = "pending"
       THEN SetStatus(u, "processing") /\ Proceeds(u, "preflight")
       ELSE UNCHANGED <<task, run>>
    /\ UNCHANGED <<used, req, objects, resumed, stale, broken, errors, credentials, pauses>>

\* mark_paused names the stage.
Pauses(u, start) == SetStatus(u, "paused") /\ Stops(u, start)

AsksForKey(u) == run[u].start \in {"preparing", "translating"}

Preflight(u) ==
    /\ Running(u, "preflight")
    /\ \/ /\ ~AsksForKey(u)
          /\ Proceeds(u, "stages")
          /\ UNCHANGED task
       \/ /\ AsksForKey(u) /\ Resolve = NoKey
          /\ Pauses(u, run[u].start)
       \/ /\ AsksForKey(u) /\ Resolve # NoKey
          /\ run' = [run EXCEPT ![u] = [@ EXCEPT
                        !.key = Resolve,
                        !.pc = IF Trusts("worker", Resolve) THEN "stages" ELSE "probing"]]
          /\ UNCHANGED task
    /\ UNCHANGED <<used, req, objects, queue, resumed, stale, broken, errors, credentials, pauses>>

\* A probe that fails in whatever way pauses the task.
ProbeAnswered(u) ==
    /\ Running(u, "probing")
    /\ \/ /\ Accepts("worker", run[u].key)
          /\ Proceeds(u, "stages")
          /\ UNCHANGED task
       \/ /\ Pauses(u, run[u].start)
          /\ UNCHANGED <<accepted, cache>>
    /\ UNCHANGED <<used, req, objects, queue, resumed, stale, broken, errors,
                   record, verify, valid, system, saved, overtaken, revoked, pauses>>

\* The stages before translation, with the owner's pause at one of their boundaries.
EarlierStages(u) ==
    /\ Running(u, "stages")
    /\ \/ /\ Proceeds(u, "call")
          /\ UNCHANGED <<task, pauses>>
       \/ /\ run[u].start # "translating" /\ pauses > 0
          /\ pauses' = pauses - 1
          /\ Pauses(u, "earlier")
    /\ UNCHANGED <<used, req, objects, queue, resumed, stale, broken, errors, credentials>>

\* The translation stage resolves the key again, and a key that is missing or refused pauses the
\* task there.  What follows does not need it; mark_completed's clean-up deletes the source.
CallProvider(u) ==
    /\ Running(u, "call")
    /\ \/ /\ Resolve \in valid
          /\ accepted' = accepted \cup {Resolve}
          /\ SetStatus(u, "completed") /\ Stops(u, "preparing")
          /\ objects' = objects \ {u}
       \/ /\ Resolve \notin valid
          /\ Pauses(u, "translating")
          /\ UNCHANGED <<accepted, objects>>
    /\ UNCHANGED <<used, req, queue, resumed, stale, broken, errors,
                   record, verify, valid, cache, system, saved, overtaken, revoked, pauses>>

\* A run that breaks gives the quota back: mark_failed locks the task's row, reads the user's,
\* and writes it with the status.  Without a row there is nothing to do.
FailReads(u) ==
    /\ run[u].pc \in {"preflight", "stages", "call"}
    /\ SpendError
    /\ IF task[u] = "processing"
       THEN run' = [run EXCEPT ![u] = [@ EXCEPT !.pc = "refunding", !.seen = used]]
       ELSE Stops(u, "preparing")
    /\ UNCHANGED <<used, req, task, objects, queue, resumed, stale, broken, credentials, pauses>>

RefundOfFailure_Keeps(u) == UNCHANGED <<used, stale>>

RefundOfFailure(u) == WriteUsed(run[u].seen, LessOne(run[u].seen))

FailWrites(u) ==
    /\ Running(u, "refunding")
    /\ RefundOfFailure(u)
    /\ SetStatus(u, "failed")
    /\ Stops(u, "preparing")
    /\ UNCHANGED <<req, objects, queue, resumed, broken, errors, credentials, pauses>>

\* The owner resumes the task.  The limit of active tasks is not asked for.
Resume(u) ==
    /\ task[u] = "paused"
    /\ task' = [task EXCEPT ![u] = "pending"]
    /\ queue' = queue \cup {u}
    /\ resumed' = resumed \cup {u}
    /\ UNCHANGED <<used, req, objects, stale, broken, errors, credentials, run, pauses>>

RunStep(u) ==
    \/ TakeMessage(u) \/ Preflight(u) \/ ProbeAnswered(u) \/ EarlierStages(u)
    \/ CallProvider(u) \/ FailReads(u) \/ FailWrites(u) \/ Resume(u)

Next ==
    \/ \E u \in Uploads : \/ RequestStep(u, Locked(u)) /\ UNCHANGED <<credentials, run, pauses>>
                          \/ RunStep(u)
    \/ KeyStep /\ UNCHANGED <<account, run, pauses>>

Spec == Init /\ [][Next]_vars

-----------------------------------------------------------------------------
(* Properties                                                              *)

\* An upload is charged from consume_quota on, until its request has given the quota back or
\* its task has failed.
Charged ==
    {u \in Uploads :
        \/ req[u].pc \in {"charged", "stored", "inserted", "deleteRow", "deleteObject",
                          "refund", "refunding"}
        \/ req[u].pc = "done" /\ task[u] # "failed"}

\* Quota is conserved by requests and runs together (quota_service.consume_quota and
\* refund_quota, mark_failed): as long as no write was based on a value that was out of date
\* and no rollback was cut short, the counter is the number of uploads that are charged.
QuotaConserved == ~stale /\ broken = {} => used = Cardinality(Charged)

\* The limit of active tasks (_enforce_active_task_limit): it is asked for before the row exists,
\* so that uploads in parallel get past it together, and a resume gets past it always; but
\* there are never more tasks beyond it than that.
ActiveWithinLimit ==
    MaxActive > 0 =>
        Cardinality(Active \ resumed)
          + Cardinality({u \in Uploads : req[u].pc \in {"checked", "charged", "stored"}})
        <= MaxActive + MaxParallel - 1

\* An upload leaves all or nothing (create_task's rollback): a request that was refused has no
\* row, no object and no message behind it, and one that was accepted has its source for as long as
\* its task may run, and a message or a run for as long as the row says so.
AllOrNothing ==
    \A u \in Uploads \ broken :
        /\ req[u].pc = "refused" =>
             task[u] \in {"none", "gone"} /\ u \notin objects /\ u \notin queue
        /\ req[u].pc = "done" =>
             /\ task[u] \in ACTIVE_TASK_STATUSES \cup {"paused"} => u \in objects
             /\ task[u] = "pending" => u \in queue
             /\ task[u] = "processing" => ~Running(u, "none")

\* No verdict serves another key (ProviderPreflightService's cache): the provider has accepted the very
\* key that a run was checked with before its stages.  (The translation stage resolves the key once
\* more, so what is charged there may be a newer one, of which this says nothing.)
PreflightAsked ==
    \A u \in Uploads :
        run[u].pc \in {"stages", "call"} /\ AsksForKey(u) => run[u].key \in accepted

\* The mark "verified" is about the key it stands beside (upsert_api_key, verify_api_key): the provider
\* has accepted that key, unless the user replaced a key while it was being verified.
VerifiedIsAccepted == record.verified /\ ~overtaken => record.key \in accepted
=============================================================================
