------------------------------ MODULE Account ------------------------------
(***************************************************************************)
(* What an upload costs its owner: the request that creates a task         *)
(* (TaskService.create_task), the counter of the month (QuotaService) and  *)
(* what the request takes back when one of its steps fails.                *)
(*                                                                         *)
(* All uploads are of one user.  Each runs in a session of its own, and    *)
(* the row of the user that the session loaded to authenticate the request *)
(* is what consume_quota adds to: SQLAlchemy keeps the attributes of an    *)
(* object it has until a commit or a rollback expires them.                *)
(***************************************************************************)
EXTENDS Integers, FiniteSets

CONSTANTS
    Uploads,        (* the uploads of the user; each has its own task id     *)
    Quota,          (* monthly_quota                                         *)
    MaxActive,      (* PCT_MAX_ACTIVE_TASKS_PER_USER; 0 is no limit          *)
    MaxParallel     (* bound: how many uploads are in progress at a time     *)

ASSUME AccountAssumption ==
    /\ IsFiniteSet(Uploads)
    /\ Quota \in Nat /\ MaxActive \in Nat
    /\ MaxParallel \in Nat \ {0}

VARIABLES
    used,       \* monthly_used
    req,        \* the request of each upload: its step, and monthly_used as it has read it
    task,       \* the status of each task's row
    objects,    \* the tasks whose source audio is in the store
    queue,      \* the tasks with a message on the broker
    resumed,    \* history: the tasks that have been resumed
    stale,      \* history: was the counter ever written from a value that was out of date
    broken,     \* history: uploads whose request died, whose rollback failed at a step, or
                \* whose message was sent although the sending failed
    errors      \* how many more steps may go wrong

account == <<used, req, task, objects, queue, resumed, stale, broken, errors>>

Requesting == {"authed", "checked", "charged", "stored", "inserted",
               "deleteRow", "deleteObject", "refund", "refunding"}
ACTIVE_TASK_STATUSES == {"pending", "processing"}
Status == {"none", "pending", "processing", "paused", "completed", "failed", "gone"}

AccountTypeOK ==
    /\ used \in 0 .. Quota
    /\ req \in [Uploads -> [pc : Requesting \cup {"absent", "idle", "done", "refused", "dead"},
                            seen : 0 .. Quota]]
    /\ task \in [Uploads -> Status]
    /\ objects \subseteq Uploads /\ queue \subseteq Uploads /\ resumed \subseteq Uploads
    /\ stale \in BOOLEAN
    /\ broken \subseteq Uploads
    /\ errors \in Nat

\* The uploads that take part in a behaviour, and how many steps of it may go wrong.
AccountInit(uploads, mishaps) ==
    /\ used = 0
    /\ req = [u \in Uploads |-> [pc |-> IF u \in uploads THEN "idle" ELSE "absent", seen |-> 0]]
    /\ task = [u \in Uploads |-> "none"]
    /\ objects = {} /\ queue = {} /\ resumed = {} /\ broken = {}
    /\ stale = FALSE
    /\ errors = mishaps

-----------------------------------------------------------------------------
At(u, pc) == req[u].pc = pc
Goes(u, pc) == req' = [req EXCEPT ![u].pc = pc]
Reads(u, pc) == req' = [req EXCEPT ![u] = [pc |-> pc, seen |-> used]]

InProgress == {u \in Uploads : req[u].pc \in Requesting}
Active == {u \in Uploads : task[u] \in ACTIVE_TASK_STATUSES}

\* A step that goes wrong.
SpendError == errors > 0 /\ errors' = errors - 1

\* The row of the user is written as a whole number, computed from what was read.
WriteUsed(read, value) ==
    /\ used' = value
    /\ stale' = (stale \/ used # read)

LessOne_Below(n) == n - 1
LessOne(n) == IF n > 0 THEN n - 1 ELSE 0

Authenticate(u) ==
    /\ At(u, "idle") /\ Cardinality(InProgress) < MaxParallel
    /\ Reads(u, "authed")
    /\ UNCHANGED <<used, task, objects, queue, resumed, stale, broken, errors>>

CountActive_OnlyRunning == Cardinality({u \in Uploads : task[u] = "processing"})
CountActive == Cardinality(Active)

EnforceActiveTaskLimit(u) ==
    /\ At(u, "authed")
    /\ Goes(u, IF MaxActive > 0 /\ CountActive >= MaxActive THEN "refused" ELSE "checked")
    /\ UNCHANGED <<used, task, objects, queue, resumed, stale, broken, errors>>

ConsumeQuota(u) ==
    /\ At(u, "checked")
    /\ IF req[u].seen + 1 > Quota
       THEN Goes(u, "refused") /\ UNCHANGED <<used, stale>>
       ELSE Goes(u, "charged") /\ WriteUsed(req[u].seen, req[u].seen + 1)
    /\ UNCHANGED <<task, objects, queue, resumed, broken, errors>>

-----------------------------------------------------------------------------
(* The steps that may fail, each with the part of the rollback it leads to. *)

\* Receiving the file, or its upload to the store.
Store(u) ==
    /\ At(u, "charged")
    /\ \/ /\ objects' = objects \cup {u}
          /\ Goes(u, "stored")
          /\ UNCHANGED errors
       \/ /\ SpendError
          /\ Goes(u, "refund")
          /\ UNCHANGED objects
    /\ UNCHANGED <<used, task, queue, resumed, stale, broken>>

\* A setting that is not allowed, or a commit that fails, leaves no row.  A row that is committed
\* but cannot be read back is not known to be there, and stays.
InsertRow(u) ==
    /\ At(u, "stored")
    /\ \/ /\ task' = [task EXCEPT ![u] = "pending"]
          /\ Goes(u, "inserted")
          /\ UNCHANGED <<errors, broken>>
       \/ /\ SpendError
          /\ Goes(u, "deleteObject")
          /\ \/ UNCHANGED <<task, broken>>
             \/ task' = [task EXCEPT ![u] = "pending"] /\ broken' = broken \cup {u}
    /\ UNCHANGED <<used, objects, queue, resumed, stale>>

\* The broker may have taken a message whose sending is reported as failed.
Dispatch(u) ==
    /\ At(u, "inserted")
    /\ \/ /\ queue' = queue \cup {u}
          /\ Goes(u, "done")
          /\ UNCHANGED <<errors, broken>>
       \/ /\ SpendError
          /\ Goes(u, "deleteRow")
          /\ \/ UNCHANGED <<queue, broken>>
             \/ queue' = queue \cup {u} /\ broken' = broken \cup {u}
    /\ UNCHANGED <<used, task, objects, resumed, stale>>

\* Deletions that fail are logged and passed over.  A row that mark_failed has locked is waited for.
CleanupPersistedTask(u, locked) ==
    /\ At(u, "deleteRow") /\ ~locked
    /\ Goes(u, "deleteObject")
    /\ \/ task' = [task EXCEPT ![u] = "gone"] /\ UNCHANGED <<errors, broken>>
       \/ SpendError /\ broken' = broken \cup {u} /\ UNCHANGED task
    /\ UNCHANGED <<used, objects, queue, resumed, stale>>

CleanupUploadedObject_Skips(u) == Goes(u, "refund") /\ UNCHANGED <<objects, errors, broken>>

CleanupUploadedObject(u) ==
    /\ Goes(u, "refund")
    /\ \/ objects' = objects \ {u} /\ UNCHANGED <<errors, broken>>
       \/ SpendError /\ broken' = broken \cup {u} /\ UNCHANGED objects

DeleteObject(u) ==
    /\ At(u, "deleteObject")
    /\ CleanupUploadedObject(u)
    /\ UNCHANGED <<used, task, queue, resumed, stale>>

\* The rollback has expired the user's row: the refund reads it again, and then writes it.
RefundReads(u) ==
    /\ At(u, "refund")
    /\ Reads(u, "refunding")
    /\ UNCHANGED <<used, task, objects, queue, resumed, stale, broken, errors>>

RefundWrites(u) ==
    /\ At(u, "refunding")
    /\ Goes(u, "refused")
    /\ \/ WriteUsed(req[u].seen, LessOne(req[u].seen)) /\ UNCHANGED <<errors, broken>>
       \/ SpendError /\ broken' = broken \cup {u} /\ UNCHANGED <<used, stale>>
    /\ UNCHANGED <<task, objects, queue, resumed>>

\* The API process dies in the middle of the request.
RequestDies(u) ==
    /\ req[u].pc \in Requesting
    /\ SpendError
    /\ Goes(u, "dead")
    /\ broken' = broken \cup {u}
    /\ UNCHANGED <<used, task, objects, queue, resumed, stale>>

RequestStep(u, locked) ==
    \/ Authenticate(u) \/ EnforceActiveTaskLimit(u) \/ ConsumeQuota(u)
    \/ Store(u) \/ InsertRow(u) \/ Dispatch(u)
    \/ CleanupPersistedTask(u, locked) \/ DeleteObject(u)
    \/ RefundReads(u) \/ RefundWrites(u)
    \/ RequestDies(u)
=============================================================================
