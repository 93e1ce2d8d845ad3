-------------------------------- MODULE Page --------------------------------
(***************************************************************************)
(* The page of a task and the two ways news reach it: the task's Redis     *)
(* channel through a WebSocket (api/v1/tasks.py, lib/websocket.ts), and    *)
(* polling (hooks/useTaskProgress.ts).  The store of the page              *)
(* (stores/task-store.ts) makes one picture of both.                       *)
(*                                                                         *)
(* Everyone who changes the row publishes what it then reads of it, some   *)
(* time after its commit; the worker's hooks and its progress estimator    *)
(* are two threads with sessions of their own, the API is a third.         *)
(*                                                                         *)
(* Simplifications.  Of the row only the status is kept.  A poll is read   *)
(* by the server when it is sent, and a publication as soon as its writer  *)
(* has committed: later would only be fresher.  A socket that fails is     *)
(* opened again or is closed for good, as attempts, close codes and the    *)
(* token would have it.  How a message comes to be delivered again, and    *)
(* with it a row that has ended to be opened again, is TaskRun's subject.  *)
(***************************************************************************)
EXTENDS Integers, Sequences

CONSTANTS
    MaxWire,        (* bound: messages under way on the socket               *)
    MaxPolls,       (* bound: responses under way                            *)
    MaxTurns,       (* bound: pauses, and ended rows opened again            *)
    MaxDrops        (* bound: failures of the socket                         *)

ASSUME PageAssumption ==
    /\ MaxWire \in Nat \ {0} /\ MaxPolls \in Nat \ {0}
    /\ MaxTurns \in Nat /\ MaxDrops \in Nat

Active == {"pending", "processing"}
Terminal == {"completed", "failed"}
Status == Active \cup Terminal \cup {"paused"}

Writers == {"hooks", "estimator", "api"}
Nothing == "nothing"

VARIABLES
    row,        \* the status in the task's row
    resuming,   \* a resume has committed, and its run is yet to be dispatched
    hand,       \* what each writer is about to publish
    page,       \* the status the page shows
    socket,     \* the page's socket
    wire,       \* what is under way on it
    polls,      \* the responses under way
    refetch,    \* is the page about to ask once more
    notified,   \* the final status the user has been told of
    toasts,     \* history: how often the user was told
    reopened,   \* history: a row that had ended has been opened again
    left        \* how many turns and failures of the socket may come

server == <<row, resuming, hand, reopened>>
client == <<page, refetch, notified, toasts>>
vars ==
    <<row, resuming, hand, page, socket, wire, polls, refetch, notified, toasts,
      reopened, left>>

Socket == {"none", "opening", "subscribing", "live", "lost", "closed"}

TypeOK ==
    /\ row \in Status
    /\ resuming \in BOOLEAN
    /\ hand \in [Writers -> Status \cup {Nothing}]
    /\ page \in Status \cup {Nothing}
    /\ socket \in Socket
    /\ wire \in Seq(Status) /\ Len(wire) <= MaxWire
    /\ polls \in [1 .. MaxPolls -> Status \cup {Nothing}]
    /\ refetch \in BOOLEAN
    /\ notified \in Terminal \cup {Nothing}
    /\ toasts \in 0 .. 2
    /\ reopened \in BOOLEAN
    /\ left \in [turn : 0 .. MaxTurns, drop : 0 .. MaxDrops]
    /\ socket \in {"none", "opening", "lost", "closed"} => wire = <<>>

Init ==
    /\ row = "pending"
    /\ resuming = FALSE
    /\ hand = [w \in Writers |-> Nothing]
    /\ page = Nothing
    /\ socket = "none"
    /\ wire = <<>>
    /\ polls = [i \in 1 .. MaxPolls |-> Nothing]
    /\ refetch = TRUE
    /\ notified = Nothing
    /\ toasts = 0
    /\ reopened = FALSE
    /\ left = [turn |-> MaxTurns, drop |-> MaxDrops]

-----------------------------------------------------------------------------
(* The row, and what is published of it.                                   *)

\* Who commits reads the row again, and publishes that when it gets round to it.
Commits(w, status) ==
    /\ hand[w] = Nothing
    /\ row' = status
    /\ hand' = [hand EXCEPT ![w] = status]
    /\ UNCHANGED <<resuming, socket, wire, polls, client>>

\* A run that takes the row up; the message of a resumed run, delivered again, takes it up from its
\* pause.  Nobody has the new run's message before it is dispatched.
MarkProcessing ==
    /\ row \in {"pending", "paused"} /\ ~resuming
    /\ Commits("hooks", "processing")
    /\ UNCHANGED <<reopened, left>>

\* Stages report as they go, and the estimator reports for those that do not; the row must still be
\* processing when they lock it.
ReportProgress(w) ==
    /\ w \in {"hooks", "estimator"}
    /\ row = "processing"
    /\ Commits(w, "processing")
    /\ UNCHANGED <<reopened, left>>

MarkPaused ==
    /\ row = "processing" /\ left.turn > 0
    /\ left' = [left EXCEPT !.turn = @ - 1]
    /\ Commits("hooks", "paused")
    /\ UNCHANGED reopened

\* A run ends any row that has not ended, also one that it has yet to take up: its final object may
\* exist already, and it may fail before its first stage.
MarkSettled ==
    /\ row \notin Terminal /\ ~resuming
    /\ Commits("hooks", "completed") \/ Commits("hooks", "failed")
    /\ UNCHANGED <<reopened, left>>

\* The message of a run that has ended is delivered again: force takes the row back to processing,
\* and a failed row is completed if the final object exists.
Reopens ==
    /\ row \in Terminal /\ left.turn > 0
    /\ left' = [left EXCEPT !.turn = @ - 1]
    /\ reopened' = TRUE
    /\ \/ Commits("hooks", "processing")
       \/ row = "failed" /\ Commits("hooks", "completed")

\* Only who has subscribed hears it.
Publishes(w) ==
    /\ hand[w] # Nothing
    /\ hand' = [hand EXCEPT ![w] = Nothing]
    /\ IF socket = "live"
       THEN Len(wire) < MaxWire /\ wire' = Append(wire, hand[w])
       ELSE UNCHANGED wire
    /\ UNCHANGED <<row, resuming, socket, polls, client, reopened, left>>

\* A request to pause publishes the task as it has read it; answered, the page asks for the task.
OwnerPauses ==
    /\ page \in Active /\ row \in Active /\ hand["api"] = Nothing
    /\ hand' = [hand EXCEPT !["api"] = row]
    /\ refetch' = TRUE
    /\ UNCHANGED <<row, resuming, page, notified, toasts, socket, wire, polls, reopened, left>>

\* The button of a paused page: the row is committed as pending under a new generation.
OwnerResumes ==
    /\ page = "paused" /\ row = "paused" /\ hand["api"] = Nothing
    /\ row' = "pending"
    /\ resuming' = TRUE
    /\ UNCHANGED <<hand, client, socket, wire, polls, reopened, left>>

\* The run is dispatched, and the page, answered, asks for the task.
ResumeDispatched ==
    /\ resuming
    /\ resuming' = FALSE
    /\ hand' = [hand EXCEPT !["api"] = "pending"]
    /\ refetch' = TRUE
    /\ UNCHANGED <<row, page, notified, toasts, socket, wire, polls, reopened, left>>

\* The broker refuses it: the row is paused again, nothing is published, the page shows the error.
ResumeRefused ==
    /\ resuming
    /\ resuming' = FALSE
    /\ row' = "paused"
    /\ UNCHANGED <<hand, client, socket, wire, polls, reopened, left>>

-----------------------------------------------------------------------------
(* The page.                                                               *)

Tells_Again(next) == page # Nothing /\ next \in Terminal /\ page # next

\* notifyTerminalTransition: a final status that the page has not shown before.
Tells(next) ==
    /\ page # Nothing /\ next \in Terminal
    /\ page # next /\ notified # next

\* The page shows a task, tells the user if it has just ended, and then asks for it once more.
Shows(next) ==
    /\ page' = next
    /\ notified' = IF Tells(next) THEN next ELSE notified
    /\ toasts' = IF Tells(next) /\ toasts < 2 THEN toasts + 1 ELSE toasts
    /\ refetch' = (refetch \/ (next \in Terminal /\ page # next))

Ignores_Nothing(msg) == FALSE

\* shouldIgnoreStatusRegression: a message does not take back a final status.
Ignores(msg) == page \in Terminal /\ page # msg

Receive ==
    /\ wire # <<>> /\ page # Nothing
    /\ wire' = Tail(wire)
    /\ IF Ignores(Head(wire)) THEN UNCHANGED client ELSE Shows(Head(wire))
    /\ UNCHANGED <<server, socket, polls, left>>

PollsWhile_Silent == page \in Active /\ socket # "live"

\* The interval is kept, socket or not, for as long as the task is shown as active.
PollsWhile == page \in Active

Poll(i) ==
    /\ polls[i] = Nothing
    /\ PollsWhile
    /\ polls' = [polls EXCEPT ![i] = row]
    /\ UNCHANGED <<server, client, socket, wire, left>>

\* fetchTaskById outside of the interval: when the page opens, after a pause or a resume was asked
\* for, and at the end.
Refetch(i) ==
    /\ polls[i] = Nothing /\ refetch
    /\ refetch' = FALSE
    /\ polls' = [polls EXCEPT ![i] = row]
    /\ UNCHANGED <<server, page, notified, toasts, socket, wire, left>>

\* resolveTaskSnapshot: a response is taken as it is, whatever has come before it.
Answered(i) ==
    /\ polls[i] # Nothing
    /\ polls' = [polls EXCEPT ![i] = Nothing]
    /\ Shows(polls[i])
    /\ UNCHANGED <<server, socket, wire, left>>

-----------------------------------------------------------------------------
(* The socket.                                                             *)

\* subscribeToProgress: a connection that is registered, working or not, is left as it is.
Subscribe ==
    /\ page \in Active /\ socket = "none"
    /\ socket' = "opening"
    /\ UNCHANGED <<server, client, wire, polls, left>>

Disconnected_Undelivered == socket' = "none" /\ UNCHANGED wire
Disconnected == socket' = "none" /\ wire' = <<>>

\* unsubscribeFromProgress, as soon as the task is not shown as active.
Unsubscribe ==
    /\ page \notin Active /\ socket # "none"
    /\ Disconnected
    /\ UNCHANGED <<server, client, polls, left>>

\* The endpoint reads the row and sends it, and subscribes to the channel after that.
SendSnapshot ==
    /\ socket = "opening"
    /\ socket' = "subscribing"
    /\ wire' = <<row>>
    /\ UNCHANGED <<server, client, polls, left>>

SubscribeChannel ==
    /\ socket = "subscribing"
    /\ socket' = "live"
    /\ UNCHANGED <<server, client, wire, polls, left>>

SocketFails ==
    /\ socket \in {"opening", "subscribing", "live"} /\ left.drop > 0
    /\ left' = [left EXCEPT !.drop = @ - 1]
    /\ socket' \in {"lost", "closed"}
    /\ wire' = <<>>
    /\ UNCHANGED <<server, client, polls>>

Reconnect ==
    /\ socket = "lost"
    /\ socket' = "opening"
    /\ UNCHANGED <<server, client, wire, polls, left>>

Worker ==
    \/ MarkProcessing \/ MarkPaused \/ MarkSettled \/ Reopens
    \/ \E w \in Writers : ReportProgress(w)
Publication == \E w \in Writers : Publishes(w)
Owner == OwnerPauses \/ OwnerResumes \/ ResumeDispatched \/ ResumeRefused
Polling == \E i \in 1 .. MaxPolls : Poll(i) \/ Refetch(i) \/ Answered(i)
Connection ==
    \/ Receive \/ Subscribe \/ Unsubscribe \/ SendSnapshot \/ SubscribeChannel
    \/ SocketFails \/ Reconnect

Next == Worker \/ Publication \/ Owner \/ Polling \/ Connection

\* The browser goes on asking, and the server answers.  Nothing else is promised: the worker may
\* stand still, a publication may never come, a socket may stay as it is.
Fairness ==
    \A i \in 1 .. MaxPolls :
        WF_vars(Poll(i)) /\ WF_vars(Refetch(i)) /\ WF_vars(Answered(i))

Spec == Init /\ [][Next]_vars /\ Fairness

-----------------------------------------------------------------------------
(* Properties                                                              *)

\* The user is told of the end of a task once (notifyTerminalTransition), however often late
\* responses take the page back and it arrives there again -- unless the row is opened again: it has
\* another end then, and late responses may have both told in turn.
ToldOnce == ~reopened => toasts <= 1

\* Messages may be late and out of order (two writers publish what they read before): none of them
\* takes a page back from the end of the task.  A response that was read before may, because
\* resolveTaskSnapshot trusts every response.
OnlyResponsesUnsettle ==
    [][page' # page /\ page \in Terminal =>
         \E i \in 1 .. MaxPolls : page' = polls[i]]_vars

\* The page catches up with the row again and again, whatever happens to its socket
\* (useTaskProgress: "polling is therefore the safety net") -- but for two rests, where it neither
\* polls nor listens: a late picture of a pause that is over, and the end of a row that is then
\* opened again (task_runtime_service.py:227).
PageCatchesUp ==
    []<>(page = row \/ page = "paused" \/ (page \in Terminal /\ reopened))
=============================================================================
