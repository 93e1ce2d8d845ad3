---------------------------- MODULE Page_proofs ----------------------------
(***************************************************************************)
(* Proofs about Page: the types, that the user is told of the end of a     *)
(* task at most once, and that only a response can take the page back.     *)
(***************************************************************************)
EXTENDS Page, TLAPS

\* What the page keeps of a task it shows stays within its types.
LEMMA ShownTypes ==
  ASSUME TypeOK, NEW next \in Status, Shows(next)
  PROVE  /\ page' \in Status \cup {Nothing}
         /\ notified' \in Terminal \cup {Nothing}
         /\ toasts' \in 0 .. 2
         /\ refetch' \in BOOLEAN
<1>1. page' \in Status \cup {Nothing}
  BY DEF Shows
<1>2. notified' \in Terminal \cup {Nothing}
  BY DEF Shows, Tells, TypeOK
<1>3. toasts' \in 0 .. 2
  <2>1. toasts \in 0 .. 2 /\ (toasts' = toasts \/ (toasts < 2 /\ toasts' = toasts + 1))
    BY DEF Shows, TypeOK
  <2> QED
    BY <2>1
<1>4. refetch' \in BOOLEAN
  BY Zenon DEF Shows
<1> QED
  BY <1>1, <1>2, <1>3, <1>4

\* The types are an invariant.
THEOREM TypeCorrect == Spec => []TypeOK
<1>1. Init => TypeOK
  <2> SUFFICES ASSUME Init PROVE TypeOK
    OBVIOUS
  <2>1. resuming \in BOOLEAN /\ refetch \in BOOLEAN /\ reopened \in BOOLEAN
    BY DEF Init
  <2>2. left \in [turn : 0 .. MaxTurns, drop : 0 .. MaxDrops]
    BY PageAssumption DEF Init
  <2>3. wire \in Seq(Status) /\ Len(wire) <= MaxWire
    BY PageAssumption DEF Init
  <2> QED
    BY <2>1, <2>2, <2>3 DEF Init, TypeOK, Status, Active, Terminal, Writers, Socket, Nothing
<1>2. TypeOK /\ [Next]_vars => TypeOK'
  <2> SUFFICES ASSUME TypeOK, [Next]_vars PROVE TypeOK'
    OBVIOUS
  <2> USE PageAssumption
  <2>1. CASE Worker
    <3>1. CASE MarkProcessing
      BY <3>1 DEF MarkProcessing, Commits, client, TypeOK, Status, Active, Terminal, Writers
    <3>2. CASE MarkPaused
      BY <3>2 DEF MarkPaused, Commits, client, TypeOK, Status, Active, Terminal, Writers
    <3>3. CASE MarkSettled
      BY <3>3 DEF MarkSettled, Commits, client, TypeOK, Status, Active, Terminal, Writers
    <3>4. CASE \E w \in Writers : ReportProgress(w)
      BY <3>4 DEF ReportProgress, Commits, client, TypeOK, Status, Active, Terminal, Writers
    <3>5. CASE Reopens
      BY <3>5 DEF Reopens, Commits, client, TypeOK, Status, Active, Terminal, Writers
    <3> QED
      BY <2>1, <3>1, <3>2, <3>3, <3>4, <3>5 DEF Worker
  <2>2. CASE Publication
    <3> PICK w \in Writers : Publishes(w)
      BY <2>2 DEF Publication
    <3>1. hand[w] \in Status
      BY DEF Publishes, TypeOK
    <3>2. wire' \in Seq(Status) /\ Len(wire') <= MaxWire
      <4>1. CASE socket = "live"
        <5>1. wire' = Append(wire, hand[w]) /\ Len(wire) < MaxWire
          BY <4>1 DEF Publishes
        <5>2. wire \in Seq(Status)
          BY DEF TypeOK
        <5>3. Append(wire, hand[w]) \in Seq(Status) /\ Len(Append(wire, hand[w])) = Len(wire) + 1
          BY <3>1, <5>2
        <5>4. Len(wire) \in Nat
          BY <5>2
        <5> QED
          BY <5>1, <5>3, <5>4
      <4>2. CASE socket # "live"
        BY <4>2 DEF Publishes, TypeOK
      <4> QED
        BY <4>1, <4>2
    <3>3. socket \in {"none", "opening", "lost", "closed"} => wire' = wire
      BY DEF Publishes
    <3>4. hand' \in [Writers -> Status \cup {Nothing}]
      BY DEF Publishes, TypeOK
    <3> QED
      BY <3>2, <3>3, <3>4 DEF Publishes, client, TypeOK
  <2>3. CASE Owner
    <3>1. CASE OwnerPauses
      BY <3>1 DEF OwnerPauses, TypeOK, Writers
    <3>2. CASE OwnerResumes
      BY <3>2 DEF OwnerResumes, client, TypeOK, Status, Active
    <3>3. CASE ResumeDispatched
      <4>1. hand' \in [Writers -> Status \cup {Nothing}]
        BY <3>3 DEF ResumeDispatched, TypeOK, Writers, Status, Active
      <4> QED
        BY <3>3, <4>1 DEF ResumeDispatched, TypeOK
    <3>4. CASE ResumeRefused
      BY <3>4 DEF ResumeRefused, client, TypeOK, Status
    <3> QED
      BY <2>3, <3>1, <3>2, <3>3, <3>4 DEF Owner
  <2>4. CASE Polling
    <3>1. ASSUME NEW i \in 1 .. MaxPolls, Poll(i) PROVE TypeOK'
      BY <3>1 DEF Poll, PollsWhile, server, client, TypeOK
    <3>2. ASSUME NEW i \in 1 .. MaxPolls, Refetch(i) PROVE TypeOK'
      BY <3>2 DEF Refetch, server, TypeOK
    <3>3. ASSUME NEW i \in 1 .. MaxPolls, Answered(i) PROVE TypeOK'
      <4>1. polls[i] \in Status
        BY <3>3 DEF Answered, TypeOK
      <4>2. polls' \in [1 .. MaxPolls -> Status \cup {Nothing}]
        BY <3>3 DEF Answered, TypeOK
      <4> QED
        BY <3>3, <4>1, <4>2, ShownTypes DEF Answered, server, TypeOK
    <3> QED
      BY <2>4, <3>1, <3>2, <3>3 DEF Polling
  <2>5. CASE Connection
    <3>1. CASE Receive
      <4>1. Head(wire) \in Status /\ Tail(wire) \in Seq(Status) /\ Len(Tail(wire)) <= MaxWire
        BY <3>1 DEF Receive, TypeOK
      <4>2. wire' = Tail(wire) /\ wire # <<>>
        BY <3>1 DEF Receive
      <4>3. /\ page' \in Status \cup {Nothing}
            /\ notified' \in Terminal \cup {Nothing}
            /\ toasts' \in 0 .. 2
            /\ refetch' \in BOOLEAN
        <5>1. CASE Shows(Head(wire))
          BY <4>1, <5>1, ShownTypes
        <5>2. CASE UNCHANGED client
          BY <5>2 DEF client, TypeOK
        <5> QED
          BY <3>1, <5>1, <5>2 DEF Receive
      <4> QED
        BY <3>1, <4>1, <4>2, <4>3 DEF Receive, server, TypeOK
    <3>2. CASE Subscribe
      BY <3>2 DEF Subscribe, server, client, TypeOK, Socket
    <3>3. CASE Unsubscribe
      BY <3>3 DEF Unsubscribe, Disconnected, server, client, TypeOK, Socket
    <3>4. CASE SendSnapshot
      BY <3>4 DEF SendSnapshot, server, client, TypeOK, Socket
    <3>5. CASE SubscribeChannel
      BY <3>5 DEF SubscribeChannel, server, client, TypeOK, Socket
    <3>6. CASE SocketFails
      BY <3>6 DEF SocketFails, server, client, TypeOK, Socket
    <3>7. CASE Reconnect
      BY <3>7 DEF Reconnect, server, client, TypeOK, Socket
    <3> QED
      BY <2>5, <3>1, <3>2, <3>3, <3>4, <3>5, <3>6, <3>7 DEF Connection
  <2>6. CASE UNCHANGED vars
    BY <2>6 DEF vars, TypeOK
  <2> QED
    BY <2>1, <2>2, <2>3, <2>4, <2>5, <2>6 DEF Next
<1> QED
  BY <1>1, <1>2, PTL DEF Spec

-----------------------------------------------------------------------------
(* ToldOnce.  Until an ended row is opened again, a final status is shown, *)
(* told, published or answered only if it is the row's, and the row keeps  *)
(* it; the user has been told of nothing until notified says so.  Hence    *)
(* the only status the page could still tell of is the one it has told of. *)

\* A final status is the one the row ended in.
TrueEnd(status) == status \in Terminal => status = row

EndsAgree ==
    /\ TrueEnd(page)
    /\ TrueEnd(notified)
    /\ \A w \in Writers : TrueEnd(hand[w])
    /\ \A k \in 1 .. Len(wire) : TrueEnd(wire[k])
    /\ \A i \in 1 .. MaxPolls : TrueEnd(polls[i])

Told ==
    /\ notified = Nothing => toasts = 0
    /\ toasts <= 1

OneEnd == EndsAgree /\ Told

\* Until the new run is dispatched nobody touches the row that its resume has committed.
ResumeHolds == resuming => row = "pending"

TellInv == TypeOK /\ ResumeHolds /\ OneEnd

\* Showing a status that is true of the end tells the user at most once.
LEMMA ShowsOnce ==
  ASSUME TellInv, NEW next \in Status, TrueEnd(next), Shows(next), row' = row
  PROVE  TrueEnd(page)' /\ TrueEnd(notified)' /\ Told'
<1>1. TrueEnd(page)'
  BY DEF Shows, TrueEnd
<1>2. CASE Tells(next)
  <2>1. next = row /\ notified # next /\ next \in Terminal
    BY <1>2 DEF Tells, TrueEnd
  <2>2. notified = Nothing
    BY <2>1 DEF TellInv, OneEnd, EndsAgree, TrueEnd, TypeOK
  <2>3. toasts = 0
    BY <2>2 DEF TellInv, OneEnd, Told
  <2>4. notified' = next /\ toasts' = 1
    BY <1>2, <2>3 DEF Shows
  <2> QED
    BY <1>1, <2>1, <2>4 DEF TrueEnd, Told, Terminal, Nothing
<1>3. CASE ~Tells(next)
  BY <1>1, <1>3 DEF Shows, TellInv, OneEnd, EndsAgree, TrueEnd, Told
<1> QED
  BY <1>2, <1>3

\* A row that changes has not ended, and so nothing speaks of an end.
LEMMA CommitKeepsEnds ==
  ASSUME TellInv, row \notin Terminal, NEW w \in Writers, NEW status \in Status,
         Commits(w, status)
  PROVE  EndsAgree' /\ Told'
<1>1. Told'
  BY DEF Commits, client, TellInv, OneEnd, Told
<1>2. page' \notin Terminal /\ notified' \notin Terminal
  BY DEF Commits, client, TellInv, OneEnd, EndsAgree, TrueEnd
<1>3. \A v \in Writers : TrueEnd(hand[v])'
  BY DEF Commits, TellInv, TypeOK, OneEnd, EndsAgree, TrueEnd
<1>4. \A k \in 1 .. Len(wire') : wire'[k] \notin Terminal
  BY DEF Commits, TellInv, OneEnd, EndsAgree, TrueEnd
<1>5. \A i \in 1 .. MaxPolls : polls'[i] \notin Terminal
  BY DEF Commits, TellInv, OneEnd, EndsAgree, TrueEnd
<1> QED
  BY <1>1, <1>2, <1>3, <1>4, <1>5 DEF EndsAgree, TrueEnd

\* The user is told of the end of a task at most once, unless its row has been opened again.
THEOREM ToldAtMostOnce == Spec => []ToldOnce
<1>1. Init => ~reopened /\ OneEnd
  BY DEF Init, OneEnd, EndsAgree, TrueEnd, Told, Terminal, Nothing
<1>2. Init => ResumeHolds
  BY DEF Init, ResumeHolds
<1>3. ResumeHolds /\ [Next]_vars => ResumeHolds'
  <2> SUFFICES ASSUME ResumeHolds, [Next]_vars PROVE ResumeHolds'
    OBVIOUS
  <2>1. CASE Worker
    BY <2>1 DEF Worker, MarkProcessing, MarkPaused, MarkSettled, ReportProgress, Reopens, Commits,
                ResumeHolds, Terminal
  <2>2. CASE Publication \/ Owner
    BY <2>2 DEF Publication, Publishes, Owner, OwnerPauses, OwnerResumes, ResumeDispatched,
                ResumeRefused, ResumeHolds
  <2>3. CASE Polling
    BY <2>3 DEF Polling, Poll, Refetch, Answered, server, ResumeHolds
  <2>4. CASE Connection
    BY <2>4 DEF Connection, Receive, Subscribe, Unsubscribe, SendSnapshot, SubscribeChannel,
                SocketFails, Reconnect, server, ResumeHolds
  <2> QED
    BY <2>1, <2>2, <2>3, <2>4 DEF Next, vars, ResumeHolds
<1>4. TypeOK /\ ResumeHolds /\ (~reopened => OneEnd) /\ [Next]_vars => (~reopened => OneEnd)'
  <2> SUFFICES ASSUME TypeOK, ResumeHolds, ~reopened => OneEnd, [Next]_vars, ~reopened'
               PROVE  EndsAgree' /\ Told'
    BY DEF OneEnd
  <2> USE PageAssumption
  <2>0. TellInv
    <3>1. ~reopened
      <4>1. CASE Worker
        BY <4>1 DEF Worker, MarkProcessing, MarkPaused, MarkSettled, ReportProgress, Reopens
      <4>2. CASE Publication \/ Owner
        BY <4>2 DEF Publication, Publishes, Owner, OwnerPauses, OwnerResumes,
                    ResumeDispatched, ResumeRefused
      <4>3. CASE Polling
        BY <4>3 DEF Polling, Poll, Refetch, Answered, server
      <4>4. CASE Connection
        BY <4>4 DEF Connection, Receive, Subscribe, Unsubscribe, SendSnapshot,
                    SubscribeChannel, SocketFails, Reconnect, server
      <4> QED
        BY <4>1, <4>2, <4>3, <4>4 DEF Next, vars
    <3> QED
      BY <3>1 DEF TellInv
  <2> USE <2>0
  <2>1. CASE Worker
    <3>1. "hooks" \in Writers
      BY DEF Writers
    <3>2. \E w \in Writers, status \in Status : row \notin Terminal /\ Commits(w, status)
      <4>1. ~Reopens
        BY DEF Reopens
      <4> QED
        BY <2>1, <3>1, <4>1 DEF Worker, MarkProcessing, MarkPaused, MarkSettled, ReportProgress,
                                Status, Active, Terminal
    <3> QED
      BY <3>2, CommitKeepsEnds
  <2>2. CASE Publication
    <3> PICK w \in Writers : Publishes(w)
      BY <2>2 DEF Publication
    <3>1. hand[w] \in Status /\ TrueEnd(hand[w])
      BY DEF Publishes, TellInv, TypeOK, OneEnd, EndsAgree
    <3>2. \A k \in 1 .. Len(wire') : TrueEnd(wire[k])'
      <4>1. CASE socket = "live"
        <5>1. wire' = Append(wire, hand[w]) /\ row' = row /\ wire \in Seq(Status)
          BY <4>1 DEF Publishes, TellInv, TypeOK
        <5>2. ASSUME NEW k \in 1 .. Len(wire') PROVE TrueEnd(wire[k])'
          <6>1. k \in 1 .. Len(wire) + 1
            BY <3>1, <5>1
          <6>2. CASE k \in 1 .. Len(wire)
            <7>1. wire'[k] = wire[k]
              BY <3>1, <5>1, <6>2
            <7> QED
              BY <5>1, <6>2, <7>1 DEF TellInv, OneEnd, EndsAgree, TrueEnd
          <6>3. CASE k = Len(wire) + 1
            <7>1. wire'[k] = hand[w]
              BY <3>1, <5>1, <6>3
            <7> QED
              BY <3>1, <5>1, <7>1 DEF TrueEnd
          <6>4. Len(wire) \in Nat
            BY <5>1
          <6> QED
            BY <6>1, <6>2, <6>3, <6>4
        <5> QED
          BY <5>2
      <4>2. CASE socket # "live"
        BY <4>2 DEF Publishes, TellInv, OneEnd, EndsAgree, TrueEnd
      <4> QED
        BY <4>1, <4>2
    <3>3. \A v \in Writers : TrueEnd(hand[v])'
      BY DEF Publishes, TellInv, TypeOK, OneEnd, EndsAgree, TrueEnd, Terminal, Nothing
    <3> QED
      BY <3>2, <3>3 DEF Publishes, client, TellInv, OneEnd, EndsAgree, Told, TrueEnd
  <2>3. CASE Owner
    <3>1. \A v \in Writers : TrueEnd(hand[v])'
      BY <2>3 DEF Owner, OwnerPauses, OwnerResumes, ResumeDispatched, ResumeRefused, TellInv,
                  ResumeHolds, TypeOK, OneEnd, EndsAgree, TrueEnd, Active, Terminal
    <3>2. UNCHANGED <<page, notified, toasts, wire, polls>>
      BY <2>3 DEF Owner, OwnerPauses, OwnerResumes, ResumeDispatched, ResumeRefused, client
    <3>3. row' = row \/ row \in {"pending", "paused"}
      BY <2>3 DEF Owner, OwnerPauses, OwnerResumes, ResumeDispatched, ResumeRefused,
                  TellInv, ResumeHolds
    <3> QED
      BY <3>1, <3>2, <3>3 DEF TellInv, OneEnd, EndsAgree, Told, TrueEnd, Terminal
  <2>4. CASE Polling
    <3>1. ASSUME NEW i \in 1 .. MaxPolls, Poll(i) \/ Refetch(i) PROVE EndsAgree' /\ Told'
      <4>1. \A j \in 1 .. MaxPolls : TrueEnd(polls[j])'
        BY <3>1 DEF Poll, Refetch, server, TellInv, TypeOK, OneEnd, EndsAgree, TrueEnd
      <4> QED
        BY <3>1, <4>1 DEF Poll, Refetch, server, client, TellInv, OneEnd, EndsAgree, Told, TrueEnd
    <3>2. ASSUME NEW i \in 1 .. MaxPolls, Answered(i) PROVE EndsAgree' /\ Told'
      <4>1. polls[i] \in Status /\ TrueEnd(polls[i]) /\ Shows(polls[i]) /\ row' = row
        BY <3>2 DEF Answered, server, TellInv, TypeOK, OneEnd, EndsAgree
      <4>2. TrueEnd(page)' /\ TrueEnd(notified)' /\ Told'
        BY <4>1, ShowsOnce
      <4>3. \A j \in 1 .. MaxPolls : TrueEnd(polls[j])'
        BY <3>2 DEF Answered, server, TellInv, TypeOK, OneEnd, EndsAgree, TrueEnd, Terminal, Nothing
      <4> QED
        BY <3>2, <4>2, <4>3 DEF Answered, server, TellInv, OneEnd, EndsAgree, TrueEnd
    <3> QED
      BY <2>4, <3>1, <3>2 DEF Polling
  <2>5. CASE Connection
    <3>1. CASE Receive
      <4>1. /\ wire \in Seq(Status) /\ wire # <<>> /\ wire' = Tail(wire)
            /\ row' = row /\ hand' = hand /\ polls' = polls
        BY <3>1 DEF Receive, server, TellInv, TypeOK
      <4>2. Head(wire) \in Status /\ Head(wire) = wire[1] /\ Len(wire) \in Nat \ {0}
        BY <4>1
      <4>3. TrueEnd(Head(wire))
        BY <4>2 DEF TellInv, OneEnd, EndsAgree
      <4>4. TrueEnd(page)' /\ TrueEnd(notified)' /\ Told'
        <5>1. CASE Shows(Head(wire))
          BY <4>1, <4>2, <4>3, <5>1, ShowsOnce
        <5>2. CASE UNCHANGED client
          BY <4>1, <5>2 DEF client, TellInv, OneEnd, EndsAgree, TrueEnd, Told
        <5> QED
          BY <3>1, <5>1, <5>2 DEF Receive
      <4>5. \A k \in 1 .. Len(wire') : TrueEnd(wire[k])'
        <5>1. ASSUME NEW k \in 1 .. Len(wire') PROVE TrueEnd(wire[k])'
          <6>1. k + 1 \in 1 .. Len(wire) /\ wire'[k] = wire[k + 1]
            BY <4>1, <4>2
          <6> QED
            BY <4>1, <6>1 DEF TellInv, OneEnd, EndsAgree, TrueEnd
        <5> QED
          BY <5>1
      <4> QED
        BY <4>1, <4>4, <4>5 DEF TellInv, OneEnd, EndsAgree, TrueEnd
    <3>2. CASE ~Receive
      <4>1. UNCHANGED <<row, hand, page, notified, toasts, polls>>
        BY <2>5, <3>2 DEF Connection, Subscribe, Unsubscribe, SendSnapshot, SubscribeChannel,
                          SocketFails, Reconnect, server, client
      <4>2. wire' = wire \/ wire' = <<>> \/ wire' = <<row>>
        BY <2>5, <3>2 DEF Connection, Subscribe, Unsubscribe, Disconnected, SendSnapshot,
                          SubscribeChannel, SocketFails, Reconnect
      <4>3. \A k \in 1 .. Len(wire') : TrueEnd(wire[k])'
        BY <4>1, <4>2 DEF TellInv, OneEnd, EndsAgree, TrueEnd
      <4> QED
        BY <4>1, <4>3 DEF TellInv, OneEnd, EndsAgree, Told, TrueEnd
    <3> QED
      BY <3>1, <3>2
  <2>6. CASE UNCHANGED vars
    BY <2>6 DEF vars, TellInv, OneEnd, EndsAgree, Told, TrueEnd
  <2> QED
    BY <2>1, <2>2, <2>3, <2>4, <2>5, <2>6 DEF Next
<1>5. (~reopened => OneEnd) => ToldOnce
  BY DEF OneEnd, Told, ToldOnce
<1> QED
  BY <1>1, <1>2, <1>3, <1>4, <1>5, TypeCorrect, PTL DEF Spec

\* A page leaves the end of its task only for what a response says.
THEOREM OnlyResponses == Spec => OnlyResponsesUnsettle
<1>1. [Next]_vars =>
        [page' # page /\ page \in Terminal => \E i \in 1 .. MaxPolls : page' = polls[i]]_vars
  <2> SUFFICES ASSUME Next, page' # page, page \in Terminal
               PROVE  \E i \in 1 .. MaxPolls : page' = polls[i]
    OBVIOUS
  <2>1. CASE Worker \/ Publication \/ Owner
    BY <2>1 DEF Worker, MarkProcessing, MarkPaused, MarkSettled, ReportProgress, Reopens, Commits,
                Publication, Publishes, Owner, OwnerPauses, OwnerResumes, ResumeDispatched,
                ResumeRefused, client
  <2>2. CASE Polling
    BY <2>2 DEF Polling, Poll, Refetch, Answered, Shows, client
  <2>3. CASE Connection
    BY <2>3 DEF Connection, Receive, Ignores, Shows, Subscribe, Unsubscribe, SendSnapshot,
                SubscribeChannel, SocketFails, Reconnect, client
  <2> QED
    BY <2>1, <2>2, <2>3 DEF Next
<1> QED
  BY <1>1, PTL DEF Spec, OnlyResponsesUnsettle
=============================================================================
