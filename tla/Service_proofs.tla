--------------------------- MODULE Service_proofs ---------------------------
(***************************************************************************)
(* Proofs about Service: its types, that an upload leaves all or nothing,  *)
(* that quota is conserved, that the limit of active tasks is overrun by   *)
(* parallel uploads only, and that no key is trusted on another's word.    *)
(***************************************************************************)
EXTENDS Service, FiniteSetTheorems, TLAPS

PCs == Requesting \cup {"absent", "idle", "done", "refused", "dead"}
ReqType == [Uploads -> [pc : PCs, seen : 0 .. Quota]]
RunPCs == {"none", "preflight", "probing", "stages", "call", "refunding"}
RunType == [Uploads -> [pc : RunPCs, start : Start, key : Keys \cup {NoKey}, seen : 0 .. Quota]]

-----------------------------------------------------------------------------
(* What the small steps do to the request, the run and the counter.        *)

\* A request that goes to a step is there, and the other requests stay where they are.
LEMMA GoesThere ==
  ASSUME AccountTypeOK, NEW u \in Uploads, NEW pc \in PCs, Goes(u, pc)
  PROVE  /\ req' \in ReqType
         /\ req'[u].pc = pc
         /\ \A v \in Uploads \ {u} : req'[v] = req[v]
<1>1. req \in ReqType
  BY DEF AccountTypeOK, ReqType, PCs
<1> QED
  BY <1>1 DEF Goes, ReqType

\* A request that reads the counter goes on, and the other requests stay where they are.
LEMMA ReadsThere ==
  ASSUME AccountTypeOK, NEW u \in Uploads, NEW pc \in PCs, Reads(u, pc)
  PROVE  /\ req' \in ReqType
         /\ req'[u].pc = pc
         /\ \A v \in Uploads \ {u} : req'[v] = req[v]
<1>1. req \in ReqType /\ used \in 0 .. Quota
  BY DEF AccountTypeOK, ReqType, PCs
<1> QED
  BY <1>1 DEF Reads, ReqType

\* Giving back leaves the counter in its range.
LEMMA LessOneRange == \A n \in 0 .. Quota : LessOne(n) \in 0 .. Quota
BY AccountAssumption DEF LessOne

\* One step of a run changes that run alone.
LEMMA ProceedsThere ==
  ASSUME TypeOK, NEW u \in Uploads, NEW pc \in RunPCs, Proceeds(u, pc)
  PROVE  /\ run' \in RunType
         /\ run'[u].pc = pc
         /\ \A v \in Uploads \ {u} : run'[v] = run[v]
<1>1. run \in RunType
  BY DEF TypeOK, RunType, RunPCs
<1> QED
  BY <1>1 DEF Proceeds, RunType

\* A run that stops is none.
LEMMA StopsThere ==
  ASSUME TypeOK, NEW u \in Uploads, NEW start \in Start, Stops(u, start)
  PROVE  /\ run' \in RunType
         /\ run'[u].pc = "none"
         /\ \A v \in Uploads \ {u} : run'[v] = run[v]
<1>1. run \in RunType
  BY DEF TypeOK, RunType, RunPCs
<1>2. [NoRun EXCEPT !.start = start] = [pc |-> "none", start |-> start, key |-> NoKey, seen |-> 0]
  BY DEF NoRun
<1> QED
  BY <1>1, <1>2, AccountAssumption DEF Stops, RunType, RunPCs

\* One status is written, and only to a row that is there.
LEMMA SetsStatus ==
  ASSUME TypeOK, NEW u \in Uploads, NEW status \in Status, SetStatus(u, status)
  PROVE  /\ task' \in [Uploads -> Status]
         /\ task'[u] = IF task[u] = "gone" THEN "gone" ELSE status
         /\ \A v \in Uploads \ {u} : task'[v] = task[v]
BY DEF SetStatus, TypeOK, AccountTypeOK

-----------------------------------------------------------------------------
(* Types.                                                                  *)

\* A step of a request keeps the types of the account.
LEMMA RequestTypes ==
  ASSUME AccountTypeOK, NEW u \in Uploads, RequestStep(u, Locked(u))
  PROVE  AccountTypeOK'
<1> USE AccountAssumption DEF PCs, Requesting
<1>1. req \in ReqType
  BY DEF AccountTypeOK, ReqType
<1>2. CASE Authenticate(u)
  <2>1. req' \in ReqType
    BY <1>2, ReadsThere DEF Authenticate
  <2> QED
    BY <1>2, <2>1 DEF Authenticate, AccountTypeOK, ReqType
<1>3. CASE EnforceActiveTaskLimit(u)
  <2>1. req' \in ReqType
    BY <1>3, GoesThere DEF EnforceActiveTaskLimit
  <2> QED
    BY <1>3, <2>1 DEF EnforceActiveTaskLimit, AccountTypeOK, ReqType
<1>4. CASE ConsumeQuota(u)
  <2>1. req' \in ReqType
    BY <1>4, GoesThere DEF ConsumeQuota
  <2>2. used' \in 0 .. Quota
    BY <1>1, <1>4 DEF ConsumeQuota, WriteUsed, AccountTypeOK, ReqType
  <2>3. stale' \in BOOLEAN
    BY <1>4, Zenon DEF ConsumeQuota, WriteUsed, AccountTypeOK
  <2> QED
    BY <1>4, <2>1, <2>2, <2>3 DEF ConsumeQuota, AccountTypeOK, ReqType
<1>5. CASE Store(u)
  <2>1. req' \in ReqType
    BY <1>5, GoesThere DEF Store
  <2> QED
    BY <1>5, <2>1 DEF Store, SpendError, AccountTypeOK, ReqType
<1>6. CASE InsertRow(u)
  <2>1. req' \in ReqType
    BY <1>6, GoesThere DEF InsertRow
  <2>2. task' \in [Uploads -> Status]
    BY <1>6 DEF InsertRow, AccountTypeOK, Status
  <2> QED
    BY <1>6, <2>1, <2>2 DEF InsertRow, SpendError, AccountTypeOK, ReqType
<1>7. CASE Dispatch(u)
  <2>1. req' \in ReqType
    BY <1>7, GoesThere DEF Dispatch
  <2> QED
    BY <1>7, <2>1 DEF Dispatch, SpendError, AccountTypeOK, ReqType
<1>8. CASE CleanupPersistedTask(u, Locked(u))
  <2>1. req' \in ReqType
    BY <1>8, GoesThere DEF CleanupPersistedTask
  <2>2. task' \in [Uploads -> Status]
    BY <1>8 DEF CleanupPersistedTask, AccountTypeOK, Status
  <2> QED
    BY <1>8, <2>1, <2>2 DEF CleanupPersistedTask, SpendError, AccountTypeOK, ReqType
<1>9. CASE DeleteObject(u)
  <2>1. req' \in ReqType
    BY <1>9, GoesThere DEF DeleteObject, CleanupUploadedObject
  <2> QED
    BY <1>9, <2>1 DEF DeleteObject, CleanupUploadedObject, SpendError, AccountTypeOK, ReqType
<1>10. CASE RefundReads(u)
  <2>1. req' \in ReqType
    BY <1>10, ReadsThere DEF RefundReads
  <2> QED
    BY <1>10, <2>1 DEF RefundReads, AccountTypeOK, ReqType
<1>11. CASE RefundWrites(u)
  <2>1. req' \in ReqType
    BY <1>11, GoesThere DEF RefundWrites
  <2>2. req[u].seen \in 0 .. Quota /\ used \in 0 .. Quota
    BY <1>1 DEF AccountTypeOK, ReqType
  <2>3. used' \in 0 .. Quota
    BY <1>11, <2>2, LessOneRange DEF RefundWrites, WriteUsed
  <2>4. stale' \in BOOLEAN
    BY <1>11, Zenon DEF RefundWrites, WriteUsed, AccountTypeOK
  <2> QED
    BY <1>11, <2>1, <2>3, <2>4 DEF RefundWrites, SpendError, AccountTypeOK, ReqType
<1>12. CASE RequestDies(u)
  <2>1. req' \in ReqType
    BY <1>12, GoesThere DEF RequestDies
  <2> QED
    BY <1>12, <2>1 DEF RequestDies, SpendError, AccountTypeOK, ReqType
<1> QED
  BY <1>2, <1>3, <1>4, <1>5, <1>6, <1>7, <1>8, <1>9, <1>10, <1>11, <1>12 DEF RequestStep

\* The key that is resolved is a key, or none.
LEMMA ResolveType == CredentialsTypeOK => Resolve \in Keys \cup {NoKey}
BY DEF CredentialsTypeOK, Resolve

\* A verdict leaves what is remembered of the provider within its types.
LEMMA AcceptsTypes ==
  ASSUME CredentialsTypeOK, NEW p \in Processes, NEW key, Accepts(p, key)
  PROVE  accepted' \subseteq Keys /\ cache' \in [Processes -> SUBSET Keys]
BY DEF CredentialsTypeOK, Accepts

\* The user's requests and the provider keep the types of the keys.
LEMMA KeyTypes ==
  ASSUME CredentialsTypeOK, KeyStep
  PROVE  CredentialsTypeOK'
<1> USE CredentialsAssumption
<1>1. CASE UpsertApiKey
  <2>1. CASE saved.left > 0 /\ saved' = [last |-> saved.last + 1, left |-> saved.left - 1]
             /\ (\E on \in BOOLEAN : record' = Upserted(saved.last + 1, on))
             /\ overtaken' = (overtaken \/ verify.pc = "probing")
    <3>1. saved.last + 1 \in Keys /\ saved' \in [last : Keys \cup {NoKey}, left : 0 .. MaxKeys]
          /\ saved'.last + saved'.left <= MaxKeys
      BY <2>1 DEF CredentialsTypeOK, Keys, NoKey
    <3>2. PICK on \in BOOLEAN : record' = Upserted(saved.last + 1, on)
      BY <2>1
    <3>3. (IF saved.last + 1 = record.key THEN record.verified ELSE FALSE) \in BOOLEAN
      BY DEF CredentialsTypeOK
    <3>4. record' \in [key : Keys \cup {NoKey}, enabled : BOOLEAN, verified : BOOLEAN]
      BY <3>1, <3>2, <3>3 DEF Upserted
    <3>5. overtaken' \in BOOLEAN
      BY <2>1, Zenon DEF CredentialsTypeOK
    <3> QED
      BY <1>1, <3>1, <3>4, <3>5 DEF UpsertApiKey, CredentialsTypeOK
  <2>2. CASE record.key # NoKey /\ record' = Upserted(record.key, ~record.enabled)
             /\ UNCHANGED <<system, saved, overtaken>>
    <3>1. record' \in [key : Keys \cup {NoKey}, enabled : BOOLEAN, verified : BOOLEAN]
      BY <2>2 DEF Upserted, CredentialsTypeOK
    <3> QED
      BY <1>1, <2>2, <3>1 DEF UpsertApiKey, CredentialsTypeOK
  <2> QED
    BY <1>1, <2>1, <2>2 DEF UpsertApiKey
<1>2. CASE DeleteApiKey
  BY <1>2 DEF DeleteApiKey, NoRecord, CredentialsTypeOK
<1>3. CASE VerifyReads
  BY <1>3 DEF VerifyReads, CredentialsTypeOK
<1>4. CASE VerifyWrites
  <2>1. record' \in [key : Keys \cup {NoKey}, enabled : BOOLEAN, verified : BOOLEAN]
    BY <1>4 DEF VerifyWrites, Marks, CredentialsTypeOK
  <2>2. accepted' \subseteq Keys /\ cache' \in [Processes -> SUBSET Keys]
    <3>1. "api" \in Processes
      BY DEF Processes
    <3> QED
      BY <1>4, <3>1, AcceptsTypes DEF VerifyWrites, CredentialsTypeOK
  <2> QED
    BY <1>4, <2>1, <2>2 DEF VerifyWrites, CredentialsTypeOK
<1>5. CASE RevokeKey
  BY <1>5 DEF RevokeKey, CredentialsTypeOK
<1>6. CASE \E p \in Processes : VerdictExpires(p)
  BY <1>6 DEF VerdictExpires, CredentialsTypeOK
<1> QED
  BY <1>1, <1>2, <1>3, <1>4, <1>5, <1>6 DEF KeyStep

\* A step of a run, or a resume, keeps all types.
LEMMA RunTypes ==
  ASSUME TypeOK, NEW u \in Uploads, RunStep(u)
  PROVE  TypeOK'
<1> USE AccountAssumption DEF RunPCs, Status, Start
<1>1. run \in RunType /\ task \in [Uploads -> Status]
  BY DEF TypeOK, AccountTypeOK, RunType
<1>2. CASE TakeMessage(u)
  <2>1. task' \in [Uploads -> Status]
    BY <1>1, <1>2, SetsStatus DEF TakeMessage
  <2>2. run' \in RunType
    BY <1>1, <1>2, ProceedsThere DEF TakeMessage
  <2>3. queue' \subseteq Uploads
    BY <1>2 DEF TakeMessage, TypeOK, AccountTypeOK
  <2> QED
    BY <1>2, <2>1, <2>2, <2>3 DEF TakeMessage, credentials, TypeOK, AccountTypeOK,
                                  CredentialsTypeOK, RunType
<1>3. ASSUME NEW status \in Status, NEW start \in Start, SetStatus(u, status), Stops(u, start)
      PROVE  task' \in [Uploads -> Status] /\ run' \in RunType
  BY <1>3, SetsStatus, StopsThere
<1>4. run[u].start \in Start
  BY <1>1 DEF RunType
<1>5. CASE Preflight(u)
  <2>1. task' \in [Uploads -> Status] /\ run' \in RunType
    <3>1. CASE ~AsksForKey(u) /\ Proceeds(u, "stages") /\ UNCHANGED task
      BY <1>1, <3>1, ProceedsThere
    <3>2. CASE Pauses(u, run[u].start)
      BY <1>3, <1>4, <3>2 DEF Pauses
    <3>3. CASE /\ UNCHANGED task
               /\ run' = [run EXCEPT ![u] = [@ EXCEPT
                            !.key = Resolve,
                            !.pc = IF Trusts("worker", Resolve) THEN "stages" ELSE "probing"]]
      <4>1. Resolve \in Keys \cup {NoKey}
        BY ResolveType DEF TypeOK
      <4>2. (IF Trusts("worker", Resolve) THEN "stages" ELSE "probing") \in RunPCs
        OBVIOUS
      <4>3. ASSUME NEW pc \in RunPCs, NEW key \in Keys \cup {NoKey}
            PROVE  [run[u] EXCEPT !.key = key, !.pc = pc]
                     \in [pc : RunPCs, start : Start, key : Keys \cup {NoKey}, seen : 0 .. Quota]
        BY <1>1 DEF RunType
      <4> QED
        BY <1>1, <3>3, <4>1, <4>2, <4>3 DEF RunType
    <3> QED
      BY <1>5, <3>1, <3>2, <3>3 DEF Preflight
  <2> QED
    BY <1>5, <2>1 DEF Preflight, credentials, TypeOK, AccountTypeOK, CredentialsTypeOK, RunType
<1>6. CASE ProbeAnswered(u)
  <2>1. task' \in [Uploads -> Status] /\ run' \in RunType
    BY <1>1, <1>3, <1>4, <1>6, ProceedsThere DEF ProbeAnswered, Pauses
  <2>2. accepted' \subseteq Keys /\ cache' \in [Processes -> SUBSET Keys]
    <3>1. "worker" \in Processes
      BY DEF Processes
    <3> QED
      BY <1>6, <3>1, AcceptsTypes DEF ProbeAnswered, TypeOK, CredentialsTypeOK
  <2> QED
    BY <1>6, <2>1, <2>2 DEF ProbeAnswered, TypeOK, AccountTypeOK, CredentialsTypeOK, RunType
<1>7. CASE EarlierStages(u)
  <2>1. task' \in [Uploads -> Status] /\ run' \in RunType
    BY <1>1, <1>3, <1>7, ProceedsThere DEF EarlierStages, Pauses
  <2>2. pauses' \in Nat
    BY <1>7 DEF EarlierStages, TypeOK
  <2> QED
    BY <1>7, <2>1, <2>2 DEF EarlierStages, credentials, TypeOK, AccountTypeOK,
                            CredentialsTypeOK, RunType
<1>8. CASE CallProvider(u)
  <2>1. task' \in [Uploads -> Status] /\ run' \in RunType
    BY <1>3, <1>8 DEF CallProvider, Pauses
  <2>2. accepted' \subseteq Keys /\ objects' \subseteq Uploads
    BY <1>8 DEF CallProvider, TypeOK, AccountTypeOK, CredentialsTypeOK
  <2> QED
    BY <1>8, <2>1, <2>2 DEF CallProvider, TypeOK, AccountTypeOK, CredentialsTypeOK, RunType
<1>9. CASE FailReads(u)
  <2>1. run' \in RunType
    <3>1. used \in 0 .. Quota
      BY DEF TypeOK, AccountTypeOK
    <3>2. CASE run' = [run EXCEPT ![u] = [@ EXCEPT !.pc = "refunding", !.seen = used]]
      <4>1. [run[u] EXCEPT !.pc = "refunding", !.seen = used]
              \in [pc : RunPCs, start : Start, key : Keys \cup {NoKey}, seen : 0 .. Quota]
        BY <1>1, <3>1 DEF RunType
      <4> QED
        BY <1>1, <3>2, <4>1 DEF RunType
    <3>3. CASE Stops(u, "preparing")
      BY <3>3, StopsThere
    <3> QED
      BY <1>9, <3>2, <3>3 DEF FailReads
  <2>2. errors' \in Nat
    BY <1>9 DEF FailReads, SpendError, TypeOK, AccountTypeOK
  <2> QED
    BY <1>9, <2>1, <2>2 DEF FailReads, credentials, TypeOK, AccountTypeOK,
                            CredentialsTypeOK, RunType
<1>10. CASE FailWrites(u)
  <2>1. task' \in [Uploads -> Status] /\ run' \in RunType
    BY <1>3, <1>10 DEF FailWrites
  <2>2. used' \in 0 .. Quota /\ stale' \in BOOLEAN
    <3>1. run[u].seen \in 0 .. Quota
      BY <1>1 DEF RunType
    <3>2. used' \in 0 .. Quota
      BY <1>10, <3>1, LessOneRange DEF FailWrites, RefundOfFailure, WriteUsed
    <3>3. stale' \in BOOLEAN
      BY <1>10, Zenon DEF FailWrites, RefundOfFailure, WriteUsed, TypeOK, AccountTypeOK
    <3> QED
      BY <3>2, <3>3
  <2> QED
    BY <1>10, <2>1, <2>2 DEF FailWrites, credentials, TypeOK, AccountTypeOK,
                             CredentialsTypeOK, RunType
<1>11. CASE Resume(u)
  BY <1>11 DEF Resume, credentials, TypeOK, AccountTypeOK, CredentialsTypeOK
<1> QED
  BY <1>2, <1>5, <1>6, <1>7, <1>8, <1>9, <1>10, <1>11 DEF RunStep

\* The types are an invariant: in particular the counter never leaves 0 .. Quota.
THEOREM TypeCorrect == Spec => []TypeOK
<1> USE AccountAssumption, CredentialsAssumption, ServiceAssumption
<1>1. Init => TypeOK
  <2> SUFFICES ASSUME Init PROVE TypeOK
    OBVIOUS
  <2>1. PICK b \in Bounds : /\ AccountInit(b.uploads, b.errors)
                            /\ CredentialsInit(b.system, b.saves, b.revoked)
                            /\ pauses = b.pauses
    BY DEF Init
  <2>2. b \in [uploads : SUBSET Uploads, errors : Nat, system : Keys \cup {NoKey},
                saves : 0 .. MaxKeys, revoked : Nat, pauses : Nat] /\ b.system + b.saves <= MaxKeys
    OBVIOUS
  <2>3. AccountTypeOK
    <3>1. req \in ReqType
      BY <2>1 DEF AccountInit, ReqType, PCs
    <3>2. task \in [Uploads -> Status]
      BY <2>1 DEF AccountInit, Status
    <3>3. used \in 0 .. Quota /\ errors \in Nat /\ stale \in BOOLEAN
      <4>1. used = 0 /\ errors = b.errors /\ stale = FALSE
        BY <2>1 DEF AccountInit
      <4>2. b.errors \in Nat
        BY <2>2
      <4> QED
        <5>1. stale \in BOOLEAN
          BY <4>1, Zenon
        <5> QED
          BY <4>1, <4>2, <5>1
    <3>4. objects \subseteq Uploads /\ queue \subseteq Uploads /\ resumed \subseteq Uploads
          /\ broken \subseteq Uploads
      BY <2>1, Zenon DEF AccountInit
    <3> QED
      BY <3>1, <3>2, <3>3, <3>4 DEF AccountTypeOK, ReqType, PCs
  <2>4. CredentialsTypeOK
    BY <2>1, <2>2 DEF CredentialsInit, CredentialsTypeOK, NoRecord
  <2>5. run \in RunType
    BY DEF Init, NoRun, RunType, RunPCs, Start
  <2> QED
    BY <2>1, <2>2, <2>3, <2>4, <2>5 DEF TypeOK, RunType, RunPCs
<1>2. TypeOK /\ [Next]_vars => TypeOK'
  <2> SUFFICES ASSUME TypeOK, [Next]_vars PROVE TypeOK'
    OBVIOUS
  <2>1. ASSUME NEW u \in Uploads, RequestStep(u, Locked(u)), UNCHANGED <<credentials, run, pauses>>
        PROVE  TypeOK'
    <3>1. AccountTypeOK'
      BY <2>1, RequestTypes DEF TypeOK
    <3> QED
      BY <2>1, <3>1 DEF credentials, TypeOK, CredentialsTypeOK
  <2>2. ASSUME KeyStep, UNCHANGED <<account, run, pauses>> PROVE TypeOK'
    <3>1. CredentialsTypeOK'
      BY <2>2, KeyTypes DEF TypeOK
    <3> QED
      BY <2>2, <3>1 DEF account, TypeOK, AccountTypeOK
  <2>3. CASE UNCHANGED vars
    BY <2>3 DEF vars, account, credentials, TypeOK, AccountTypeOK, CredentialsTypeOK
  <2> QED
    BY <2>1, <2>2, <2>3, RunTypes DEF Next
<1> QED
  BY <1>1, <1>2, PTL DEF Spec

-----------------------------------------------------------------------------
(* PreflightAsked and VerifiedIsAccepted.  What a process remembers, the   *)
(* provider has accepted; and a verification under way that nobody has     *)
(* overtaken is about the key that is still there.                         *)

Remembered == \A p \in Processes : cache[p] \subseteq accepted
SameKey == verify.pc = "probing" /\ ~overtaken => verify.key = record.key
KeyInv == Remembered /\ SameKey /\ VerifiedIsAccepted /\ PreflightAsked

\* Accepting a key is remembered, and takes nothing back.
LEMMA AcceptsRemembers ==
  ASSUME CredentialsTypeOK, Remembered, NEW p \in Processes, NEW key, Accepts(p, key)
  PROVE  Remembered' /\ key \in accepted' /\ accepted \subseteq accepted'
BY DEF CredentialsTypeOK, Remembered, Accepts

\* The steps of the keys keep what is known of them.
LEMMA KeyStepKeeps ==
  ASSUME TypeOK, KeyInv, KeyStep, UNCHANGED run
  PROVE  KeyInv'
<1>1. CASE UpsertApiKey \/ DeleteApiKey \/ VerifyReads \/ RevokeKey
  <2>1. UNCHANGED <<cache, accepted>>
    BY <1>1 DEF UpsertApiKey, DeleteApiKey, VerifyReads, RevokeKey
  <2>2. SameKey'
    <3>1. CASE UpsertApiKey
      <4>1. verify' = verify
        BY <3>1 DEF UpsertApiKey
      <4>2. CASE overtaken' = (overtaken \/ verify.pc = "probing")
        BY <4>1, <4>2 DEF SameKey
      <4>3. CASE record' = Upserted(record.key, ~record.enabled) /\ UNCHANGED overtaken
        BY <4>1, <4>3 DEF Upserted, KeyInv, SameKey
      <4> QED
        BY <3>1, <4>2, <4>3, Zenon DEF UpsertApiKey
    <3>2. CASE DeleteApiKey
      <4>1. verify'.pc # "probing"
        BY <3>2 DEF DeleteApiKey, TypeOK, CredentialsTypeOK
      <4> QED
        BY <4>1 DEF SameKey
    <3>3. CASE VerifyReads \/ RevokeKey
      BY <3>3 DEF VerifyReads, RevokeKey, KeyInv, SameKey
    <3> QED
      BY <1>1, <3>1, <3>2, <3>3
  <2>3. VerifiedIsAccepted'
    <3>1. CASE UpsertApiKey
      <4>1. PICK key, enabled : record' = Upserted(key, enabled)
        BY <3>1 DEF UpsertApiKey
      <4>2. record'.verified = TRUE => record.verified = TRUE /\ record'.key = record.key
        BY <4>1 DEF Upserted
      <4>3. record'.verified \in BOOLEAN /\ record.verified \in BOOLEAN
        BY <4>1 DEF Upserted, TypeOK, CredentialsTypeOK
      <4>4. overtaken' = overtaken \/ overtaken' = (overtaken \/ verify.pc = "probing")
        BY <3>1 DEF UpsertApiKey
      <4> QED
        BY <2>1, <4>2, <4>3, <4>4 DEF KeyInv, VerifiedIsAccepted
    <3>2. CASE DeleteApiKey
      BY <3>2 DEF DeleteApiKey, NoRecord, VerifiedIsAccepted
    <3>3. CASE VerifyReads \/ RevokeKey
      BY <3>3 DEF VerifyReads, RevokeKey, KeyInv, VerifiedIsAccepted
    <3> QED
      BY <1>1, <3>1, <3>2, <3>3
  <2> QED
    BY <2>1, <2>2, <2>3 DEF KeyInv, Remembered, PreflightAsked, AsksForKey
<1>2. CASE VerifyWrites
  <2>1. "api" \in Processes
    BY DEF Processes
  <2>2. Remembered' /\ accepted \subseteq accepted'
    BY <1>2, <2>1, AcceptsRemembers DEF VerifyWrites, KeyInv, Remembered, TypeOK
  <2>3. \/ Marks(FALSE)
        \/ Marks(TRUE) /\ verify.key \in accepted'
    BY <1>2, <2>1, AcceptsRemembers DEF VerifyWrites, Trusts, KeyInv, Remembered, TypeOK
  <2>4. SameKey'
    BY <1>2 DEF VerifyWrites, SameKey
  <2>5. VerifiedIsAccepted'
    <3>1. verify.pc \in {"probing", "rowGone"} /\ overtaken' = overtaken
      BY <1>2 DEF VerifyWrites
    <3>2. CASE verify.pc = "rowGone"
      BY <2>2, <2>3, <3>1, <3>2 DEF Marks, KeyInv, VerifiedIsAccepted
    <3>3. CASE verify.pc = "probing"
      <4>1. record'.key = record.key
        BY <2>3, <3>3 DEF Marks, TypeOK, CredentialsTypeOK
      <4>2. CASE Marks(FALSE)
        BY <3>3, <4>2 DEF Marks, TypeOK, CredentialsTypeOK, VerifiedIsAccepted
      <4>3. CASE verify.key \in accepted'
        BY <3>1, <3>3, <4>1, <4>3 DEF KeyInv, SameKey, VerifiedIsAccepted
      <4> QED
        BY <2>3, <4>2, <4>3
    <3> QED
      BY <3>1, <3>2, <3>3
  <2> QED
    BY <2>2, <2>4, <2>5 DEF KeyInv, PreflightAsked, AsksForKey
<1>3. CASE \E p \in Processes : VerdictExpires(p)
  <2>1. Remembered'
    BY <1>3 DEF VerdictExpires, KeyInv, Remembered, TypeOK, CredentialsTypeOK
  <2> QED
    BY <1>3, <2>1 DEF VerdictExpires, KeyInv, SameKey, VerifiedIsAccepted, PreflightAsked,
                      AsksForKey
<1> QED
  BY <1>1, <1>2, <1>3 DEF KeyStep

\* A run that stands where it stood, or that stops, does not disturb what was asked for it.
LEMMA AskedStill ==
  ASSUME TypeOK, PreflightAsked, accepted \subseteq accepted', NEW u \in Uploads,
         \A v \in Uploads \ {u} : run'[v] = run[v],
         \/ run'[u].pc \notin {"stages", "call"}
         \/ run'[u].start \notin {"preparing", "translating"}
         \/ run'[u].key \in accepted'
  PROVE  PreflightAsked'
<1> SUFFICES ASSUME NEW v \in Uploads, run'[v].pc \in {"stages", "call"},
                    run'[v].start \in {"preparing", "translating"}
             PROVE  run'[v].key \in accepted'
  BY DEF PreflightAsked, AsksForKey
<1>1. CASE v = u
  BY <1>1
<1>2. CASE v # u
  BY <1>2 DEF PreflightAsked, AsksForKey
<1> QED
  BY <1>1, <1>2

\* The steps of a run keep what is known of the keys.
LEMMA RunKeepsKeys ==
  ASSUME TypeOK, KeyInv, NEW u \in Uploads, RunStep(u)
  PROVE  KeyInv'
<1> USE AccountAssumption DEF RunPCs, Start
<1>1. run \in RunType
  BY DEF TypeOK, RunType
<1>2. run[u].start \in Start
  BY <1>1 DEF RunType
<1>3. CASE \/ TakeMessage(u) \/ Preflight(u) \/ EarlierStages(u) \/ FailReads(u)
           \/ FailWrites(u) \/ Resume(u)
  <2>1. UNCHANGED credentials
    BY <1>3 DEF TakeMessage, Preflight, EarlierStages, FailReads, FailWrites, Resume
  <2>2. PreflightAsked'
    <3>1. \A v \in Uploads \ {u} : run'[v] = run[v]
      BY <1>1, <1>3 DEF TakeMessage, Preflight, EarlierStages, FailReads, FailWrites, Resume,
                        Proceeds, Pauses, Stops, RunType
    <3>2. CASE TakeMessage(u) \/ FailReads(u) \/ FailWrites(u)
      <4>1. run' = run \/ run'[u].pc \notin {"stages", "call"}
        <5>1. CASE TakeMessage(u)
          BY <1>1, <5>1 DEF TakeMessage, Proceeds, RunType
        <5>2. CASE FailReads(u)
          <6>1. CASE run' = [run EXCEPT ![u] = [@ EXCEPT !.pc = "refunding", !.seen = used]]
            BY <1>1, <6>1 DEF RunType
          <6>2. CASE Stops(u, "preparing")
            BY <6>2, StopsThere
          <6> QED
            BY <5>2, <6>1, <6>2 DEF FailReads
        <5>3. CASE FailWrites(u)
          BY <5>3, StopsThere DEF FailWrites
        <5> QED
          BY <3>2, <5>1, <5>2, <5>3
      <4> QED
        BY <2>1, <3>1, <4>1, AskedStill DEF credentials, KeyInv, PreflightAsked, AsksForKey
    <3>3. CASE Preflight(u)
      <4>1. CASE ~AsksForKey(u) /\ Proceeds(u, "stages")
        <5>1. run'[u].start = run[u].start
          BY <1>1, <4>1 DEF Proceeds, RunType
        <5> QED
          BY <2>1, <3>1, <4>1, <5>1, AskedStill DEF credentials, KeyInv, AsksForKey
      <4>2. CASE Pauses(u, run[u].start)
        <5>1. run'[u].pc = "none"
          BY <1>2, <4>2, StopsThere DEF Pauses
        <5> QED
          BY <2>1, <3>1, <5>1, AskedStill DEF credentials, KeyInv
      <4>3. CASE run' = [run EXCEPT ![u] = [@ EXCEPT
                           !.key = Resolve,
                           !.pc = IF Trusts("worker", Resolve) THEN "stages" ELSE "probing"]]
        <5>1. /\ run'[u].key = Resolve
              /\ run'[u].pc = IF Trusts("worker", Resolve) THEN "stages" ELSE "probing"
          BY <1>1, <4>3 DEF RunType
        <5>2. Trusts("worker", Resolve) => Resolve \in accepted
          BY DEF Trusts, KeyInv, Remembered, Processes
        <5>3. CASE Trusts("worker", Resolve)
          BY <2>1, <3>1, <5>1, <5>2, <5>3, AskedStill DEF credentials, KeyInv
        <5>4. CASE ~Trusts("worker", Resolve)
          BY <2>1, <3>1, <5>1, <5>4, AskedStill DEF credentials, KeyInv
        <5> QED
          BY <5>3, <5>4
      <4> QED
        BY <3>3, <4>1, <4>2, <4>3 DEF Preflight
    <3>4. CASE EarlierStages(u)
      <4>1. CASE Proceeds(u, "call")
        <5>1. run[u].pc = "stages" /\ run'[u].start = run[u].start /\ run'[u].key = run[u].key
          BY <1>1, <3>4, <4>1 DEF EarlierStages, Running, Proceeds, RunType
        <5>2. AsksForKey(u) => run[u].key \in accepted
          BY <5>1 DEF KeyInv, PreflightAsked
        <5> QED
          BY <2>1, <3>1, <5>1, <5>2, AskedStill DEF credentials, KeyInv, AsksForKey
      <4>2. CASE Pauses(u, "earlier")
        <5>1. run'[u].pc = "none"
          BY <4>2, StopsThere DEF Pauses
        <5> QED
          BY <2>1, <3>1, <5>1, AskedStill DEF credentials, KeyInv
      <4> QED
        BY <3>4, <4>1, <4>2 DEF EarlierStages
    <3>5. CASE Resume(u)
      BY <3>5 DEF Resume, credentials, KeyInv, PreflightAsked, AsksForKey
    <3> QED
      BY <1>3, <3>2, <3>3, <3>4, <3>5
  <2> QED
    BY <2>1, <2>2 DEF credentials, KeyInv, Remembered, SameKey, VerifiedIsAccepted
<1>4. CASE ProbeAnswered(u)
  <2>1. "worker" \in Processes
    BY DEF Processes
  <2>2. CASE Accepts("worker", run[u].key) /\ Proceeds(u, "stages")
    <3>1. Remembered' /\ run[u].key \in accepted' /\ accepted \subseteq accepted'
      BY <2>1, <2>2, AcceptsRemembers DEF KeyInv, TypeOK
    <3>2. run'[u].key = run[u].key /\ \A v \in Uploads \ {u} : run'[v] = run[v]
      BY <1>1, <2>2 DEF Proceeds, RunType
    <3>3. PreflightAsked'
      BY <3>1, <3>2, AskedStill DEF KeyInv
    <3> QED
      BY <1>4, <3>1, <3>3 DEF ProbeAnswered, KeyInv, SameKey, VerifiedIsAccepted
  <2>3. CASE Pauses(u, run[u].start) /\ UNCHANGED <<accepted, cache>>
    <3>1. run'[u].pc = "none" /\ \A v \in Uploads \ {u} : run'[v] = run[v]
      BY <1>2, <2>3, StopsThere DEF Pauses
    <3>2. PreflightAsked'
      BY <2>3, <3>1, AskedStill DEF KeyInv
    <3> QED
      BY <1>4, <2>3, <3>2 DEF ProbeAnswered, KeyInv, Remembered, SameKey, VerifiedIsAccepted
  <2> QED
    BY <1>4, <2>2, <2>3 DEF ProbeAnswered
<1>5. CASE CallProvider(u)
  <2>1. accepted \subseteq accepted'
    BY <1>5 DEF CallProvider
  <2>2. run'[u].pc = "none" /\ \A v \in Uploads \ {u} : run'[v] = run[v]
    BY <1>5, StopsThere DEF CallProvider, Pauses
  <2>3. PreflightAsked'
    BY <2>1, <2>2, AskedStill DEF KeyInv
  <2> QED
    BY <1>5, <2>1, <2>3 DEF CallProvider, KeyInv, Remembered, SameKey, VerifiedIsAccepted
<1> QED
  BY <1>3, <1>4, <1>5 DEF RunStep

\* What is known of the keys is an invariant.
LEMMA KeyInvariant == Spec => []KeyInv
<1>1. Init => KeyInv
  <2> SUFFICES ASSUME Init PROVE KeyInv
    OBVIOUS
  <2>1. /\ \A p \in Processes : cache[p] = {}
        /\ verify.pc = "idle" /\ record.verified = FALSE
        /\ \A u \in Uploads : run[u].pc = "none"
    BY DEF Init, CredentialsInit, NoRecord, NoRun
  <2> QED
    BY <2>1 DEF KeyInv, Remembered, SameKey, VerifiedIsAccepted, PreflightAsked
<1>2. TypeOK /\ KeyInv /\ [Next]_vars => KeyInv'
  <2> SUFFICES ASSUME TypeOK, KeyInv, [Next]_vars PROVE KeyInv'
    OBVIOUS
  <2>1. CASE UNCHANGED <<credentials, run>>
    BY <2>1 DEF credentials, KeyInv, Remembered, SameKey, VerifiedIsAccepted, PreflightAsked,
                AsksForKey
  <2>2. CASE KeyStep /\ UNCHANGED run
    BY <2>2, KeyStepKeeps
  <2>3. CASE \E u \in Uploads : RunStep(u)
    BY <2>3, RunKeepsKeys
  <2> QED
    BY <2>1, <2>2, <2>3 DEF Next, vars
<1> QED
  BY <1>1, <1>2, TypeCorrect, PTL DEF Spec

\* A run past its preflight was asked for a key that the provider has accepted.
THEOREM PreflightHasAsked == Spec => []PreflightAsked
BY KeyInvariant, PTL DEF KeyInv

\* The mark "verified" is about the key it stands beside.
THEOREM MarkIsTrue == Spec => []VerifiedIsAccepted
BY KeyInvariant, PTL DEF KeyInv

-----------------------------------------------------------------------------
(* AllOrNothing.  Before its row is inserted an upload has nothing but,    *)
(* once it is stored, its object; a request that takes back has no message *)
(* and no run; and one that is accepted has exactly what its row says.     *)

Early == {"absent", "idle", "authed", "checked", "charged", "stored"}
TakenBack == {"refund", "refunding", "refused"}
Quiet(u) == u \notin queue /\ run[u].pc = "none"

NotBegun(u) ==
    req[u].pc \in Early =>
        task[u] = "none" /\ Quiet(u) /\ (u \in objects <=> req[u].pc = "stored")

Whole(u) ==
    /\ req[u].pc # "dead"
    /\ req[u].pc = "inserted" => task[u] = "pending" /\ u \in objects /\ Quiet(u)
    /\ req[u].pc = "deleteRow" => task[u] = "pending" /\ Quiet(u)
    /\ req[u].pc = "deleteObject" => task[u] \in {"none", "gone"} /\ Quiet(u)
    /\ req[u].pc \in TakenBack => task[u] \in {"none", "gone"} /\ Quiet(u) /\ u \notin objects
    /\ req[u].pc = "done" =>
         /\ task[u] \in {"pending", "processing", "paused", "completed", "failed"}
         /\ u \in queue <=> task[u] = "pending"
         /\ run[u].pc # "none" <=> task[u] = "processing"
         /\ task[u] \in {"pending", "processing", "paused"} => u \in objects

UploadInv == \A u \in Uploads : NotBegun(u) /\ (u \notin broken => Whole(u))

\* What a step about one upload leaves to the others.
OthersKept(u) ==
    \A v \in Uploads \ {u} :
        /\ req'[v] = req[v] /\ task'[v] = task[v] /\ run'[v] = run[v]
        /\ v \in queue' <=> v \in queue
        /\ v \in objects' <=> v \in objects
        /\ v \in broken' <=> v \in broken
        /\ v \in resumed' <=> v \in resumed

\* A step of a request is about its own upload.
LEMMA RequestKeepsOthers ==
  ASSUME TypeOK, NEW u \in Uploads, RequestStep(u, Locked(u)), UNCHANGED run
  PROVE  OthersKept(u)
<1>1. \A v \in Uploads \ {u} : req'[v] = req[v]
  BY DEF RequestStep, Authenticate, EnforceActiveTaskLimit, ConsumeQuota, Store, InsertRow, Dispatch,
         CleanupPersistedTask, DeleteObject, CleanupUploadedObject, RefundReads, RefundWrites,
         RequestDies, Goes, Reads, TypeOK, AccountTypeOK
<1>2. \A v \in Uploads \ {u} : task'[v] = task[v]
  BY DEF RequestStep, Authenticate, EnforceActiveTaskLimit, ConsumeQuota, Store, InsertRow, Dispatch,
         CleanupPersistedTask, DeleteObject, RefundReads, RefundWrites, RequestDies,
         TypeOK, AccountTypeOK
<1>3. \A v \in Uploads \ {u} : v \in queue' <=> v \in queue
  BY DEF RequestStep, Authenticate, EnforceActiveTaskLimit, ConsumeQuota, Store, InsertRow, Dispatch,
         CleanupPersistedTask, DeleteObject, CleanupUploadedObject, RefundReads, RefundWrites,
         RequestDies
<1>4. \A v \in Uploads \ {u} : v \in objects' <=> v \in objects
  BY DEF RequestStep, Authenticate, EnforceActiveTaskLimit, ConsumeQuota, Store, InsertRow, Dispatch,
         CleanupPersistedTask, DeleteObject, CleanupUploadedObject, RefundReads, RefundWrites,
         RequestDies
<1>5. \A v \in Uploads \ {u} : v \in broken' <=> v \in broken
  BY DEF RequestStep, Authenticate, EnforceActiveTaskLimit, ConsumeQuota, Store, InsertRow, Dispatch,
         CleanupPersistedTask, DeleteObject, CleanupUploadedObject, RefundReads, RefundWrites,
         RequestDies
<1>6. \A v \in Uploads \ {u} : v \in resumed' <=> v \in resumed
  BY DEF RequestStep, Authenticate, EnforceActiveTaskLimit, ConsumeQuota, Store, InsertRow, Dispatch,
         CleanupPersistedTask, DeleteObject, CleanupUploadedObject, RefundReads, RefundWrites,
         RequestDies
<1> QED
  BY <1>1, <1>2, <1>3, <1>4, <1>5, <1>6, Zenon DEF OthersKept

\* A step of a run is about its own upload.
LEMMA RunKeepsOthers ==
  ASSUME TypeOK, NEW u \in Uploads, RunStep(u)
  PROVE  OthersKept(u)
<1>1. \A v \in Uploads \ {u} : req'[v] = req[v]
  BY DEF RunStep, TakeMessage, Preflight, ProbeAnswered, EarlierStages, CallProvider, FailReads,
         FailWrites, Resume
<1>2. \A v \in Uploads \ {u} : task'[v] = task[v]
  BY DEF RunStep, TakeMessage, Preflight, ProbeAnswered, EarlierStages, CallProvider, FailReads,
         FailWrites, Resume, Pauses, SetStatus, TypeOK, AccountTypeOK
<1>3. \A v \in Uploads \ {u} : run'[v] = run[v]
  BY DEF RunStep, TakeMessage, Preflight, ProbeAnswered, EarlierStages, CallProvider, FailReads,
         FailWrites, Resume, Pauses, Stops, Proceeds, TypeOK
<1>4. \A v \in Uploads \ {u} : v \in queue' <=> v \in queue
  BY DEF RunStep, TakeMessage, Preflight, ProbeAnswered, EarlierStages, CallProvider, FailReads,
         FailWrites, Resume
<1>5. \A v \in Uploads \ {u} : v \in objects' <=> v \in objects
  BY DEF RunStep, TakeMessage, Preflight, ProbeAnswered, EarlierStages, CallProvider, FailReads,
         FailWrites, Resume
<1>6. \A v \in Uploads \ {u} : v \in broken' <=> v \in broken
  BY DEF RunStep, TakeMessage, Preflight, ProbeAnswered, EarlierStages, CallProvider, FailReads,
         FailWrites, Resume
<1>7. \A v \in Uploads \ {u} : v \in resumed' <=> v \in resumed
  BY DEF RunStep, TakeMessage, Preflight, ProbeAnswered, EarlierStages, CallProvider, FailReads,
         FailWrites, Resume
<1> QED
  BY <1>1, <1>2, <1>3, <1>4, <1>5, <1>6, <1>7, Zenon DEF OthersKept

\* A request takes its upload from one whole state to the next, or breaks it.
LEMMA RequestKeepsWhole ==
  ASSUME TypeOK, NEW u \in Uploads, NotBegun(u), u \notin broken => Whole(u),
         RequestStep(u, Locked(u)), UNCHANGED run
  PROVE  NotBegun(u)' /\ (u \notin broken' => Whole(u)')
<1> USE DEF PCs, Requesting, Early, TakenBack, Quiet, NotBegun, Whole, At
<1>1. AccountTypeOK
  BY DEF TypeOK
<1>2. CASE Authenticate(u)
  BY <1>1, <1>2, ReadsThere DEF Authenticate
<1>3. CASE EnforceActiveTaskLimit(u)
  BY <1>1, <1>3, GoesThere DEF EnforceActiveTaskLimit
<1>4. CASE ConsumeQuota(u)
  BY <1>1, <1>4, GoesThere DEF ConsumeQuota
<1>5. CASE Store(u)
  <2>1. UNCHANGED <<task, queue, run, broken>> /\ req[u].pc = "charged"
    BY <1>5 DEF Store
  <2>2. \/ req'[u].pc = "stored" /\ u \in objects'
        \/ req'[u].pc = "refund" /\ objects' = objects
    BY <1>1, <1>5, GoesThere DEF Store
  <2> QED
    BY <2>1, <2>2
<1>6. CASE InsertRow(u)
  <2>1. UNCHANGED <<objects, queue, run>> /\ req[u].pc = "stored"
    BY <1>6 DEF InsertRow
  <2>2. \/ req'[u].pc = "inserted" /\ task'[u] = "pending"
        \/ req'[u].pc = "deleteObject" /\ (task' = task \/ u \in broken')
    BY <1>1, <1>6, GoesThere DEF InsertRow, AccountTypeOK
  <2> QED
    BY <1>6, <2>1, <2>2 DEF InsertRow
<1>7. CASE Dispatch(u)
  <2>1. UNCHANGED <<objects, task, run>> /\ req[u].pc = "inserted" /\ broken \subseteq broken'
    BY <1>7 DEF Dispatch
  <2>2. \/ req'[u].pc = "done" /\ u \in queue'
        \/ req'[u].pc = "deleteRow" /\ (queue' = queue \/ u \in broken')
    BY <1>1, <1>7, GoesThere DEF Dispatch
  <2> QED
    BY <2>1, <2>2
<1>8. CASE CleanupPersistedTask(u, Locked(u))
  <2>1. UNCHANGED <<objects, queue, run>> /\ req[u].pc = "deleteRow" /\ broken \subseteq broken'
    BY <1>8 DEF CleanupPersistedTask
  <2>2. req'[u].pc = "deleteObject" /\ (task'[u] = "gone" \/ u \in broken')
    BY <1>1, <1>8, GoesThere DEF CleanupPersistedTask, AccountTypeOK
  <2> QED
    BY <2>1, <2>2
<1>9. CASE DeleteObject(u)
  <2>1. /\ UNCHANGED <<task, queue, run>>
        /\ req[u].pc = "deleteObject" /\ broken \subseteq broken'
    BY <1>9 DEF DeleteObject, CleanupUploadedObject
  <2>2. req'[u].pc = "refund" /\ (u \notin objects' \/ u \in broken')
    BY <1>1, <1>9, GoesThere DEF DeleteObject, CleanupUploadedObject
  <2> QED
    BY <2>1, <2>2
<1>10. CASE RefundReads(u)
  BY <1>1, <1>10, ReadsThere DEF RefundReads
<1>11. CASE RefundWrites(u)
  <2>1. /\ UNCHANGED <<task, queue, run, objects>>
        /\ req[u].pc = "refunding" /\ broken \subseteq broken'
    BY <1>11 DEF RefundWrites
  <2>2. req'[u].pc = "refused"
    BY <1>1, <1>11, GoesThere DEF RefundWrites
  <2> QED
    BY <2>1, <2>2
<1>12. CASE RequestDies(u)
  BY <1>1, <1>12, GoesThere DEF RequestDies
<1> QED
  BY <1>2, <1>3, <1>4, <1>5, <1>6, <1>7, <1>8, <1>9, <1>10, <1>11, <1>12 DEF RequestStep

\* A run, or a resume, takes an upload that is whole from one accepted state to the next.
LEMMA RunKeepsWhole ==
  ASSUME TypeOK, NEW u \in Uploads, NotBegun(u), u \notin broken => Whole(u), RunStep(u)
  PROVE  NotBegun(u)' /\ (u \notin broken' => Whole(u)')
<1> USE DEF Early, TakenBack, Quiet, NotBegun, Whole, Running, RunPCs, Start, Status
<1>1. run \in RunType /\ run[u].start \in Start
  BY DEF TypeOK, RunType
<1>2. req' = req /\ broken' = broken
  BY DEF RunStep, TakeMessage, Preflight, ProbeAnswered, EarlierStages, CallProvider, FailReads,
         FailWrites, Resume
<1>3. req[u].pc \in PCs
  BY DEF TypeOK, AccountTypeOK, PCs
<1>4. ASSUME NEW status \in {"paused", "completed", "failed"}, NEW start \in Start,
             run[u].pc # "none", SetStatus(u, status), Stops(u, start), queue' = queue,
             objects' = objects \/ (status = "completed" /\ objects' = objects \ {u})
      PROVE  NotBegun(u)' /\ (u \notin broken' => Whole(u)')
  <2>1. task'[u] = IF task[u] = "gone" THEN "gone" ELSE status
    BY <1>4, SetsStatus
  <2>2. run'[u].pc = "none"
    BY <1>4, StopsThere
  <2>3. req[u].pc \notin Early
    BY <1>4
  <2>4. u \notin broken => req[u].pc = "done" /\ task[u] = "processing"
    BY <1>3, <1>4, <2>3 DEF PCs, Requesting
  <2> QED
    BY <1>2, <1>4, <2>1, <2>2, <2>3, <2>4
<1>5. ASSUME run[u].pc # "none", run'[u].pc # "none", UNCHANGED <<task, queue, objects>>
      PROVE  NotBegun(u)' /\ (u \notin broken' => Whole(u)')
  BY <1>2, <1>5
<1>6. CASE TakeMessage(u)
  <2>1. req[u].pc \notin Early /\ objects' = objects /\ queue' = queue \ {u}
    BY <1>6 DEF TakeMessage
  <2>2. CASE task[u] = "pending"
    <3>1. task'[u] = "processing" /\ run'[u].pc = "preflight"
      BY <1>6, <2>2, SetsStatus, ProceedsThere DEF TakeMessage
    <3>2. u \notin broken => req[u].pc = "done"
      BY <1>3, <1>6, <2>1 DEF TakeMessage, PCs, Requesting
    <3> QED
      BY <1>2, <2>1, <2>2, <3>1, <3>2
  <2>3. CASE task[u] # "pending"
    <3>1. u \in broken
      BY <1>3, <1>6, <2>1, <2>3 DEF TakeMessage, PCs, Requesting
    <3> QED
      BY <1>2, <2>1, <3>1
  <2> QED
    BY <2>2, <2>3
<1>7. CASE Preflight(u)
  <2>1. run[u].pc = "preflight" /\ UNCHANGED <<queue, objects>>
    BY <1>7 DEF Preflight
  <2>2. CASE Pauses(u, run[u].start)
    BY <1>1, <1>4, <2>1, <2>2 DEF Pauses
  <2>3. CASE Proceeds(u, "stages") /\ UNCHANGED task
    BY <1>5, <2>1, <2>3, ProceedsThere
  <2>4. CASE /\ UNCHANGED task
             /\ run' = [run EXCEPT ![u] = [@ EXCEPT
                          !.key = Resolve,
                          !.pc = IF Trusts("worker", Resolve) THEN "stages" ELSE "probing"]]
    <3>1. run'[u].pc # "none"
      BY <1>1, <2>4 DEF RunType
    <3> QED
      BY <1>5, <2>1, <2>4, <3>1
  <2> QED
    BY <1>7, <2>2, <2>3, <2>4 DEF Preflight
<1>8. CASE ProbeAnswered(u)
  <2>1. run[u].pc = "probing" /\ UNCHANGED <<queue, objects>>
    BY <1>8 DEF ProbeAnswered
  <2>2. CASE Pauses(u, run[u].start)
    BY <1>1, <1>4, <2>1, <2>2 DEF Pauses
  <2>3. CASE Proceeds(u, "stages") /\ UNCHANGED task
    BY <1>5, <2>1, <2>3, ProceedsThere
  <2> QED
    BY <1>8, <2>2, <2>3 DEF ProbeAnswered
<1>9. CASE EarlierStages(u)
  <2>1. run[u].pc = "stages" /\ UNCHANGED <<queue, objects>>
    BY <1>9 DEF EarlierStages
  <2>2. CASE Pauses(u, "earlier")
    BY <1>4, <2>1, <2>2 DEF Pauses
  <2>3. CASE Proceeds(u, "call") /\ UNCHANGED task
    BY <1>5, <2>1, <2>3, ProceedsThere
  <2> QED
    BY <1>9, <2>2, <2>3 DEF EarlierStages
<1>10. CASE CallProvider(u)
  BY <1>4, <1>10 DEF CallProvider, Pauses
<1>11. CASE FailReads(u)
  <2>1. run[u].pc # "none" /\ UNCHANGED <<queue, objects, task>>
    BY <1>11 DEF FailReads
  <2>2. CASE run' = [run EXCEPT ![u] = [@ EXCEPT !.pc = "refunding", !.seen = used]]
    <3>1. run'[u].pc # "none"
      BY <1>1, <2>2 DEF RunType
    <3> QED
      BY <1>5, <2>1, <3>1
  <2>3. CASE task[u] # "processing" /\ Stops(u, "preparing")
    <3>1. req[u].pc \notin Early /\ run'[u].pc = "none"
      BY <2>1, <2>3, StopsThere
    <3>2. u \in broken
      BY <1>3, <2>1, <2>3 DEF PCs, Requesting
    <3> QED
      BY <1>2, <3>1, <3>2
  <2> QED
    BY <1>11, <2>2, <2>3 DEF FailReads
<1>12. CASE FailWrites(u)
  BY <1>4, <1>12 DEF FailWrites
<1>13. CASE Resume(u)
  <2>1. task[u] = "paused" /\ task'[u] = "pending" /\ u \in queue' /\ UNCHANGED <<objects, run>>
    BY <1>13 DEF Resume, TypeOK, AccountTypeOK
  <2> QED
    BY <1>2, <1>3, <2>1 DEF PCs, Requesting
<1> QED
  BY <1>6, <1>7, <1>8, <1>9, <1>10, <1>11, <1>12, <1>13 DEF RunStep

\* What is said of one upload stays true while others step.
LEMMA OthersStayWhole ==
  ASSUME UploadInv, NEW u \in Uploads, OthersKept(u), NEW v \in Uploads \ {u}
  PROVE  NotBegun(v)' /\ (v \notin broken' => Whole(v)')
BY DEF UploadInv, OthersKept, NotBegun, Whole, Quiet

\* Every upload is whole, or broken.
LEMMA UploadInvariant == Spec => []UploadInv
<1>1. Init => UploadInv
  <2> SUFFICES ASSUME Init, NEW u \in Uploads PROVE NotBegun(u) /\ Whole(u)
    BY DEF UploadInv
  <2>1. /\ req[u].pc \in {"idle", "absent"} /\ task[u] = "none"
        /\ objects = {} /\ queue = {} /\ run[u].pc = "none"
    BY DEF Init, AccountInit, NoRun
  <2> QED
    BY <2>1 DEF NotBegun, Whole, Quiet, TakenBack
<1>2. TypeOK /\ UploadInv /\ [Next]_vars => UploadInv'
  <2> SUFFICES ASSUME TypeOK, UploadInv, [Next]_vars PROVE UploadInv'
    OBVIOUS
  <2>1. ASSUME NEW u \in Uploads, RequestStep(u, Locked(u)), UNCHANGED run PROVE UploadInv'
    BY <2>1, RequestKeepsWhole, RequestKeepsOthers, OthersStayWhole DEF UploadInv
  <2>2. ASSUME NEW u \in Uploads, RunStep(u) PROVE UploadInv'
    BY <2>2, RunKeepsWhole, RunKeepsOthers, OthersStayWhole DEF UploadInv
  <2>3. CASE UNCHANGED <<account, run>>
    BY <2>3 DEF account, UploadInv, NotBegun, Whole, Quiet
  <2> QED
    BY <2>1, <2>2, <2>3 DEF Next, vars
<1> QED
  BY <1>1, <1>2, TypeCorrect, PTL DEF Spec

\* An upload whose rollback was not cut short has left everything or nothing.
THEOREM AllIsOrNothingIs == Spec => []AllOrNothing
<1>1. UploadInv => AllOrNothing
  BY DEF UploadInv, Whole, Quiet, TakenBack, AllOrNothing, Running, ACTIVE_TASK_STATUSES
<1> QED
  BY <1>1, UploadInvariant, PTL

-----------------------------------------------------------------------------
(* QuotaConserved.  Every step is about one upload, and moves the counter  *)
(* exactly when it moves that upload in or out of the charged ones.        *)

Counts(u) ==
    \/ used' = used /\ (u \in Charged' <=> u \in Charged)
    \/ used' = used + 1 /\ u \notin Charged /\ u \in Charged'
    \/ used' = LessOne(used) /\ u \in Charged /\ u \notin Charged'

\* A write that is not out of date is made from the counter itself.
LEMMA FreshWrite ==
  ASSUME NEW read, NEW value, WriteUsed(read, value), ~stale'
  PROVE  used = read /\ used' = value /\ ~stale
BY Zenon DEF WriteUsed

\* A request that is not cut short counts its own upload.
LEMMA RequestCounts ==
  ASSUME TypeOK, UploadInv, NEW u \in Uploads, RequestStep(u, Locked(u)), UNCHANGED run,
         ~stale', broken' = {}
  PROVE  Counts(u)
<1> USE DEF PCs, Requesting, Charged
<1>1. AccountTypeOK
  BY DEF TypeOK
<1>2. CASE Authenticate(u)
  BY <1>1, <1>2, ReadsThere DEF Authenticate, At, Counts
<1>3. CASE EnforceActiveTaskLimit(u)
  BY <1>1, <1>3, GoesThere DEF EnforceActiveTaskLimit, At, Counts
<1>4. CASE ConsumeQuota(u)
  <2>1. req[u].pc = "checked"
    BY <1>4 DEF ConsumeQuota, At
  <2>2. CASE Goes(u, "refused") /\ UNCHANGED used
    BY <1>1, <2>1, <2>2, GoesThere DEF Counts
  <2>3. CASE Goes(u, "charged") /\ WriteUsed(req[u].seen, req[u].seen + 1)
    <3>1. used' = used + 1
      BY <2>3, FreshWrite
    <3> QED
      BY <1>1, <2>1, <2>3, <3>1, GoesThere DEF Counts
  <2> QED
    BY <1>4, <2>2, <2>3 DEF ConsumeQuota
<1>5. CASE Store(u)
  BY <1>1, <1>5, GoesThere DEF Store, At, Counts
<1>6. CASE InsertRow(u)
  BY <1>1, <1>6, GoesThere DEF InsertRow, At, Counts
<1>7. CASE Dispatch(u)
  <2>1. req[u].pc = "inserted" /\ u \notin broken /\ UNCHANGED <<used, task>>
    BY <1>7 DEF Dispatch, At
  <2>2. task[u] = "pending"
    BY <2>1 DEF UploadInv, Whole
  <2>3. req'[u].pc \in {"done", "deleteRow"}
    BY <1>1, <1>7, GoesThere DEF Dispatch
  <2> QED
    BY <2>1, <2>2, <2>3 DEF Counts
<1>8. CASE CleanupPersistedTask(u, Locked(u))
  BY <1>1, <1>8, GoesThere DEF CleanupPersistedTask, At, Counts
<1>9. CASE DeleteObject(u)
  BY <1>1, <1>9, GoesThere DEF DeleteObject, CleanupUploadedObject, At, Counts
<1>10. CASE RefundReads(u)
  BY <1>1, <1>10, ReadsThere DEF RefundReads, At, Counts
<1>11. CASE RefundWrites(u)
  <2>1. req[u].pc = "refunding" /\ req'[u].pc = "refused"
    BY <1>1, <1>11, GoesThere DEF RefundWrites, At
  <2>2. WriteUsed(req[u].seen, LessOne(req[u].seen))
    BY <1>11 DEF RefundWrites
  <2>3. used' = LessOne(used)
    BY <2>2, FreshWrite
  <2> QED
    BY <2>1, <2>3 DEF Counts
<1>12. CASE RequestDies(u)
  BY <1>12 DEF RequestDies
<1> QED
  BY <1>2, <1>3, <1>4, <1>5, <1>6, <1>7, <1>8, <1>9, <1>10, <1>11, <1>12 DEF RequestStep

\* A run that breaks gives back what its upload was charged; nothing else in a run counts.
LEMMA RunCounts ==
  ASSUME TypeOK, UploadInv, NEW u \in Uploads, RunStep(u), ~stale', broken' = {}
  PROVE  Counts(u)
<1> USE DEF Charged
<1>1. req' = req /\ broken = {}
  BY DEF RunStep, TakeMessage, Preflight, ProbeAnswered, EarlierStages, CallProvider, FailReads,
         FailWrites, Resume
<1>2. NotBegun(u) /\ Whole(u) /\ req[u].pc \in PCs
  BY <1>1 DEF UploadInv, TypeOK, AccountTypeOK, PCs
<1>3. run[u].pc # "none" => req[u].pc = "done" /\ task[u] = "processing"
  BY <1>2 DEF NotBegun, Whole, Quiet, Early, TakenBack, PCs, Requesting
<1>4. ASSUME task[u] # "failed", task'[u] # "failed", used' = used PROVE Counts(u)
  BY <1>1, <1>4 DEF Counts
<1>5. CASE TakeMessage(u)
  BY <1>4, <1>5, SetsStatus DEF TakeMessage, Status, Counts
<1>6. ASSUME NEW start \in Start, run[u].pc # "none", Pauses(u, start), used' = used PROVE Counts(u)
  BY <1>3, <1>4, <1>6, SetsStatus DEF Pauses, Status
<1>7. run[u].start \in Start /\ "earlier" \in Start /\ "translating" \in Start
  BY DEF TypeOK, Start
<1>8. CASE Preflight(u)
  BY <1>3, <1>4, <1>6, <1>7, <1>8 DEF Preflight, Running
<1>9. CASE ProbeAnswered(u)
  BY <1>3, <1>4, <1>6, <1>7, <1>9 DEF ProbeAnswered, Running
<1>10. CASE EarlierStages(u)
  BY <1>3, <1>4, <1>6, <1>7, <1>10 DEF EarlierStages, Running
<1>11. CASE CallProvider(u)
  BY <1>3, <1>4, <1>6, <1>7, <1>11, SetsStatus DEF CallProvider, Running, Status
<1>12. CASE FailReads(u)
  BY <1>1, <1>12 DEF FailReads, Counts
<1>13. CASE FailWrites(u)
  <2>1. req[u].pc = "done" /\ task[u] = "processing"
    BY <1>3, <1>13 DEF FailWrites, Running
  <2>2. task'[u] = "failed"
    BY <1>13, <2>1, SetsStatus DEF FailWrites, Status
  <2>3. used' = LessOne(used)
    <3>1. WriteUsed(run[u].seen, LessOne(run[u].seen))
      BY <1>13 DEF FailWrites, RefundOfFailure
    <3> QED
      BY <3>1, FreshWrite
  <2> QED
    BY <1>1, <2>1, <2>2, <2>3, Zenon DEF Counts
<1>14. CASE Resume(u)
  BY <1>4, <1>14 DEF Resume, TypeOK, AccountTypeOK
<1> QED
  BY <1>5, <1>8, <1>9, <1>10, <1>11, <1>12, <1>13, <1>14 DEF RunStep

\* A step that counts its upload, and keeps the others, keeps the counter right.
LEMMA CountsKeeps ==
  ASSUME TypeOK, used = Cardinality(Charged), NEW u \in Uploads, OthersKept(u), Counts(u)
  PROVE  used' = Cardinality(Charged')
<1>1. IsFiniteSet(Charged) /\ Cardinality(Charged) \in Nat
  BY AccountAssumption, FS_Subset, FS_CardinalityType DEF Charged
<1>2. \A v \in Uploads \ {u} : v \in Charged' <=> v \in Charged
  BY DEF OthersKept, Charged
<1>3. Charged \subseteq Uploads /\ Charged' \subseteq Uploads
  BY DEF Charged
<1>4. CASE used' = used /\ (u \in Charged' <=> u \in Charged)
  <2>1. Charged' = Charged
    BY <1>2, <1>3, <1>4
  <2> QED
    BY <1>4, <2>1
<1>5. CASE used' = used + 1 /\ u \notin Charged /\ u \in Charged'
  <2>1. Charged' = Charged \cup {u}
    BY <1>2, <1>3, <1>5
  <2> QED
    BY <1>1, <1>5, <2>1, FS_AddElement
<1>6. CASE used' = LessOne(used) /\ u \in Charged /\ u \notin Charged'
  <2>1. Charged' = Charged \ {u}
    BY <1>2, <1>3, <1>6
  <2>2. Cardinality(Charged) # 0
    BY <1>1, <1>6, FS_EmptySet
  <2>3. LessOne(used) = used - 1
    BY <1>1, <2>2 DEF LessOne
  <2>4. Cardinality(Charged \ {u}) = Cardinality(Charged) - 1
    BY <1>1, <1>6, FS_RemoveElement
  <2> QED
    BY <1>6, <2>1, <2>3, <2>4
<1> QED
  BY <1>4, <1>5, <1>6 DEF Counts

\* What has gone wrong stays gone wrong.
LEMMA WrongStaysWrong ==
  ASSUME TypeOK, NEW u \in Uploads, RequestStep(u, Locked(u)) \/ RunStep(u)
  PROVE  broken \subseteq broken' /\ (stale => stale')
<1>1. CASE RequestStep(u, Locked(u))
  <2>1. broken \subseteq broken'
    BY <1>1 DEF RequestStep, Authenticate, EnforceActiveTaskLimit, ConsumeQuota, Store, InsertRow,
                Dispatch, CleanupPersistedTask, DeleteObject, CleanupUploadedObject, RefundReads,
                RefundWrites, RequestDies
  <2>2. stale => stale'
    BY <1>1, Zenon DEF RequestStep, Authenticate, EnforceActiveTaskLimit, ConsumeQuota, Store,
                InsertRow, Dispatch, CleanupPersistedTask, DeleteObject, RefundReads,
                RefundWrites, RequestDies, WriteUsed
  <2> QED
    BY <2>1, <2>2
<1>2. CASE RunStep(u)
  <2>1. broken \subseteq broken'
    BY <1>2 DEF RunStep, TakeMessage, Preflight, ProbeAnswered, EarlierStages, CallProvider,
                FailReads, FailWrites, Resume
  <2>2. stale => stale'
    BY <1>2, Zenon DEF RunStep, TakeMessage, Preflight, ProbeAnswered, EarlierStages, CallProvider,
                FailReads, FailWrites, RefundOfFailure, WriteUsed, Resume
  <2> QED
    BY <2>1, <2>2
<1> QED
  BY <1>1, <1>2

\* The counter is the number of uploads that are charged.
THEOREM QuotaIsConserved == Spec => []QuotaConserved
<1>1. Init => QuotaConserved
  <2> SUFFICES ASSUME Init PROVE used = Cardinality(Charged)
    BY DEF QuotaConserved
  <2>1. used = 0 /\ \A u \in Uploads : req[u].pc \in {"idle", "absent"}
    BY DEF Init, AccountInit
  <2>2. Charged = {}
    BY <2>1 DEF Charged
  <2> QED
    BY <2>1, <2>2, FS_EmptySet
<1>2. TypeOK /\ UploadInv /\ QuotaConserved /\ [Next]_vars => QuotaConserved'
  <2> SUFFICES ASSUME TypeOK, UploadInv, QuotaConserved, [Next]_vars, ~stale', broken' = {}
               PROVE  used' = Cardinality(Charged')
    BY DEF QuotaConserved
  <2>1. ASSUME NEW u \in Uploads, \/ RequestStep(u, Locked(u)) /\ UNCHANGED run
                                  \/ RunStep(u)
        PROVE  used' = Cardinality(Charged')
    <3>1. ~stale /\ broken = {}
      BY <2>1, WrongStaysWrong
    <3>2. Counts(u)
      BY <2>1, RequestCounts, RunCounts
    <3>3. OthersKept(u)
      BY <2>1, RequestKeepsOthers, RunKeepsOthers
    <3> QED
      BY <3>1, <3>2, <3>3, CountsKeeps DEF QuotaConserved
  <2>2. CASE UNCHANGED account
    BY <2>2 DEF account, QuotaConserved, Charged
  <2> QED
    BY <2>1, <2>2 DEF Next, vars
<1> QED
  BY <1>1, <1>2, TypeCorrect, UploadInvariant, PTL DEF Spec

-----------------------------------------------------------------------------
(* ActiveWithinLimit.  Whoever gets past the check finds room for a task;  *)
(* the requests that have got past it before are in progress with it.      *)

Waiting == {u \in Uploads : req[u].pc \in {"checked", "charged", "stored"}}
Counted == Active \ resumed
LimitInv == Cardinality(InProgress) <= MaxParallel /\ ActiveWithinLimit

\* The sets of uploads that are counted are finite.
LEMMA CountedFinite ==
  ASSUME NEW S \in SUBSET Uploads
  PROVE  IsFiniteSet(S) /\ Cardinality(S) \in Nat
BY AccountAssumption, FS_Subset, FS_CardinalityType

\* One element more is at most one more.
LEMMA OneMore ==
  ASSUME NEW S, NEW x, IsFiniteSet(S)
  PROVE  /\ IsFiniteSet(S \cup {x})
         /\ Cardinality(S \cup {x}) \in Nat
         /\ Cardinality(S \cup {x}) <= Cardinality(S) + 1
<1>1. IsFiniteSet(S \cup {x}) /\ Cardinality(S) \in Nat
  BY FS_AddElement, FS_CardinalityType
<1>2. Cardinality(S \cup {x}) \in Nat
  BY <1>1, FS_CardinalityType
<1>3. Cardinality(S \cup {x}) = Cardinality(S) \/ Cardinality(S \cup {x}) = Cardinality(S) + 1
  BY FS_AddElement
<1> QED
  BY <1>1, <1>2, <1>3

\* A request enters only while there is room.
LEMMA ProgressStep ==
  ASSUME TypeOK, NEW u \in Uploads, RequestStep(u, Locked(u))
  PROVE  \/ u \in InProgress' => u \in InProgress
         \/ Cardinality(InProgress) < MaxParallel
BY DEF RequestStep, Authenticate, EnforceActiveTaskLimit, ConsumeQuota, Store, InsertRow, Dispatch,
       CleanupPersistedTask, DeleteObject, CleanupUploadedObject, RefundReads, RefundWrites,
       RequestDies, At, InProgress, Requesting

\* How one step moves an upload among those that wait and those that count.
Moves(u) ==
    \/ (u \in Counted' => u \in Counted) /\ (u \in Waiting' => u \in Waiting)
    \/ u \in Waiting /\ u \notin Waiting'
    \/ /\ u \in InProgress /\ u \notin Waiting
       /\ MaxActive > 0 => Cardinality(Active) < MaxActive
       /\ u \in Counted' => u \in Counted

\* A request moves its upload so.
LEMMA RequestMoves ==
  ASSUME TypeOK, NEW u \in Uploads, RequestStep(u, Locked(u)), UNCHANGED run
  PROVE  Moves(u)
<1> USE DEF PCs, Requesting, Waiting, Counted, Active
<1>1. AccountTypeOK
  BY DEF TypeOK
<1>2. CASE Authenticate(u)
  BY <1>1, <1>2, ReadsThere DEF Authenticate, Moves
<1>3. CASE EnforceActiveTaskLimit(u)
  <2>1. req[u].pc = "authed" /\ UNCHANGED <<task, resumed>>
    BY <1>3 DEF EnforceActiveTaskLimit, At
  <2>2. u \in InProgress /\ u \notin Waiting /\ Counted' = Counted
    BY <2>1 DEF InProgress
  <2>3. CASE MaxActive > 0 /\ CountActive >= MaxActive
    <3>1. req'[u].pc = "refused"
      BY <1>1, <1>3, <2>3, GoesThere DEF EnforceActiveTaskLimit
    <3> QED
      BY <2>2, <3>1 DEF Moves
  <2>4. CASE ~(MaxActive > 0 /\ CountActive >= MaxActive)
    <3>1. Cardinality(Active) \in Nat
      BY CountedFinite
    <3>2. MaxActive > 0 => Cardinality(Active) < MaxActive
      BY <2>4, <3>1, AccountAssumption DEF CountActive
    <3> QED
      BY <2>2, <3>2 DEF Moves
  <2> QED
    BY <2>3, <2>4
<1>4. CASE ConsumeQuota(u)
  BY <1>1, <1>4, GoesThere DEF ConsumeQuota, At, Moves
<1>5. CASE Store(u)
  BY <1>1, <1>5, GoesThere DEF Store, At, Moves
<1>6. CASE InsertRow(u)
  BY <1>1, <1>6, GoesThere DEF InsertRow, At, Moves
<1>7. CASE Dispatch(u)
  BY <1>1, <1>7, GoesThere DEF Dispatch, At, Moves
<1>8. CASE CleanupPersistedTask(u, Locked(u))
  BY <1>1, <1>8, GoesThere DEF CleanupPersistedTask, At, Moves, ACTIVE_TASK_STATUSES, AccountTypeOK
<1>9. CASE DeleteObject(u)
  BY <1>1, <1>9, GoesThere DEF DeleteObject, CleanupUploadedObject, Moves
<1>10. CASE RefundReads(u)
  BY <1>1, <1>10, ReadsThere DEF RefundReads, Moves
<1>11. CASE RefundWrites(u)
  BY <1>1, <1>11, GoesThere DEF RefundWrites, Moves
<1>12. CASE RequestDies(u)
  BY <1>1, <1>12, GoesThere DEF RequestDies, Moves
<1> QED
  BY <1>2, <1>3, <1>4, <1>5, <1>6, <1>7, <1>8, <1>9, <1>10, <1>11, <1>12 DEF RequestStep

\* A run leaves its upload among those that count, or takes it away; a resume is not counted.
LEMMA RunMoves ==
  ASSUME TypeOK, NEW u \in Uploads, RunStep(u)
  PROVE  Moves(u)
<1>1. req' = req /\ resumed \subseteq resumed'
  BY DEF RunStep, TakeMessage, Preflight, ProbeAnswered, EarlierStages, CallProvider, FailReads,
         FailWrites, Resume
<1>2. \/ task' = task
      \/ task[u] = "pending" /\ SetStatus(u, "processing")
      \/ \E status \in {"paused", "completed", "failed"} : SetStatus(u, status)
      \/ u \in resumed'
  BY DEF RunStep, TakeMessage, Preflight, ProbeAnswered, EarlierStages, CallProvider, FailReads,
         FailWrites, Resume, Pauses
<1>3. u \in Counted' => u \in Counted
  <2>1. CASE task' = task
    BY <1>1, <2>1 DEF Counted, Active
  <2>2. CASE task[u] = "pending"
    BY <1>1, <2>2 DEF Counted, Active, ACTIVE_TASK_STATUSES
  <2>3. ASSUME NEW status \in {"paused", "completed", "failed"}, SetStatus(u, status)
        PROVE  u \notin Counted'
    <3>1. task'[u] \in {"gone", "paused", "completed", "failed"}
      BY <2>3, SetsStatus DEF Status
    <3> QED
      BY <3>1 DEF Counted, Active, ACTIVE_TASK_STATUSES
  <2>4. CASE u \in resumed'
    BY <2>4 DEF Counted
  <2> QED
    BY <1>2, <2>1, <2>2, <2>3, <2>4
<1> QED
  BY <1>1, <1>3 DEF Moves, Waiting

\* However an upload moves, the limit is overrun by no more than the requests in parallel.
LEMMA MovesKeeps ==
  ASSUME TypeOK, LimitInv, NEW u \in Uploads, OthersKept(u), Moves(u)
  PROVE  ActiveWithinLimit'
<1> SUFFICES ASSUME MaxActive > 0
             PROVE  Cardinality(Counted') + Cardinality(Waiting') <= MaxActive + MaxParallel - 1
  BY DEF ActiveWithinLimit, Counted, Waiting
<1>1. Cardinality(Counted) + Cardinality(Waiting) <= MaxActive + MaxParallel - 1
  BY DEF LimitInv, ActiveWithinLimit, Counted, Waiting
<1>2. /\ Counted \in SUBSET Uploads /\ Counted' \in SUBSET Uploads
      /\ Waiting \in SUBSET Uploads /\ Waiting' \in SUBSET Uploads
      /\ Active \in SUBSET Uploads /\ InProgress \in SUBSET Uploads
  BY DEF Counted, Active, Waiting, InProgress
<1>3. /\ Cardinality(Counted) \in Nat /\ Cardinality(Counted') \in Nat
      /\ Cardinality(Waiting) \in Nat /\ Cardinality(Waiting') \in Nat
      /\ Cardinality(Active) \in Nat /\ Cardinality(InProgress) \in Nat
      /\ IsFiniteSet(Counted) /\ IsFiniteSet(Waiting)
      /\ IsFiniteSet(Active) /\ IsFiniteSet(InProgress)
  BY <1>2, CountedFinite
<1>4. \A v \in Uploads \ {u} : (v \in Counted' <=> v \in Counted) /\ (v \in Waiting' <=> v \in Waiting)
  <2> SUFFICES ASSUME NEW v \in Uploads \ {u}
               PROVE  (v \in Counted' <=> v \in Counted) /\ (v \in Waiting' <=> v \in Waiting)
    OBVIOUS
  <2>1. task'[v] = task[v] /\ req'[v] = req[v] /\ (v \in resumed' <=> v \in resumed)
    BY DEF OthersKept
  <2> QED
    BY <2>1 DEF Counted, Active, Waiting
<1>5. CASE (u \in Counted' => u \in Counted) /\ (u \in Waiting' => u \in Waiting)
  <2>1. Counted' \subseteq Counted /\ Waiting' \subseteq Waiting
    BY <1>2, <1>4, <1>5
  <2>2. Cardinality(Counted') <= Cardinality(Counted) /\ Cardinality(Waiting') <= Cardinality(Waiting)
    BY <1>3, <2>1, FS_Subset
  <2> QED
    BY <1>1, <1>3, <2>2, AccountAssumption
<1>6. CASE u \in Waiting /\ u \notin Waiting'
  <2>1. Waiting' = Waiting \ {u} /\ Counted' \subseteq Counted \cup {u}
    BY <1>2, <1>4, <1>6
  <2>2. Cardinality(Waiting') = Cardinality(Waiting) - 1
    BY <1>3, <1>6, <2>1, FS_RemoveElement
  <2>3. IsFiniteSet(Counted \cup {u}) /\ Cardinality(Counted \cup {u}) <= Cardinality(Counted) + 1
    BY <1>3, OneMore
  <2>4. Cardinality(Counted') <= Cardinality(Counted \cup {u}) /\ Cardinality(Counted \cup {u}) \in Nat
    BY <2>1, <2>3, FS_Subset, FS_CardinalityType
  <2> QED
    BY <1>1, <1>3, <2>2, <2>3, <2>4, AccountAssumption
<1>7. CASE /\ u \in InProgress /\ u \notin Waiting
           /\ Cardinality(Active) < MaxActive
           /\ u \in Counted' => u \in Counted
  <2>1. Counted' \subseteq Active /\ Waiting' \subseteq InProgress
    <3>1. Counted \subseteq Active /\ Waiting \subseteq InProgress
      BY DEF Counted, Waiting, InProgress, Requesting
    <3> QED
      BY <1>2, <1>4, <1>7, <3>1
  <2>2. Cardinality(Counted') <= Cardinality(Active) /\ Cardinality(Waiting') <= Cardinality(InProgress)
    BY <1>3, <2>1, FS_Subset
  <2>3. Cardinality(InProgress) <= MaxParallel
    BY DEF LimitInv
  <2> QED
    BY <1>3, <1>7, <2>2, <2>3, AccountAssumption
<1> QED
  BY <1>5, <1>6, <1>7 DEF Moves

\* Parallel uploads overrun the limit of active tasks by less than their number.
THEOREM LimitIsKept == Spec => []ActiveWithinLimit
<1>1. Init => LimitInv
  <2> SUFFICES ASSUME Init PROVE LimitInv
    OBVIOUS
  <2>1. \A u \in Uploads : req[u].pc \in {"idle", "absent"} /\ task[u] = "none"
    BY DEF Init, AccountInit
  <2>2. InProgress = {} /\ Counted = {} /\ Waiting = {}
    BY <2>1 DEF InProgress, Requesting, Counted, Active, ACTIVE_TASK_STATUSES, Waiting
  <2>3. Cardinality({}) = 0
    BY FS_EmptySet
  <2> QED
    BY <2>2, <2>3, AccountAssumption DEF LimitInv, ActiveWithinLimit, Counted, Waiting
<1>2. TypeOK /\ LimitInv /\ [Next]_vars => LimitInv'
  <2> SUFFICES ASSUME TypeOK, LimitInv, [Next]_vars PROVE LimitInv'
    OBVIOUS
  <2>1. ASSUME NEW u \in Uploads, RequestStep(u, Locked(u)), UNCHANGED run PROVE LimitInv'
    <3>1. OthersKept(u)
      BY <2>1, RequestKeepsOthers
    <3>2. ActiveWithinLimit'
      BY <2>1, <3>1, RequestMoves, MovesKeeps
    <3>3. Cardinality(InProgress') <= MaxParallel
      <4>1. InProgress \in SUBSET Uploads /\ InProgress' \in SUBSET Uploads
        BY DEF InProgress
      <4>2. /\ IsFiniteSet(InProgress) /\ Cardinality(InProgress) \in Nat
            /\ Cardinality(InProgress') \in Nat
        BY <4>1, CountedFinite
      <4>3. \A v \in Uploads \ {u} : v \in InProgress' <=> v \in InProgress
        BY <3>1 DEF OthersKept, InProgress
      <4>4. CASE u \in InProgress' => u \in InProgress
        <5>1. InProgress' \subseteq InProgress
          BY <4>1, <4>3, <4>4
        <5>2. Cardinality(InProgress') <= Cardinality(InProgress)
          BY <4>2, <5>1, FS_Subset
        <5> QED
          BY <4>2, <5>2, AccountAssumption DEF LimitInv
      <4>5. CASE Cardinality(InProgress) < MaxParallel
        <5>1. InProgress' \subseteq InProgress \cup {u}
          BY <4>1, <4>3
        <5>2. /\ IsFiniteSet(InProgress \cup {u})
              /\ Cardinality(InProgress \cup {u}) <= Cardinality(InProgress) + 1
              /\ Cardinality(InProgress \cup {u}) \in Nat
          BY <4>2, OneMore
        <5>3. Cardinality(InProgress') <= Cardinality(InProgress \cup {u})
          BY <5>1, <5>2, FS_Subset
        <5> QED
          BY <4>2, <4>5, <5>2, <5>3, AccountAssumption
      <4> QED
        BY <2>1, <4>4, <4>5, ProgressStep
    <3> QED
      BY <3>2, <3>3 DEF LimitInv
  <2>2. ASSUME NEW u \in Uploads, RunStep(u) PROVE LimitInv'
    <3>1. ActiveWithinLimit'
      BY <2>2, RunKeepsOthers, RunMoves, MovesKeeps
    <3>2. req' = req
      BY <2>2 DEF RunStep, TakeMessage, Preflight, ProbeAnswered, EarlierStages, CallProvider,
                  FailReads, FailWrites, Resume
    <3> QED
      BY <3>1, <3>2 DEF LimitInv, InProgress
  <2>3. CASE UNCHANGED account
    BY <2>3 DEF account, LimitInv, InProgress, ActiveWithinLimit, Active
  <2> QED
    BY <2>1, <2>2, <2>3 DEF Next, vars
<1>3. LimitInv => ActiveWithinLimit
  BY DEF LimitInv
<1> QED
  BY <1>1, <1>2, <1>3, TypeCorrect, PTL DEF Spec
=============================================================================
