---------------------------- MODULE PublishProofs ----------------------------
(***************************************************************************)
(* Theorems about the publish pipeline, for every set of jobs, requests,   *)
(* worker runs, status readers and blob writers, every upload size and     *)
(* every budget.                                                           *)
(***************************************************************************)
EXTENDS PublishWorker, FiniteSetTheorems, TLAPS

-----------------------------------------------------------------------------
(* What the operators on rows return.                                       *)

LEMMA ResultTypes ==
    /\ NoResult \in Result /\ Uploading \in Result /\ Unavailable \in Result
    /\ \A v \in Nat : Published(v) \in Result
    /\ \A why \in Reasons : Failed(why) \in Result
BY DEF NoResult, Uploading, Unavailable, Published, Failed, Result, Reasons, FailReasons

LEMMA CompletedType ==
    ASSUME NEW result \in Result
    PROVE  Completed(result) \in AttemptRow
BY DEF Completed, AttemptRow, AttemptStatusOf, Result

LEMMA WithResultType ==
    ASSUME NEW blob \in Blob, NEW j \in Jobs, NEW result \in Result
    PROVE  WithResult(blob, j, result) \in Blob
<1>1. blob[j] \in ProjectRow
  BY DEF Blob
<1>2. JobStatusOf(result, blob[j].status)
        \in {"RUNNING", "VERIFYING", "COMPLETED", "FAILED"}
  BY <1>1 DEF JobStatusOf, ProjectRow
<1>3. MessageOf(result) \in Reasons \cup {"completed"}
  BY DEF MessageOf, Result
<1>4. QED
  BY <1>1, <1>2, <1>3 DEF WithResult, Blob, ProjectRow

LEMMA NewBlobType == NewBlob \in Blob
BY DEF NewBlob, Blob, NewProject, ProjectRow, NoResult, Result, Reasons, FailReasons

LEMMA NoAttemptType == NoAttempt \in AttemptRow
BY ResultTypes DEF NoAttempt, AttemptRow

LEMMA NoSessionType == NoSession \in SessionRow
BY DEF NoSession, SessionRow, Reasons, FailReasons

LEMMA SessionUpdateTypes ==
    ASSUME NEW s \in SessionRow
    PROVE  /\ \A o \in Nat : Progressed(s, o) \in SessionRow
           /\ \A result \in Result : SessionFailed(s, result) \in SessionRow
           /\ \A v \in Nat : SessionDone(s, v) \in SessionRow
BY StoreAssumption DEF SessionRow, Progressed, SessionFailed, SessionDone, Result

LEMMA RunUpdateTypes ==
    ASSUME NEW row \in RunRow
    PROVE  /\ IdleRun \in RunRow
           /\ Resumed(row) \in RunRow
           /\ \A pc \in {"termState", "failSession", "completeSession"}, result \in Result :
                 Leave(row, pc, result) \in RunRow
<1>1. SomeJob \in Jobs
  BY StoreAssumption DEF SomeJob
<1>2. IdleRun \in RunRow
  BY <1>1, NewBlobType, NoAttemptType, ResultTypes DEF IdleRun, RunRow
<1>3. Resumed(row) \in RunRow
  BY <1>2 DEF Resumed, RunRow
<1>4. QED
  BY <1>2, <1>3 DEF Leave, RunRow

-----------------------------------------------------------------------------
(* Type correctness.  Each group of actions changes one local state and some *)
(* of the rows.                                                             *)

LEMMA TypeInit == Init => TypeOK
<1> SUFFICES ASSUME Init PROVE TypeOK
  OBVIOUS
<1> USE DEF Init, RequestInit
<1>1. attempt \in [Jobs -> AttemptRow] /\ session \in [Jobs -> SessionRow] /\ os \in Blob
  BY NoAttemptType, NoSessionType, NewBlobType
<1>2. youtube \in [Jobs -> Channel]
  BY DEF NewChannel, Channel
<1>3. req \in [Requests -> ReqRow]
  BY NewBlobType, ResultTypes DEF ReqRow
<1>4. patch \in [Patchers -> PatchRow]
  BY NewBlobType DEF PatchRow
<1>5. run \in [Actors -> RunRow]
  <2>1. IdleRun \in RunRow
    BY StoreAssumption, NewBlobType, NoAttemptType, ResultTypes DEF IdleRun, RunRow, SomeJob
  <2>2. QED
    BY <2>1
<1>6. QED
  BY <1>1, <1>2, <1>3, <1>4, <1>5 DEF TypeOK

LEMMA RequestTypes ==
    ASSUME TypeOK, NEW r \in Requests,
           RequestStep(r) \/ AsyncFault(r) \/ CrashRequest(r), UNCHANGED run
    PROVE  TypeOK'
<1>1. req[r] \in ReqRow /\ req[r].job \in Jobs
  BY DEF TypeOK, ReqRow
<1>2. /\ attempt[req[r].job].result \in Result /\ os[req[r].job].result \in Result
      /\ youtube[req[r].job].videos + 1 \in Nat /\ os \in Blob
  BY <1>1 DEF TypeOK, Blob, AttemptRow, ProjectRow, Channel
<1>3. NextBorn \in Nat
  <2>1. IsFiniteSet({j \in Jobs : session[j].status # "none"})
    BY FS_Subset, StoreAssumption
  <2>2. QED
    BY <2>1, FS_CardinalityType DEF NextBorn
<1>4. CASE LoadState(r)
  <2>1. req' \in [Requests -> ReqRow]
    <3>1. os[req[r].job].result \in Result
      BY <1>2
    <3>2. QED
      BY <1>1, <3>1, <1>4 DEF TypeOK, LoadState, ReqRow
  <2>2. QED
    BY <1>4, <2>1 DEF TypeOK, LoadState, storeVars
<1>5. CASE AcquireCreate(r)
  <2>1. attempt' \in [Jobs -> AttemptRow]
    BY <1>1, ResultTypes, <1>5 DEF TypeOK, AcquireCreate, AttemptRow
  <2>2. req' \in [Requests -> ReqRow]
    BY <1>1, <1>5 DEF TypeOK, AcquireCreate, ReqRow
  <2>3. QED
    BY <1>5, <2>1, <2>2 DEF TypeOK, AcquireCreate, storeVars
<1>6. CASE AcquireExisting(r)
  <2>1. req' \in [Requests -> ReqRow]
    <3> DEFINE row == attempt[req[r].job]
    <3>1. \/ req' = [req EXCEPT ![r].pc = "persist", ![r].result = row.result]
          \/ req' = [req EXCEPT ![r].pc = "reclaim"]
          \/ req' = [req EXCEPT ![r] = Ended(@, "conflict")]
          \/ req' = [req EXCEPT ![r] = Ended(@, "refused")]
      BY <1>6 DEF AcquireExisting
    <3>2. Ended(req[r], "conflict") \in ReqRow /\ Ended(req[r], "refused") \in ReqRow
      BY <1>1, NewBlobType DEF Ended, ReqRow
    <3>3. row.result \in Result
      BY <1>2
    <3>4. QED
      BY <1>1, <3>1, <3>2, <3>3 DEF TypeOK, ReqRow
  <2>2. QED
    BY <1>6, <2>1 DEF TypeOK, AcquireExisting, storeVars
<1>7. CASE Reclaim(r)
  <2>1. attempt' \in [Jobs -> AttemptRow]
    BY <1>1, <1>7 DEF TypeOK, Reclaim, AttemptRow
  <2>2. req' \in [Requests -> ReqRow]
    BY <1>1, <1>7 DEF TypeOK, Reclaim, ReqRow
  <2>3. QED
    BY <1>7, <2>1, <2>2 DEF TypeOK, Reclaim, storeVars
<1>8. CASE FindUnavailable(r)
  <2>1. req' \in [Requests -> ReqRow]
    BY <1>1, ResultTypes, <1>8 DEF TypeOK, FindUnavailable, ReqRow
  <2>2. QED
    BY <1>8, <2>1 DEF TypeOK, FindUnavailable, storeVars
<1>9. CASE UploadSync(r)
  <2>1. youtube' \in [Jobs -> Channel]
    BY <1>1, <1>2, <1>9 DEF TypeOK, UploadSync, Channel
  <2>2. req' \in [Requests -> ReqRow]
    <3> DEFINE v == youtube[req[r].job].videos + 1
    <3>1. Published(v) \in Result /\ Failed("upload_failed") \in Result
      BY <1>2, ResultTypes DEF Reasons, FailReasons
    <3>2. PICK result \in Result :
             req' = [req EXCEPT ![r].pc = "complete", ![r].result = result]
      BY <3>1, <1>9 DEF UploadSync
    <3>3. QED
      BY <1>1, <3>2 DEF TypeOK, ReqRow
  <2>3. QED
    BY <1>9, <2>1, <2>2 DEF TypeOK, UploadSync, storeVars
<1>10. CASE OpenSession(r)
  <2>1. session' \in [Jobs -> SessionRow]
    BY <1>1, <1>3, NoSessionType, <1>10 DEF TypeOK, OpenSession, SessionRow
  <2>2. youtube' \in [Jobs -> Channel]
    BY <1>1, <1>2, <1>10 DEF TypeOK, OpenSession, Channel
  <2>3. req' \in [Requests -> ReqRow]
    BY <1>1, ResultTypes, <1>10 DEF TypeOK, OpenSession, ReqRow
  <2>4. QED
    BY <1>10, <2>1, <2>2, <2>3 DEF TypeOK, OpenSession, storeVars
<1>11. CASE OpenSessionFails(r)
  <2>1. req' \in [Requests -> ReqRow]
    BY <1>1, ResultTypes, <1>11 DEF TypeOK, OpenSessionFails, ReqRow, Reasons, FailReasons
  <2>2. QED
    BY <1>11, <2>1 DEF TypeOK, OpenSessionFails, storeVars
<1>12. CASE CompleteAttempt(r)
  <2>1. attempt' \in [Jobs -> AttemptRow]
    BY <1>1, CompletedType, <1>12 DEF TypeOK, CompleteAttempt, ReqRow
  <2>2. req' \in [Requests -> ReqRow]
    BY <1>1, <1>12 DEF TypeOK, CompleteAttempt, ReqRow
  <2>3. QED
    BY <1>12, <2>1, <2>2 DEF TypeOK, CompleteAttempt, storeVars
<1>13. CASE PersistResult(r)
  <2>1. os' \in Blob
    BY <1>1, WithResultType, <1>13 DEF TypeOK, PersistResult, ReqRow
  <2>2. req' \in [Requests -> ReqRow]
    BY <1>1, NewBlobType, <1>13 DEF TypeOK, PersistResult, ReqRow, Ended
  <2>3. QED
    BY <1>13, <2>1, <2>2 DEF TypeOK, PersistResult, storeVars
<1>14. CASE AsyncFault(r)
  <2>1. req' \in [Requests -> ReqRow]
    BY <1>1, ResultTypes, <1>14 DEF TypeOK, AsyncFault, ReqRow, Reasons, FailReasons
  <2>2. QED
    BY <1>14, <2>1 DEF TypeOK, AsyncFault, storeVars
<1>15. CASE CrashRequest(r)
  <2>1. req' \in [Requests -> ReqRow]
    BY <1>1, NewBlobType, <1>15 DEF TypeOK, CrashRequest, ReqRow, Ended
  <2>2. QED
    BY <1>15, <2>1 DEF TypeOK, CrashRequest, storeVars
<1>16. QED
  BY <1>4, <1>5, <1>6, <1>7, <1>8, <1>9, <1>10, <1>11, <1>12, <1>13, <1>14, <1>15 DEF RequestStep

LEMMA PatchTypes ==
    ASSUME TypeOK, NEW p \in Patchers, PatchRead(p) \/ PatchPut(p), UNCHANGED run
    PROVE  TypeOK'
<1>1. patch[p] \in PatchRow
  BY DEF TypeOK
<1>2. os' \in Blob /\ patch' \in [Patchers -> PatchRow]
  BY <1>1, NewBlobType DEF TypeOK, PatchRead, PatchPut, PatchRow, storeVars
<1>3. QED
  BY <1>2 DEF TypeOK, PatchRead, PatchPut, storeVars

LEMMA TimeTypes ==
    ASSUME TypeOK, NEW j \in Jobs,
           \/ AttemptLapses(j) /\ UNCHANGED run
           \/ LeaseLapses(j) \/ SessionLapses(j)
    PROVE  TypeOK'
<1>1. CASE AttemptLapses(j) /\ UNCHANGED run
  <2>1. attempt' \in [Jobs -> AttemptRow]
    BY <1>1 DEF TypeOK, AttemptLapses, AttemptRow
  <2>2. QED
    BY <1>1, <2>1 DEF TypeOK, AttemptLapses
<1>2. CASE LeaseLapses(j)
  <2>1. session' \in [Jobs -> SessionRow]
    BY <1>2 DEF TypeOK, LeaseLapses, SessionRow
  <2>2. QED
    BY <1>2, <2>1 DEF TypeOK, LeaseLapses, UnchangedByWorker
<1>3. CASE SessionLapses(j)
  <2>1. session' \in [Jobs -> SessionRow]
    BY <1>3, ZenonT(60) DEF TypeOK, SessionLapses, SessionRow
  <2>2. QED
    BY <1>3, <2>1 DEF TypeOK, SessionLapses, UnchangedByWorker
<1>4. QED
  BY <1>1, <1>2, <1>3

LEMMA UploadFailedType == Failed("upload_failed") \in Result
BY ResultTypes DEF Reasons, FailReasons

LEMMA RunTypes ==
    ASSUME TypeOK, NEW w \in Actors, WorkerStep(w) \/ PollerStep(w) \/ CrashRun(w)
    PROVE  TypeOK'
<1>1. /\ run[w] \in RunRow /\ run[w].job \in Jobs
      /\ session[run[w].job] \in SessionRow /\ attempt[run[w].job] \in AttemptRow
      /\ youtube[run[w].job] \in Channel /\ os \in Blob
  BY DEF TypeOK, RunRow
<1>2. CASE ExpireStale(w)
  <2>1. session' \in [Jobs -> SessionRow]
    <3>1. ASSUME NEW j \in Jobs
          PROVE  [session[j] EXCEPT !.status = "expired", !.reason = "expired",
                                    !.lease = "none"] \in SessionRow
      BY DEF TypeOK, SessionRow, Reasons, FailReasons
    <3>2. QED
      BY <3>1, <1>2 DEF TypeOK, ExpireStale
  <2>2. run' \in [Actors -> RunRow]
    BY <1>1, <1>2 DEF TypeOK, ExpireStale, RunRow
  <2>3. QED
    BY <1>2, <2>1, <2>2 DEF TypeOK, ExpireStale, storeVars, UnchangedByWorker
<1>3. CASE ListDead(w)
  <2>1. run' \in [Actors -> RunRow]
    <3> DEFINE new == {[job |-> j, reason |-> session[j].reason] :
                          j \in Oldest({k \in Jobs : Dead(session[k])}, Limit)}
    <3>1. new \in SUBSET Listed
      <4>1. ASSUME NEW j \in Jobs
            PROVE  [job |-> j, reason |-> session[j].reason] \in Listed
        BY DEF TypeOK, Listed, SessionRow
      <4>2. QED
        BY <4>1 DEF Oldest
    <3>2. run' = [run EXCEPT ![w].pc = "reconcile", ![w].back = "reconcile",
                             ![w].listed = new]
      BY <1>3 DEF ListDead
    <3> HIDE DEF new
    <3>3. QED
      BY <1>1, <3>1, <3>2 DEF TypeOK, RunRow
  <2>2. QED
    BY <1>3, <2>1 DEF TypeOK, ListDead, storeVars, UnchangedByWorker
<1>4. CASE NextDead(w)
  <2>1. run' \in [Actors -> RunRow]
    <3> DEFINE Next1(s) == [run[w] EXCEPT !.pc = "termAttempt", !.listed = @ \ {s},
                              !.job = s.job, !.seen = os, !.result = Failed(s.reason)]
    <3>1. PICK s \in run[w].listed : run' = [run EXCEPT ![w] = Next1(s)]
      BY <1>4 DEF NextDead
    <3>2. s \in Listed
      BY <1>1 DEF RunRow
    <3>3. s.job \in Jobs /\ Failed(s.reason) \in Result
      BY <3>2, ResultTypes DEF Listed
    <3>4. Next1(s) \in RunRow
      BY <1>1, <3>3 DEF RunRow
    <3> HIDE DEF Next1
    <3>5. QED
      BY <3>1, <3>4 DEF TypeOK
  <2>2. QED
    BY <1>4, <2>1 DEF TypeOK, NextDead, storeVars, UnchangedByWorker
<1>5. CASE FindDue(w)
  <2>1. run' \in [Actors -> RunRow]
    BY <1>1, <1>5 DEF TypeOK, FindDue, RunRow, Oldest
  <2>2. QED
    BY <1>5, <2>1 DEF TypeOK, FindDue, storeVars, UnchangedByWorker
<1>6. CASE ClaimDue(w)
  <2>1. session' \in [Jobs -> SessionRow]
    BY <1>1, <1>6 DEF TypeOK, ClaimDue, SessionRow, RunRow
  <2>2. run' \in [Actors -> RunRow]
    <3>1. PICK j \in run[w].due :
             \/ run' = [run EXCEPT ![w].due = @ \ {j}]
             \/ run' = [run EXCEPT ![w].due = @ \ {j},
                          ![w].claimed = @ \cup {[job |-> j, offset |-> session[j].offset]}]
      BY <1>6 DEF ClaimDue
    <3>2. j \in Jobs
      BY <1>1 DEF RunRow
    <3>3. [job |-> j, offset |-> session[j].offset] \in Claimed
      BY <3>2 DEF Claimed, TypeOK, SessionRow
    <3>4. QED
      BY <1>1, <3>1, <3>3 DEF TypeOK, RunRow
  <2>3. QED
    BY <1>6, <2>1, <2>2 DEF TypeOK, ClaimDue, storeVars, UnchangedByWorker
<1>7. CASE EndRun(w)
  <2>1. run' \in [Actors -> RunRow]
    BY <1>1, RunUpdateTypes, <1>7 DEF TypeOK, EndRun, RunRow
  <2>2. QED
    BY <1>7, <2>1 DEF TypeOK, EndRun, storeVars, UnchangedByWorker
<1>8. CASE NextSession(w)
  <2>1. run' \in [Actors -> RunRow]
    <3> DEFINE Next1(s) ==
                 [run[w] EXCEPT !.due = {}, !.claimed = @ \ {s}, !.job = s.job,
                    !.offset = s.offset, !.att = attempt[s.job],
                    !.pc = IF attempt[s.job].status = "succeeded" THEN "confirm" ELSE "asset",
                    !.result = IF attempt[s.job].status = "succeeded"
                               THEN attempt[s.job].result ELSE NoResult]
    <3>1. PICK s \in run[w].claimed : run' = [run EXCEPT ![w] = Next1(s)]
      BY <1>8 DEF NextSession
    <3>2. s.job \in Jobs /\ s.offset \in Nat
      BY <1>1 DEF RunRow, Claimed
    <3>3. attempt[s.job] \in AttemptRow /\ attempt[s.job].result \in Result
      BY <3>2 DEF TypeOK, AttemptRow
    <3>4. Next1(s) \in RunRow
      BY <1>1, <3>2, <3>3, ResultTypes DEF RunRow
    <3> HIDE DEF Next1
    <3>5. QED
      BY <3>1, <3>4 DEF TypeOK
  <2>2. QED
    BY <1>8, <2>1 DEF TypeOK, NextSession, storeVars, UnchangedByWorker
<1>9. CASE NotReady(w)
  <2>1. session' \in [Jobs -> SessionRow]
    BY <1>1, SessionUpdateTypes, UploadFailedType, <1>9 DEF TypeOK, NotReady
  <2>2. run' \in [Actors -> RunRow]
    BY <1>1, RunUpdateTypes, UploadFailedType, <1>9 DEF TypeOK, NotReady, RunRow
  <2>3. QED
    BY <1>9, <2>1, <2>2 DEF TypeOK, NotReady, storeVars, UnchangedByWorker
<1>10. CASE ReadState(w)
  <2>1. run' \in [Actors -> RunRow]
    BY <1>1, <1>10 DEF TypeOK, ReadState, RunRow
  <2>2. QED
    BY <1>10, <2>1 DEF TypeOK, ReadState, storeVars, UnchangedByWorker
<1>11. CASE ReadChunk(w)
  <2>1. session' \in [Jobs -> SessionRow]
    <3>1. run[w].offset + 1 \in Nat
      BY <1>1 DEF RunRow
    <3>2. Progressed(session[run[w].job], run[w].offset + 1) \in SessionRow
      BY <1>1, <3>1, SessionUpdateTypes
    <3>3. QED
      BY <3>2, <1>11 DEF TypeOK, ReadChunk
  <2>2. run' \in [Actors -> RunRow]
    BY <1>1, <1>11 DEF TypeOK, ReadChunk, RunRow
  <2>3. QED
    BY <1>11, <2>1, <2>2 DEF TypeOK, ReadChunk, storeVars, UnchangedByWorker
<1>12. CASE ChunkUnreadable(w)
  <2>1. session' \in [Jobs -> SessionRow]
    BY <1>1, SessionUpdateTypes, UploadFailedType, <1>12 DEF TypeOK, ChunkUnreadable
  <2>2. run' \in [Actors -> RunRow]
    BY <1>1, RunUpdateTypes, UploadFailedType, <1>12 DEF TypeOK, ChunkUnreadable, RunRow
  <2>3. QED
    BY <1>12, <2>1, <2>2 DEF TypeOK, ChunkUnreadable, storeVars, UnchangedByWorker
<1>13. CASE PutChunk(w)
  <2>1. youtube' \in [Jobs -> Channel]
    BY <1>1, StoreAssumption, <1>13 DEF TypeOK, PutChunk, RunRow, Channel, AfterChunk
  <2>2. run' \in [Actors -> RunRow]
    <3> DEFINE done == IF Kept(run[w].job, run[w].offset)
                       THEN AfterChunk(youtube[run[w].job], run[w].offset).done
                       ELSE youtube[run[w].job].done
    <3>1. done \in Nat
      BY <1>1, StoreAssumption DEF RunRow, Channel, AfterChunk
    <3>2. \/ run' = [run EXCEPT ![w].pc = "chunk", ![w].offset = run[w].offset + 1,
                                ![w].sent = @ + 1]
          \/ run' = [run EXCEPT ![w] = Leave(@, "completeSession", Published(done))]
          \/ run' = [run EXCEPT ![w] = Leave(@, "failSession", Failed("upload_failed"))]
      BY <1>13 DEF PutChunk
    <3>3. Published(done) \in Result
      BY <3>1, ResultTypes
    <3>4. /\ Leave(run[w], "completeSession", Published(done)) \in RunRow
          /\ Leave(run[w], "failSession", Failed("upload_failed")) \in RunRow
      BY <1>1, <3>3, RunUpdateTypes, UploadFailedType
    <3> HIDE DEF done
    <3>5. QED
      BY <1>1, <3>2, <3>4 DEF TypeOK, RunRow
  <2>3. QED
    BY <1>13, <2>1, <2>2 DEF TypeOK, PutChunk, storeVars, UnchangedByWorker
<1>14. CASE Finalize(w)
  <2>1. run' \in [Actors -> RunRow]
    <3> DEFINE done == youtube[run[w].job].done
    <3>1. Published(done) \in Result
      BY <1>1, ResultTypes DEF Channel
    <3>2. /\ Leave(run[w], "completeSession", Published(done)) \in RunRow
          /\ Leave(run[w], "failSession", Failed("upload_failed")) \in RunRow
      BY <1>1, <3>1, RunUpdateTypes, UploadFailedType
    <3>3. QED
      BY <3>2, <1>14 DEF TypeOK, Finalize
  <2>2. QED
    BY <1>14, <2>1 DEF TypeOK, Finalize, storeVars, UnchangedByWorker
<1>15. CASE StopEarly(w)
  <2>1. session' \in [Jobs -> SessionRow]
    BY <1>1, SessionUpdateTypes, <1>15 DEF TypeOK, StopEarly, RunRow
  <2>2. run' \in [Actors -> RunRow]
    BY <1>1, RunUpdateTypes, <1>15 DEF TypeOK, StopEarly, RunRow
  <2>3. QED
    BY <1>15, <2>1, <2>2 DEF TypeOK, StopEarly, storeVars, UnchangedByWorker
<1>16. CASE FailSession(w)
  <2>1. session' \in [Jobs -> SessionRow]
    BY <1>1, SessionUpdateTypes, <1>16 DEF TypeOK, FailSession, RunRow
  <2>2. run' \in [Actors -> RunRow]
    BY <1>1, <1>16 DEF TypeOK, FailSession, RunRow
  <2>3. QED
    BY <1>16, <2>1, <2>2 DEF TypeOK, FailSession, storeVars, UnchangedByWorker
<1>17. CASE ConfirmSession(w)
  <2>1. session' \in [Jobs -> SessionRow]
    BY <1>1, SessionUpdateTypes, <1>17 DEF TypeOK, ConfirmSession, RunRow, Result
  <2>2. run' \in [Actors -> RunRow]
    BY <1>1, RunUpdateTypes, <1>17 DEF TypeOK, ConfirmSession, RunRow
  <2>3. QED
    BY <1>17, <2>1, <2>2 DEF TypeOK, ConfirmSession, storeVars, UnchangedByWorker
<1>18. CASE CompleteSession(w)
  <2>1. session' \in [Jobs -> SessionRow]
    BY <1>1, SessionUpdateTypes, <1>18 DEF TypeOK, CompleteSession, RunRow, Result
  <2>2. run' \in [Actors -> RunRow]
    BY <1>1, <1>18 DEF TypeOK, CompleteSession, RunRow
  <2>3. QED
    BY <1>18, <2>1, <2>2 DEF TypeOK, CompleteSession, storeVars, UnchangedByWorker
<1>19. CASE RecordSuccess(w)
  <2>1. attempt' \in [Jobs -> AttemptRow]
    BY <1>1, CompletedType, <1>19 DEF TypeOK, RecordSuccess, RunRow
  <2>2. run' \in [Actors -> RunRow]
    BY <1>1, <1>19 DEF TypeOK, RecordSuccess, RunRow
  <2>3. QED
    BY <1>19, <2>1, <2>2 DEF TypeOK, RecordSuccess, storeVars, UnchangedByWorker
<1>20. CASE ReadTermState(w)
  <2>1. run' \in [Actors -> RunRow]
    BY <1>1, <1>20 DEF TypeOK, ReadTermState, RunRow
  <2>2. QED
    BY <1>20, <2>1 DEF TypeOK, ReadTermState, storeVars, UnchangedByWorker
<1>21. CASE ReadTermAttempt(w)
  <2>1. run' \in [Actors -> RunRow]
    BY <1>1, <1>21 DEF TypeOK, ReadTermAttempt, RunRow
  <2>2. QED
    BY <1>21, <2>1 DEF TypeOK, ReadTermAttempt, storeVars, UnchangedByWorker
<1>22. CASE TerminateAttempt(w)
  <2>1. attempt' \in [Jobs -> AttemptRow]
    BY <1>1, CompletedType, <1>22 DEF TypeOK, TerminateAttempt, RunRow
  <2>2. run' \in [Actors -> RunRow]
    BY <1>1, RunUpdateTypes, NoAttemptType, <1>22 DEF TypeOK, TerminateAttempt, RunRow
  <2>3. QED
    BY <1>22, <2>1, <2>2 DEF TypeOK, TerminateAttempt, storeVars, UnchangedByWorker
<1>23. CASE PersistTerminal(w)
  <2>1. os' \in Blob
    BY <1>1, WithResultType, <1>23 DEF TypeOK, PersistTerminal, RunRow
  <2>2. run' \in [Actors -> RunRow]
    BY <1>1, RunUpdateTypes, <1>23 DEF TypeOK, PersistTerminal, RunRow
  <2>3. QED
    BY <1>23, <2>1, <2>2 DEF TypeOK, PersistTerminal, storeVars, UnchangedByWorker
<1>24. CASE PollState(w)
  <2>1. run' \in [Actors -> RunRow]
    <3>1. PICK j \in Jobs :
             run' = [run EXCEPT ![w] = [IdleRun EXCEPT !.pc = "pollAttempt", !.job = j,
                                                       !.seen = os]]
      BY <1>24 DEF PollState
    <3>2. [IdleRun EXCEPT !.pc = "pollAttempt", !.job = j, !.seen = os] \in RunRow
      BY <1>1, RunUpdateTypes, ZenonT(60) DEF RunRow
    <3>3. QED
      BY <3>1, <3>2 DEF TypeOK
  <2>2. QED
    BY <1>24, <2>1 DEF TypeOK, PollState, storeVars, UnchangedByWorker
<1>25. CASE PollAttempt(w)
  <2>1. run' \in [Actors -> RunRow]
    BY <1>1, <1>25 DEF TypeOK, PollAttempt, RunRow
  <2>2. QED
    BY <1>25, <2>1 DEF TypeOK, PollAttempt, storeVars, UnchangedByWorker
<1>26. CASE PollSession(w)
  <2>1. run' \in [Actors -> RunRow]
    <3>1. session[run[w].job].reason \in Reasons
      BY <1>1 DEF SessionRow
    <3>2. Failed(session[run[w].job].reason) \in Result
      BY <3>1, ResultTypes
    <3>3. IdleRun \in RunRow
      BY <1>1, RunUpdateTypes
    <3>4. QED
      BY <1>1, <3>2, <3>3, <1>26 DEF TypeOK, PollSession, RunRow
  <2>2. QED
    BY <1>26, <2>1 DEF TypeOK, PollSession, storeVars, UnchangedByWorker
<1>27. CASE CrashRun(w)
  <2>1. run' \in [Actors -> RunRow]
    BY <1>1, RunUpdateTypes, <1>27 DEF TypeOK, CrashRun, RunRow
  <2>2. QED
    BY <1>27, <2>1 DEF TypeOK, CrashRun, storeVars, UnchangedByWorker
<1>28. QED
  BY <1>2, <1>3, <1>4, <1>5, <1>6, <1>7, <1>8, <1>9, <1>10, <1>11, <1>12, <1>13, <1>14, <1>15, <1>16, <1>17, <1>18, <1>19, <1>20, <1>21, <1>22, <1>23, <1>24, <1>25, <1>26, <1>27 DEF WorkerStep, PollerStep, TermStep

\* Every variable keeps its type, in every behaviour.
THEOREM TypeCorrect == Spec => []TypeOK
<1>1. Init => TypeOK
  BY TypeInit
<1>2. TypeOK /\ [Next]_vars => TypeOK'
  <2> SUFFICES ASSUME TypeOK, [Next]_vars PROVE TypeOK'
    OBVIOUS
  <2>1. CASE RequestNext /\ UNCHANGED run
    BY <2>1, RequestTypes, PatchTypes, TimeTypes DEF RequestNext
  <2>2. CASE \E w \in Workers : WorkerStep(w) \/ CrashRun(w)
    BY <2>2, RunTypes DEF Actors
  <2>3. CASE \E p \in Pollers : PollerStep(p)
    BY <2>3, RunTypes DEF Actors
  <2>4. CASE \E j \in Jobs : LeaseLapses(j) \/ SessionLapses(j)
    BY <2>4, TimeTypes
  <2>5. CASE UNCHANGED vars
    BY <2>5 DEF vars, TypeOK
  <2>6. QED
    BY <2>1, <2>2, <2>3, <2>4, <2>5 DEF Next
<1>3. QED
  BY <1>1, <1>2, PTL DEF Spec

-----------------------------------------------------------------------------
(* PublishedIsConfirmed is not inductive: a result is copied from the rows    *)
(* into the snapshots of the actors and back.  The strengthening says the     *)
(* same of every copy, that a request at work did not start from a COMPLETED  *)
(* job (an unavailable result keeps the status of the job), and that a run    *)
(* writes only what failed or was published.                                 *)

BlobHonest(yt, b) == \A j \in Jobs : ProjectHonest(yt[j], b[j])

ChannelHonest(ch) == ch.done # 0 => ConfirmedVideo(ch, ch.done)

StoreHonest ==
    /\ \A j \in Jobs : RowHonest(youtube[j], attempt[j])
    /\ \A j \in Jobs : SessionHonest(youtube[j], session[j])
    /\ \A j \in Jobs : ChannelHonest(youtube[j])
    /\ BlobHonest(youtube, os)

ReqHonest(yt, row) ==
    /\ BlobHonest(yt, row.seen)
    /\ Confirmed(yt[row.job], row.result)
    /\ row.pc \in {"acquire", "reclaim", "held", "complete", "persist"}
         => row.seen[row.job].status # "COMPLETED"

RunHonest(yt, row) ==
    /\ BlobHonest(yt, row.seen)
    /\ RowHonest(yt[row.job], row.att)
    /\ Confirmed(yt[row.job], row.result)
    /\ row.pc \in {"failSession", "termState", "termAttempt", "terminate", "persist"}
         => row.result.status \in {"failed", "published"}
    /\ row.pc \in {"confirm", "completeSession", "completeAttempt"}
         => row.result.status = "published"
    /\ row.pc \in {"idle", "list", "reconcile"} => row.att = NoAttempt

Honest ==
    /\ StoreHonest
    /\ \A r \in Requests : ReqHonest(youtube, req[r])
    /\ \A p \in Patchers : BlobHonest(youtube, patch[p].seen)
    /\ \A a \in Actors : RunHonest(youtube, run[a])

\* Videos are never taken away, so what was confirmed stays confirmed.
Grows(yt1, yt2) == \A j \in Jobs : yt1[j].videos <= yt2[j].videos

LEMMA ConfirmedStays ==
    ASSUME NEW yt1 \in [Jobs -> Channel], NEW yt2 \in [Jobs -> Channel], Grows(yt1, yt2),
           NEW j \in Jobs
    PROVE  /\ \A v : ConfirmedVideo(yt1[j], v) => ConfirmedVideo(yt2[j], v)
           /\ \A result : Confirmed(yt1[j], result) => Confirmed(yt2[j], result)
           /\ \A row : RowHonest(yt1[j], row) => RowHonest(yt2[j], row)
           /\ \A q : ProjectHonest(yt1[j], q) => ProjectHonest(yt2[j], q)
           /\ \A s : SessionHonest(yt1[j], s) => SessionHonest(yt2[j], s)
<1>1. yt1[j].videos \in Nat /\ yt2[j].videos \in Nat /\ yt1[j].videos <= yt2[j].videos
  BY DEF Grows, Channel
<1>2. \A v : ConfirmedVideo(yt1[j], v) => ConfirmedVideo(yt2[j], v)
  BY <1>1 DEF ConfirmedVideo
<1>3. \A result : Confirmed(yt1[j], result) => Confirmed(yt2[j], result)
  BY <1>2 DEF Confirmed
<1>4. QED
  BY <1>2, <1>3 DEF RowHonest, ProjectHonest, SessionHonest

LEMMA CopiesStayHonest ==
    ASSUME NEW yt1 \in [Jobs -> Channel], NEW yt2 \in [Jobs -> Channel], Grows(yt1, yt2)
    PROVE  /\ \A b : BlobHonest(yt1, b) => BlobHonest(yt2, b)
           /\ \A row \in ReqRow : ReqHonest(yt1, row) => ReqHonest(yt2, row)
           /\ \A row \in RunRow : RunHonest(yt1, row) => RunHonest(yt2, row)
<1>1. \A b : BlobHonest(yt1, b) => BlobHonest(yt2, b)
  BY ConfirmedStays DEF BlobHonest
<1>2. \A row \in ReqRow : ReqHonest(yt1, row) => ReqHonest(yt2, row)
  <2>1. \A row \in ReqRow : row.job \in Jobs
    BY DEF ReqRow
  <2>2. QED
    BY <1>1, <2>1, ConfirmedStays DEF ReqHonest
<1>3. \A row \in RunRow : RunHonest(yt1, row) => RunHonest(yt2, row)
  <2>1. \A row \in RunRow : row.job \in Jobs
    BY DEF RunRow
  <2>2. QED
    BY <1>1, <2>1, ConfirmedStays DEF RunHonest
<1>4. QED
  BY <1>1, <1>2, <1>3

LEMMA CompletedHonest ==
    ASSUME NEW ch, NEW result \in Result, Confirmed(ch, result)
    PROVE  RowHonest(ch, Completed(result))
BY DEF RowHonest, Completed, AttemptStatusOf, Result

\* Recording an outcome keeps the blob honest, unless it would leave a
\* COMPLETED job with a result that is neither failed nor published.
LEMMA WithResultHonest ==
    ASSUME NEW yt, NEW b \in Blob, NEW j \in Jobs, NEW result \in Result,
           BlobHonest(yt, b), Confirmed(yt[j], result),
           \/ result.status \in {"failed", "published"}
           \/ b[j].status # "COMPLETED"
    PROVE  BlobHonest(yt, WithResult(b, j, result))
<1>1. JobStatusOf(result, b[j].status) = "COMPLETED" => result.status = "published"
  BY DEF JobStatusOf
<1>2. \A k \in Jobs :
        WithResult(b, j, result)[k] =
          IF k = j THEN [result  |-> result,
                         status  |-> JobStatusOf(result, b[j].status),
                         message |-> MessageOf(result)]
                   ELSE b[k]
  BY DEF WithResult, Blob
<1>3. QED
  BY <1>1, <1>2 DEF BlobHonest, ProjectHonest

LEMMA NewBlobHonest == \A yt : BlobHonest(yt, NewBlob)
BY DEF BlobHonest, ProjectHonest, Confirmed, NewBlob, NewProject, NoResult

LEMMA NothingPublished ==
    /\ \A ch : RowHonest(ch, NoAttempt)
    /\ \A ch : Confirmed(ch, NoResult) /\ Confirmed(ch, Uploading) /\ Confirmed(ch, Unavailable)
    /\ \A ch, why : Confirmed(ch, Failed(why)) /\ Failed(why).status = "failed"
    /\ \A ch, v : ConfirmedVideo(ch, v) => Confirmed(ch, Published(v))
    /\ \A v : Published(v).status = "published" /\ Published(v).ext = v
BY DEF RowHonest, Confirmed, NoAttempt, NoResult, Uploading, Unavailable, Failed, Published

LEMMA IdleHonest ==
    /\ \A yt : RunHonest(yt, IdleRun)
    /\ \A yt : \A row \in RunRow : RunHonest(yt, Resumed(row))
<1>1. \A yt : RunHonest(yt, IdleRun)
  BY NewBlobHonest, NothingPublished DEF RunHonest, IdleRun
<1>2. ASSUME NEW yt, NEW row \in RunRow
      PROVE  RunHonest(yt, Resumed(row))
  <2>1. /\ Resumed(row).seen = NewBlob /\ Resumed(row).att = NoAttempt
        /\ Resumed(row).result = NoResult
        /\ Resumed(row).pc \in {"idle", "reconcile", "claim"}
    BY DEF Resumed, IdleRun, RunRow
  <2>2. QED
    BY <2>1, NewBlobHonest, NothingPublished DEF RunHonest
<1>3. QED
  BY <1>1, <1>2

-----------------------------------------------------------------------------
(* What a step of one actor leaves to prove.                                 *)

LEMMA RequestFrame ==
    ASSUME TypeOK, TypeOK', Honest, NEW r \in Requests,
           Grows(youtube, youtube'), UNCHANGED <<patch, run>>,
           \A q \in Requests \ {r} : req'[q] = req[q],
           StoreHonest', ReqHonest(youtube', req'[r])
    PROVE  Honest'
<1>1. youtube \in [Jobs -> Channel] /\ youtube' \in [Jobs -> Channel]
  BY DEF TypeOK
<1>2. \A q \in Requests : ReqHonest(youtube', req'[q])
  BY <1>1, CopiesStayHonest DEF TypeOK, Honest
<1>3. \A p \in Patchers : BlobHonest(youtube', patch'[p].seen)
  BY <1>1, CopiesStayHonest DEF Honest
<1>4. \A a \in Actors : RunHonest(youtube', run'[a])
  BY <1>1, CopiesStayHonest DEF TypeOK, Honest
<1>5. QED
  BY <1>2, <1>3, <1>4 DEF Honest

LEMMA RunFrame ==
    ASSUME TypeOK, TypeOK', Honest, NEW w \in Actors,
           Grows(youtube, youtube'), UNCHANGED <<req, patch>>,
           \A a \in Actors \ {w} : run'[a] = run[a],
           StoreHonest', RunHonest(youtube', run'[w])
    PROVE  Honest'
<1>1. youtube \in [Jobs -> Channel] /\ youtube' \in [Jobs -> Channel]
  BY DEF TypeOK
<1>2. \A q \in Requests : ReqHonest(youtube', req'[q])
  BY <1>1, CopiesStayHonest DEF TypeOK, Honest
<1>3. \A p \in Patchers : BlobHonest(youtube', patch'[p].seen)
  BY <1>1, CopiesStayHonest DEF Honest
<1>4. \A a \in Actors : RunHonest(youtube', run'[a])
  BY <1>1, CopiesStayHonest DEF TypeOK, Honest
<1>5. QED
  BY <1>2, <1>3, <1>4 DEF Honest

LEMMA SameVideos ==
    ASSUME TypeOK, UNCHANGED youtube
    PROVE  Grows(youtube, youtube')
BY DEF Grows, TypeOK, Channel

LEMMA HonestInit == Init => Honest
<1> SUFFICES ASSUME Init PROVE Honest
  OBVIOUS
<1>1. StoreHonest
  <2>1. \A j \in Jobs : youtube[j].done = 0 /\ session[j].status = "none"
    BY DEF Init, RequestInit, NewChannel, NoSession
  <2>2. QED
    BY <2>1, NothingPublished, NewBlobHonest
       DEF Init, RequestInit, StoreHonest, SessionHonest, ChannelHonest
<1>2. \A r \in Requests : ReqHonest(youtube, req[r])
  BY NewBlobHonest, NothingPublished DEF Init, RequestInit, ReqHonest
<1>3. \A p \in Patchers : BlobHonest(youtube, patch[p].seen)
  BY NewBlobHonest DEF Init, RequestInit
<1>4. \A a \in Actors : RunHonest(youtube, run[a])
  BY IdleHonest DEF Init
<1>5. QED
  BY <1>1, <1>2, <1>3, <1>4 DEF Honest

LEMMA RequestKeepsHonest ==
    ASSUME TypeOK, TypeOK', Honest, NEW r \in Requests,
           RequestStep(r) \/ AsyncFault(r) \/ CrashRequest(r), UNCHANGED run
    PROVE  Honest'
<1>1. /\ req[r] \in ReqRow /\ req[r].job \in Jobs /\ req[r].seen \in Blob
      /\ req[r].result \in Result /\ ReqHonest(youtube, req[r])
  BY DEF TypeOK, ReqRow, Honest
<1>2. StoreHonest
  BY DEF Honest
<1>3. req \in [Requests -> ReqRow] /\ attempt \in [Jobs -> AttemptRow]
  BY DEF TypeOK
<1>4. CASE LoadState(r)
  <2>1. \A q \in Requests \ {r} : req'[q] = req[q]
    BY <1>3, <1>4 DEF LoadState
  <2>2. UNCHANGED <<youtube, patch>> /\ Grows(youtube, youtube')
    BY <1>4, SameVideos DEF LoadState, storeVars
  <2>3. ReqHonest(youtube, req'[r])
    BY <1>1, <1>3, <1>2, <1>4 DEF LoadState, ReqRow, ReqHonest, BlobHonest, ProjectHonest, StoreHonest
  <2>4. StoreHonest'
    BY <1>2, <1>4 DEF LoadState, storeVars, StoreHonest
  <2>5. QED
    BY <2>1, <2>2, <2>3, <2>4, RequestFrame
<1>5. CASE AcquireCreate(r)
  <2>1. \A q \in Requests \ {r} : req'[q] = req[q]
    BY <1>3, <1>5 DEF AcquireCreate
  <2>2. UNCHANGED <<youtube, patch>> /\ Grows(youtube, youtube')
    BY <1>5, SameVideos DEF AcquireCreate, storeVars
  <2>3. ReqHonest(youtube, req'[r])
    BY <1>1, <1>3, <1>5 DEF AcquireCreate, ReqRow, ReqHonest
  <2>4. StoreHonest'
    <3>1. RowHonest(youtube[req[r].job], attempt'[req[r].job])
      BY <1>1, <1>2, <1>3, NothingPublished, <1>5 DEF AcquireCreate, StoreHonest, RowHonest
    <3>2. \A k \in Jobs \ {req[r].job} : attempt'[k] = attempt[k]
      BY <1>3, <1>5 DEF AcquireCreate
    <3>3. QED
      BY <1>2, <3>1, <3>2, <1>5 DEF AcquireCreate, StoreHonest
  <2>5. QED
    BY <2>1, <2>2, <2>3, <2>4, RequestFrame
<1>6. CASE AcquireExisting(r)
  <2>1. \A q \in Requests \ {r} : req'[q] = req[q]
    BY <1>3, <1>6 DEF AcquireExisting
  <2>2. UNCHANGED <<youtube, patch>> /\ Grows(youtube, youtube')
    BY <1>6, SameVideos DEF AcquireExisting, storeVars
  <2>3. ReqHonest(youtube, req'[r])
    <3> DEFINE row == attempt[req[r].job]
    <3>1. CASE req' = [req EXCEPT ![r].pc = "persist", ![r].result = row.result]
      <4>1. Confirmed(youtube[req[r].job], row.result)
        BY <1>1, <1>2 DEF StoreHonest, RowHonest
      <4>2. req[r].pc = "acquire"
        BY <1>6 DEF AcquireExisting
      <4>3. QED
        BY <1>1, <1>3, <3>1, <4>1, <4>2 DEF ReqRow, ReqHonest
    <3>2. CASE req' = [req EXCEPT ![r].pc = "reclaim"]
      BY <1>1, <1>3, <1>6, <3>2 DEF AcquireExisting, ReqRow, ReqHonest
    <3>3. CASE \E pc \in {"conflict", "refused"} : req' = [req EXCEPT ![r] = Ended(@, pc)]
      BY <1>1, <1>3, <3>3, NewBlobHonest DEF ReqRow, ReqHonest, Ended
    <3>4. QED
      BY <1>6, <3>1, <3>2, <3>3, <2>2 DEF AcquireExisting
  <2>4. StoreHonest'
    BY <1>2, <1>6 DEF AcquireExisting, storeVars, StoreHonest
  <2>5. QED
    BY <2>1, <2>2, <2>3, <2>4, RequestFrame
<1>7. CASE Reclaim(r)
  <2>1. \A q \in Requests \ {r} : req'[q] = req[q]
    BY <1>3, <1>7 DEF Reclaim
  <2>2. UNCHANGED <<youtube, patch>> /\ Grows(youtube, youtube')
    BY <1>7, SameVideos DEF Reclaim, storeVars
  <2>3. ReqHonest(youtube, req'[r])
    BY <1>1, <1>3, <1>7 DEF Reclaim, ReqRow, ReqHonest
  <2>4. StoreHonest'
    <3>1. RowHonest(youtube[req[r].job], attempt'[req[r].job])
      BY <1>1, <1>2, <1>3, <1>7 DEF Reclaim, StoreHonest, RowHonest, AttemptRow
    <3>2. \A k \in Jobs \ {req[r].job} : attempt'[k] = attempt[k]
      BY <1>3, <1>7 DEF Reclaim
    <3>3. QED
      BY <1>2, <3>1, <3>2, <1>7 DEF Reclaim, StoreHonest
  <2>5. QED
    BY <2>1, <2>2, <2>3, <2>4, RequestFrame
<1>8. CASE FindUnavailable(r)
  <2>1. \A q \in Requests \ {r} : req'[q] = req[q]
    BY <1>3, <1>8 DEF FindUnavailable
  <2>2. UNCHANGED <<youtube, patch>> /\ Grows(youtube, youtube')
    BY <1>8, SameVideos DEF FindUnavailable, storeVars
  <2>3. ReqHonest(youtube, req'[r])
    BY <1>1, <1>3, NothingPublished, <1>8 DEF FindUnavailable, ReqRow, ReqHonest
  <2>4. StoreHonest'
    BY <1>2, <1>8 DEF FindUnavailable, storeVars, StoreHonest
  <2>5. QED
    BY <2>1, <2>2, <2>3, <2>4, RequestFrame
<1>9. CASE OpenSessionFails(r)
  <2>1. \A q \in Requests \ {r} : req'[q] = req[q]
    BY <1>3, <1>9 DEF OpenSessionFails
  <2>2. UNCHANGED <<youtube, patch>> /\ Grows(youtube, youtube')
    BY <1>9, SameVideos DEF OpenSessionFails, storeVars
  <2>3. ReqHonest(youtube, req'[r])
    BY <1>1, <1>3, NothingPublished, <1>9 DEF OpenSessionFails, ReqRow, ReqHonest
  <2>4. StoreHonest'
    BY <1>2, <1>9 DEF OpenSessionFails, storeVars, StoreHonest
  <2>5. QED
    BY <2>1, <2>2, <2>3, <2>4, RequestFrame
<1>10. CASE CompleteAttempt(r)
  <2>1. \A q \in Requests \ {r} : req'[q] = req[q]
    BY <1>3, <1>10 DEF CompleteAttempt
  <2>2. UNCHANGED <<youtube, patch>> /\ Grows(youtube, youtube')
    BY <1>10, SameVideos DEF CompleteAttempt, storeVars
  <2>3. ReqHonest(youtube, req'[r])
    BY <1>1, <1>3, <1>10 DEF CompleteAttempt, ReqRow, ReqHonest
  <2>4. StoreHonest'
    <3>1. RowHonest(youtube[req[r].job], attempt'[req[r].job])
      BY <1>1, <1>2, <1>3, CompletedHonest, <1>10 DEF CompleteAttempt, StoreHonest, ReqHonest, ReqRow
    <3>2. \A k \in Jobs \ {req[r].job} : attempt'[k] = attempt[k]
      BY <1>3, <1>10 DEF CompleteAttempt
    <3>3. QED
      BY <1>2, <3>1, <3>2, <1>10 DEF CompleteAttempt, StoreHonest
  <2>5. QED
    BY <2>1, <2>2, <2>3, <2>4, RequestFrame
<1>11. CASE PersistResult(r)
  <2>1. \A q \in Requests \ {r} : req'[q] = req[q]
    BY <1>3, <1>11 DEF PersistResult
  <2>2. UNCHANGED <<youtube, patch>> /\ Grows(youtube, youtube')
    BY <1>11, SameVideos DEF PersistResult, storeVars
  <2>3. ReqHonest(youtube, req'[r])
    BY <1>1, <1>3, NewBlobHonest, <1>11 DEF PersistResult, ReqRow, ReqHonest, Ended
  <2>4. StoreHonest'
    <3>1. BlobHonest(youtube, os')
      BY <1>1, WithResultHonest, <1>11 DEF PersistResult, ReqHonest, ReqRow
    <3>2. QED
      BY <1>2, <3>1, <1>11 DEF PersistResult, StoreHonest
  <2>5. QED
    BY <2>1, <2>2, <2>3, <2>4, RequestFrame
<1>12. CASE AsyncFault(r)
  <2>1. \A q \in Requests \ {r} : req'[q] = req[q]
    BY <1>3, <1>12 DEF AsyncFault
  <2>2. UNCHANGED <<youtube, patch>> /\ Grows(youtube, youtube')
    BY <1>12, SameVideos DEF AsyncFault, storeVars
  <2>3. ReqHonest(youtube, req'[r])
    BY <1>1, <1>3, NothingPublished, <1>12 DEF AsyncFault, ReqRow, ReqHonest
  <2>4. StoreHonest'
    BY <1>2, <1>12 DEF AsyncFault, storeVars, StoreHonest
  <2>5. QED
    BY <2>1, <2>2, <2>3, <2>4, RequestFrame
<1>13. CASE CrashRequest(r)
  <2>1. \A q \in Requests \ {r} : req'[q] = req[q]
    BY <1>3, <1>13 DEF CrashRequest
  <2>2. UNCHANGED <<youtube, patch>> /\ Grows(youtube, youtube')
    BY <1>13, SameVideos DEF CrashRequest, storeVars
  <2>3. ReqHonest(youtube, req'[r])
    BY <1>1, <1>3, NewBlobHonest, <1>13 DEF CrashRequest, ReqRow, ReqHonest, Ended
  <2>4. StoreHonest'
    BY <1>2, <1>13 DEF CrashRequest, storeVars, StoreHonest
  <2>5. QED
    BY <2>1, <2>2, <2>3, <2>4, RequestFrame
<1>14. CASE UploadSync(r)
  <2> DEFINE k == req[r].job
             v == youtube[k].videos + 1
  <2>1. \A q \in Requests \ {r} : req'[q] = req[q]
    BY <1>3, <1>14 DEF UploadSync
  <2>2. youtube \in [Jobs -> Channel] /\ youtube' \in [Jobs -> Channel] /\ k \in Jobs
    BY <1>1 DEF TypeOK
  <2>3. \/ youtube' = youtube
        \/ youtube' = [youtube EXCEPT ![k].videos = v]
    BY <1>14 DEF UploadSync
  <2>4. Grows(youtube, youtube') /\ \A i \in Jobs : youtube'[i].done = youtube[i].done
    BY <2>2, <2>3 DEF Grows, Channel
  <2>5. StoreHonest'
    <3>1. BlobHonest(youtube', os)
      BY <1>2, <2>2, <2>4, CopiesStayHonest DEF StoreHonest
    <3>2. \A i \in Jobs : RowHonest(youtube'[i], attempt[i]) /\ SessionHonest(youtube'[i], session[i])
      BY <1>2, <2>2, <2>4, ConfirmedStays DEF StoreHonest
    <3>3. \A i \in Jobs : ChannelHonest(youtube'[i])
      <4>1. ASSUME NEW i \in Jobs, youtube[i].done # 0
            PROVE  ConfirmedVideo(youtube'[i], youtube[i].done)
        <5>1. ConfirmedVideo(youtube[i], youtube[i].done)
          BY <1>2, <4>1 DEF StoreHonest, ChannelHonest
        <5>2. QED
          BY <5>1, <2>2, <2>4, ConfirmedStays, ZenonT(60)
      <4>2. QED
        BY <2>4, <4>1 DEF ChannelHonest
    <3>4. QED
      BY <3>1, <3>2, <3>3, <1>14 DEF UploadSync, StoreHonest
  <2>6. ReqHonest(youtube', req'[r])
    <3>1. req'[r].seen = req[r].seen /\ req'[r].job = k
      BY <1>1, <1>3, <1>14 DEF UploadSync, ReqRow
    <3>2. Confirmed(youtube'[k], req'[r].result)
      <4>1. CASE /\ youtube' = [youtube EXCEPT ![k].videos = v]
                 /\ req'[r].result \in {Published(v), Failed("upload_failed")}
        <5>1. ConfirmedVideo(youtube'[k], v)
          BY <2>2, <4>1 DEF ConfirmedVideo, Channel
        <5>2. QED
          BY <4>1, <5>1, NothingPublished
      <4>2. CASE req'[r].result = Failed("upload_failed")
        BY <4>2, NothingPublished
      <4>3. QED
        BY <1>1, <1>3, <4>1, <4>2, <1>14 DEF UploadSync, ReqRow
    <3>3. req[r].pc = "held"
      BY <1>14 DEF UploadSync
    <3>4. BlobHonest(youtube', req[r].seen)
      BY <1>1, <2>2, <2>4, CopiesStayHonest DEF ReqHonest
    <3>5. QED
      BY <1>1, <3>1, <3>2, <3>3, <3>4 DEF ReqHonest
  <2>7. QED
    BY <2>1, <2>4, <2>5, <2>6, <1>14, RequestFrame DEF UploadSync
<1>15. CASE OpenSession(r)
  <2> DEFINE k == req[r].job
  <2>1. \A q \in Requests \ {r} : req'[q] = req[q]
    BY <1>3, <1>15 DEF OpenSession
  <2>2. /\ youtube \in [Jobs -> Channel] /\ youtube' \in [Jobs -> Channel] /\ k \in Jobs
        /\ session \in [Jobs -> SessionRow]
    BY <1>1 DEF TypeOK
  <2>3. /\ \A i \in Jobs : youtube'[i].videos = youtube[i].videos
        /\ \A i \in Jobs : youtube'[i].done \in {0, youtube[i].done}
    BY <2>2, <1>15 DEF OpenSession, Channel
  <2>4. Grows(youtube, youtube')
    BY <2>2, <2>3 DEF Grows, Channel
  <2>5. StoreHonest'
    <3>1. BlobHonest(youtube', os)
      BY <1>2, <2>2, <2>4, CopiesStayHonest DEF StoreHonest
    <3>2. \A i \in Jobs : RowHonest(youtube'[i], attempt[i])
      BY <1>2, <2>2, <2>4, ConfirmedStays DEF StoreHonest
    <3>3. \A i \in Jobs : SessionHonest(youtube'[i], session'[i])
      <4>1. session'[k].status = "pending"
        BY <2>2, <1>15 DEF OpenSession, NoSession
      <4>2. \A i \in Jobs \ {k} : session'[i] = session[i]
        BY <2>2, <1>15 DEF OpenSession
      <4>3. QED
        BY <1>2, <2>2, <2>4, <4>1, <4>2, ConfirmedStays DEF StoreHonest, SessionHonest
    <3>4. \A i \in Jobs : ChannelHonest(youtube'[i])
      BY <1>2, <2>2, <2>3, <2>4, ConfirmedStays DEF StoreHonest, ChannelHonest
    <3>5. QED
      BY <3>1, <3>2, <3>3, <3>4, <1>15 DEF OpenSession, StoreHonest
  <2>6. ReqHonest(youtube', req'[r])
    <3>1. /\ req'[r].seen = req[r].seen /\ req'[r].job = k /\ req'[r].result = Uploading
          /\ req[r].pc = "held"
      BY <1>1, <1>3, <1>15 DEF OpenSession, ReqRow
    <3>2. BlobHonest(youtube', req[r].seen)
      BY <1>1, <2>2, <2>4, CopiesStayHonest DEF ReqHonest
    <3>3. QED
      BY <1>1, <3>1, <3>2, NothingPublished DEF ReqHonest
  <2>7. QED
    BY <2>1, <2>4, <2>5, <2>6, <1>15, RequestFrame DEF OpenSession
<1>16. QED
  BY <1>4, <1>5, <1>6, <1>7, <1>8, <1>9, <1>10, <1>11, <1>12, <1>13, <1>14, <1>15 DEF RequestStep

-----------------------------------------------------------------------------
(* The three stores a run writes.                                            *)

LEMMA SessionWritten ==
    ASSUME TypeOK, StoreHonest, NEW j \in Jobs, UNCHANGED <<attempt, os, youtube>>,
           \A k \in Jobs \ {j} : session'[k] = session[k],
           SessionHonest(youtube[j], session'[j])
    PROVE  StoreHonest'
BY DEF StoreHonest

LEMMA AttemptWritten ==
    ASSUME TypeOK, StoreHonest, NEW j \in Jobs, UNCHANGED <<session, os, youtube>>,
           \A k \in Jobs \ {j} : attempt'[k] = attempt[k],
           RowHonest(youtube[j], attempt'[j])
    PROVE  StoreHonest'
BY DEF StoreHonest

LEMMA StoreKept ==
    ASSUME StoreHonest, UNCHANGED storeVars
    PROVE  StoreHonest'
BY DEF StoreHonest, storeVars

\* A run that only moves on keeps what it holds.
LEMMA RunMoves ==
    ASSUME NEW yt, NEW row, NEW new, RunHonest(yt, row),
           new.seen = row.seen, new.att = row.att, new.job = row.job,
           new.result = row.result,
           new.pc \in {"idle", "list", "reconcile", "claim", "asset", "chunk", "put",
                       "pollAttempt", "pollSession"},
           \/ row.pc \in {"idle", "list", "reconcile"}
           \/ new.pc \notin {"idle", "list", "reconcile"}
    PROVE  RunHonest(yt, new)
BY DEF RunHonest

LEMMA NotCompletedHonest ==
    \A ch, s : s.status # "completed" => SessionHonest(ch, s)
BY DEF SessionHonest

LEMMA SessionUpdates ==
    ASSUME NEW s \in SessionRow
    PROVE  /\ \A o : Progressed(s, o).status # "completed"
           /\ \A result : SessionFailed(s, result).status # "completed"
           /\ \A v : SessionDone(s, v).ext = v
BY DEF SessionRow, Progressed, SessionFailed, SessionDone

LEMMA RunKeepsHonest ==
    ASSUME TypeOK, TypeOK', Honest, NEW w \in Actors,
           WorkerStep(w) \/ PollerStep(w) \/ CrashRun(w)
    PROVE  Honest'
<1>1. /\ run[w] \in RunRow /\ run[w].job \in Jobs /\ run[w].seen \in Blob
      /\ run[w].result \in Result /\ RunHonest(youtube, run[w])
  BY DEF TypeOK, RunRow, Honest
<1>2. StoreHonest
  BY DEF Honest
<1>3. /\ run \in [Actors -> RunRow] /\ attempt \in [Jobs -> AttemptRow]
      /\ session \in [Jobs -> SessionRow] /\ os \in Blob
  BY DEF TypeOK
<1>4. CASE ExpireStale(w)
  <2>1. \A a \in Actors \ {w} : run'[a] = run[a]
    BY <1>3, <1>4 DEF ExpireStale
  <2>2. UNCHANGED <<youtube, req, patch>> /\ Grows(youtube, youtube')
    BY <1>4, SameVideos DEF ExpireStale, storeVars, UnchangedByWorker
  <2>3. RunHonest(youtube, run'[w])
    <3>1. /\ run'[w].seen = run[w].seen /\ run'[w].att = run[w].att
          /\ run'[w].job = run[w].job /\ run'[w].result = run[w].result
          /\ run'[w].pc = "list" /\ run[w].pc = "idle"
      BY <1>1, <1>3, <1>4 DEF ExpireStale, RunRow
    <3>2. QED
      BY <1>1, <3>1, RunMoves
  <2>4. StoreHonest'
    <3>1. \A j \in Jobs : session'[j].status = "completed" => session'[j] = session[j]
      BY <1>3, <1>4 DEF ExpireStale, SessionRow
    <3>2. \A j \in Jobs : SessionHonest(youtube[j], session'[j])
      BY <1>2, <3>1 DEF StoreHonest, SessionHonest
    <3>3. QED
      BY <1>2, <3>2, <1>4 DEF ExpireStale, StoreHonest
  <2>5. QED
    BY <2>1, <2>2, <2>3, <2>4, RunFrame
<1>5. CASE ListDead(w)
  <2>1. \A a \in Actors \ {w} : run'[a] = run[a]
    BY <1>3, <1>5 DEF ListDead
  <2>2. UNCHANGED <<youtube, req, patch>> /\ Grows(youtube, youtube')
    BY <1>5, SameVideos DEF ListDead, storeVars, UnchangedByWorker
  <2>3. RunHonest(youtube, run'[w])
    <3>1. /\ run'[w].seen = run[w].seen /\ run'[w].att = run[w].att
          /\ run'[w].job = run[w].job /\ run'[w].result = run[w].result
      BY <1>1, <1>3, <1>5 DEF ListDead, RunRow
    <3>2. QED
      BY <1>1, <1>3, <1>5, <3>1, RunMoves DEF ListDead, RunRow
  <2>4. StoreHonest'
    BY <1>2, <1>5, StoreKept DEF ListDead
  <2>5. QED
    BY <2>1, <2>2, <2>3, <2>4, RunFrame
<1>6. CASE NextDead(w)
  <2>1. \A a \in Actors \ {w} : run'[a] = run[a]
    BY <1>3, <1>6 DEF NextDead
  <2>2. UNCHANGED <<youtube, req, patch>> /\ Grows(youtube, youtube')
    BY <1>6, SameVideos DEF NextDead, storeVars, UnchangedByWorker
  <2>3. RunHonest(youtube, run'[w])
    <3>1. PICK s \in run[w].listed : run'[w] =
               [run[w] EXCEPT !.pc = "termAttempt", !.listed = run[w].listed \ {s},
                              !.job = s.job, !.seen = os, !.result = Failed(s.reason)]
      BY <1>3, <1>6 DEF NextDead
    <3>2. /\ run'[w].pc = "termAttempt" /\ run'[w].seen = os
          /\ run'[w].result = Failed(s.reason)
      BY <1>1, <3>1 DEF RunRow
    <3>3. BlobHonest(youtube, os)
      BY <1>2 DEF StoreHonest
    <3>4. run'[w].att = NoAttempt
      BY <1>1, <1>6, <3>1 DEF NextDead, RunRow, RunHonest
    <3>5. QED
      BY <3>2, <3>3, <3>4, NothingPublished DEF RunHonest
  <2>4. StoreHonest'
    BY <1>2, <1>6, StoreKept DEF NextDead
  <2>5. QED
    BY <2>1, <2>2, <2>3, <2>4, RunFrame
<1>7. CASE FindDue(w)
  <2>1. \A a \in Actors \ {w} : run'[a] = run[a]
    BY <1>3, <1>7 DEF FindDue
  <2>2. UNCHANGED <<youtube, req, patch>> /\ Grows(youtube, youtube')
    BY <1>7, SameVideos DEF FindDue, storeVars, UnchangedByWorker
  <2>3. RunHonest(youtube, run'[w])
    <3>1. /\ run'[w].seen = run[w].seen /\ run'[w].att = run[w].att
          /\ run'[w].job = run[w].job /\ run'[w].result = run[w].result
      BY <1>1, <1>3, <1>7 DEF FindDue, RunRow
    <3>2. QED
      BY <1>1, <1>3, <1>7, <3>1, RunMoves, ZenonT(60) DEF FindDue, RunRow
  <2>4. StoreHonest'
    BY <1>2, <1>7, StoreKept DEF FindDue
  <2>5. QED
    BY <2>1, <2>2, <2>3, <2>4, RunFrame
<1>8. CASE ClaimDue(w)
  <2>1. \A a \in Actors \ {w} : run'[a] = run[a]
    BY <1>3, <1>8 DEF ClaimDue
  <2>2. UNCHANGED <<youtube, req, patch>> /\ Grows(youtube, youtube')
    BY <1>8, SameVideos DEF ClaimDue, storeVars, UnchangedByWorker
  <2>3. RunHonest(youtube, run'[w])
    <3>1. PICK j \in run[w].due :
             \/ run' = [run EXCEPT ![w].due = @ \ {j}]
             \/ run' = [run EXCEPT ![w].due = @ \ {j},
                                   ![w].claimed = @ \cup {[job |-> j,
                                                           offset |-> session[j].offset]}]
      BY <1>8 DEF ClaimDue
    <3>2. /\ run'[w].seen = run[w].seen /\ run'[w].att = run[w].att
          /\ run'[w].job = run[w].job /\ run'[w].result = run[w].result
          /\ run'[w].pc = run[w].pc
      BY <1>1, <1>3, <3>1 DEF RunRow
    <3>3. QED
      BY <1>1, <3>2, <1>8, RunMoves DEF ClaimDue
  <2>4. StoreHonest'
    <3>1. \/ UNCHANGED session
          \/ \E j \in Jobs : session' = [session EXCEPT ![j].status = "uploading",
                                                        ![j].lease = "held"]
      BY <1>1, <1>8 DEF ClaimDue, RunRow
    <3>2. CASE UNCHANGED session
      BY <1>2, <3>2, <1>8, StoreKept DEF ClaimDue, storeVars
    <3>3. CASE \E j \in Jobs : session' = [session EXCEPT ![j].status = "uploading",
                                                          ![j].lease = "held"]
      <4>1. PICK j \in Jobs : session' = [session EXCEPT ![j].status = "uploading",
                                                         ![j].lease = "held"]
        BY <3>3
      <4>2. session'[j].status = "uploading" /\ \A k \in Jobs \ {j} : session'[k] = session[k]
        BY <1>3, <4>1 DEF SessionRow
      <4>3. UNCHANGED <<attempt, os, youtube>>
        BY <1>8 DEF ClaimDue
      <4>4. SessionHonest(youtube[j], session'[j])
        BY <4>2, NotCompletedHonest
      <4>5. QED
        BY <1>2, <4>2, <4>3, <4>4, SessionWritten
    <3>4. QED
      BY <3>1, <3>2, <3>3
  <2>5. QED
    BY <2>1, <2>2, <2>3, <2>4, RunFrame
<1>9. CASE EndRun(w)
  <2>1. \A a \in Actors \ {w} : run'[a] = run[a]
    BY <1>3, <1>9 DEF EndRun
  <2>2. UNCHANGED <<youtube, req, patch>> /\ Grows(youtube, youtube')
    BY <1>9, SameVideos DEF EndRun, storeVars, UnchangedByWorker
  <2>3. RunHonest(youtube, run'[w])
    BY <1>3, <1>9, IdleHonest DEF EndRun
  <2>4. StoreHonest'
    BY <1>2, <1>9, StoreKept DEF EndRun
  <2>5. QED
    BY <2>1, <2>2, <2>3, <2>4, RunFrame
<1>10. CASE NextSession(w)
  <2>1. \A a \in Actors \ {w} : run'[a] = run[a]
    BY <1>3, <1>10 DEF NextSession
  <2>2. UNCHANGED <<youtube, req, patch>> /\ Grows(youtube, youtube')
    BY <1>10, SameVideos DEF NextSession, storeVars, UnchangedByWorker
  <2>3. RunHonest(youtube, run'[w])
    <3>1. PICK s \in run[w].claimed : run'[w] =
               [run[w] EXCEPT
                  !.due = {}, !.claimed = run[w].claimed \ {s}, !.job = s.job,
                  !.offset = s.offset, !.att = attempt[s.job],
                  !.pc = IF attempt[s.job].status = "succeeded" THEN "confirm" ELSE "asset",
                  !.result = IF attempt[s.job].status = "succeeded"
                             THEN attempt[s.job].result ELSE NoResult]
      BY <1>3, <1>10 DEF NextSession
    <3>2. s.job \in Jobs
      BY <1>1 DEF RunRow, Claimed
    <3>3. RowHonest(youtube[s.job], attempt[s.job])
      BY <1>2, <3>2 DEF StoreHonest
    <3>4. /\ run'[w].seen = run[w].seen /\ run'[w].job = s.job
          /\ run'[w].att = attempt[s.job]
          /\ run'[w].pc = IF attempt[s.job].status = "succeeded" THEN "confirm" ELSE "asset"
          /\ run'[w].result = IF attempt[s.job].status = "succeeded"
                              THEN attempt[s.job].result ELSE NoResult
      BY <1>1, <3>1 DEF RunRow
    <3>5. BlobHonest(youtube, run[w].seen)
      BY <1>1 DEF RunHonest
    <3>6. Confirmed(youtube[s.job], run'[w].result)
      BY <3>3, <3>4, NothingPublished DEF RowHonest
    <3>7. run'[w].pc = "confirm" => run'[w].result.status = "published"
      BY <3>3, <3>4 DEF RowHonest
    <3>8. QED
      BY <3>3, <3>4, <3>5, <3>6, <3>7 DEF RunHonest
  <2>4. StoreHonest'
    BY <1>2, <1>10, StoreKept DEF NextSession
  <2>5. QED
    BY <2>1, <2>2, <2>3, <2>4, RunFrame
<1>11. CASE NotReady(w)
  <2>1. \A a \in Actors \ {w} : run'[a] = run[a]
    BY <1>3, <1>11 DEF NotReady
  <2>2. UNCHANGED <<youtube, req, patch>> /\ Grows(youtube, youtube')
    BY <1>11, SameVideos DEF NotReady, storeVars, UnchangedByWorker
  <2>3. RunHonest(youtube, run'[w])
    <3>1. /\ run'[w].seen = run[w].seen /\ run'[w].att = run[w].att
          /\ run'[w].job = run[w].job /\ run'[w].pc = "termState"
          /\ run'[w].result = Failed("upload_failed")
      BY <1>1, <1>3, <1>11 DEF NotReady, Leave, RunRow
    <3>2. QED
      BY <1>1, <3>1, NothingPublished DEF RunHonest
  <2>4. StoreHonest'
    <3>1. SessionHonest(youtube[run[w].job], session'[run[w].job])
      BY <1>1, <1>3, <1>11, SessionUpdates, NotCompletedHonest DEF NotReady
    <3>2. QED
      BY <1>1, <1>2, <1>3, <3>1, <1>11, SessionWritten DEF NotReady
  <2>5. QED
    BY <2>1, <2>2, <2>3, <2>4, RunFrame
<1>12. CASE ReadState(w)
  <2>1. \A a \in Actors \ {w} : run'[a] = run[a]
    BY <1>3, <1>12 DEF ReadState
  <2>2. UNCHANGED <<youtube, req, patch>> /\ Grows(youtube, youtube')
    BY <1>12, SameVideos DEF ReadState, storeVars, UnchangedByWorker
  <2>3. RunHonest(youtube, run'[w])
    <3>1. /\ run'[w].seen = os /\ run'[w].att = run[w].att
          /\ run'[w].job = run[w].job /\ run'[w].pc = "chunk"
          /\ run'[w].result = run[w].result
      BY <1>1, <1>3, <1>12 DEF ReadState, RunRow
    <3>2. QED
      BY <1>1, <1>2, <3>1 DEF RunHonest, StoreHonest
  <2>4. StoreHonest'
    BY <1>2, <1>12, StoreKept DEF ReadState
  <2>5. QED
    BY <2>1, <2>2, <2>3, <2>4, RunFrame
<1>13. CASE ReadChunk(w)
  <2>1. \A a \in Actors \ {w} : run'[a] = run[a]
    BY <1>3, <1>13 DEF ReadChunk
  <2>2. UNCHANGED <<youtube, req, patch>> /\ Grows(youtube, youtube')
    BY <1>13, SameVideos DEF ReadChunk, storeVars, UnchangedByWorker
  <2>3. RunHonest(youtube, run'[w])
    <3>1. /\ run'[w].seen = run[w].seen /\ run'[w].att = run[w].att
          /\ run'[w].job = run[w].job /\ run'[w].result = run[w].result
      BY <1>1, <1>3, <1>13 DEF ReadChunk, RunRow
    <3>2. QED
      BY <1>1, <1>3, <1>13, <3>1, RunMoves DEF ReadChunk, RunRow
  <2>4. StoreHonest'
    <3>1. SessionHonest(youtube[run[w].job], session'[run[w].job])
      BY <1>1, <1>3, <1>13, SessionUpdates, NotCompletedHonest DEF ReadChunk
    <3>2. QED
      BY <1>1, <1>2, <1>3, <3>1, <1>13, SessionWritten DEF ReadChunk
  <2>5. QED
    BY <2>1, <2>2, <2>3, <2>4, RunFrame
<1>14. CASE ChunkUnreadable(w)
  <2>1. \A a \in Actors \ {w} : run'[a] = run[a]
    BY <1>3, <1>14 DEF ChunkUnreadable
  <2>2. UNCHANGED <<youtube, req, patch>> /\ Grows(youtube, youtube')
    BY <1>14, SameVideos DEF ChunkUnreadable, storeVars, UnchangedByWorker
  <2>3. RunHonest(youtube, run'[w])
    <3>1. /\ run'[w].seen = run[w].seen /\ run'[w].att = run[w].att
          /\ run'[w].job = run[w].job /\ run'[w].pc = "termState"
          /\ run'[w].result = Failed("upload_failed")
      BY <1>1, <1>3, <1>14 DEF ChunkUnreadable, Leave, RunRow
    <3>2. QED
      BY <1>1, <3>1, NothingPublished DEF RunHonest
  <2>4. StoreHonest'
    <3>1. SessionHonest(youtube[run[w].job], session'[run[w].job])
      BY <1>1, <1>3, <1>14, SessionUpdates, NotCompletedHonest DEF ChunkUnreadable
    <3>2. QED
      BY <1>1, <1>2, <1>3, <3>1, <1>14, SessionWritten DEF ChunkUnreadable
  <2>5. QED
    BY <2>1, <2>2, <2>3, <2>4, RunFrame
<1>15. CASE Finalize(w)
  <2>1. \A a \in Actors \ {w} : run'[a] = run[a]
    BY <1>3, <1>15 DEF Finalize
  <2>2. UNCHANGED <<youtube, req, patch>> /\ Grows(youtube, youtube')
    BY <1>15, SameVideos DEF Finalize, storeVars, UnchangedByWorker
  <2>3. RunHonest(youtube, run'[w])
    <3> DEFINE j == run[w].job
    <3>1. \/ /\ youtube[j].done # 0
             /\ run'[w] = Leave(run[w], "completeSession", Published(youtube[j].done))
          \/ run'[w] = Leave(run[w], "failSession", Failed("upload_failed"))
      BY <1>3, <1>15 DEF Finalize
    <3>4. \A pc, result : LET new == Leave(run[w], pc, result) IN
             /\ new.seen = run[w].seen /\ new.att = run[w].att /\ new.job = run[w].job
             /\ new.pc = pc /\ new.result = result
      BY <1>1 DEF Leave, RunRow
    <3>2. youtube[j].done # 0 => Confirmed(youtube[j], Published(youtube[j].done))
      BY <1>1, <1>2, NothingPublished DEF StoreHonest, ChannelHonest
    <3>3. QED
      BY <1>1, <3>1, <3>2, <3>4, NothingPublished DEF RunHonest
  <2>4. StoreHonest'
    BY <1>2, <1>15, StoreKept DEF Finalize
  <2>5. QED
    BY <2>1, <2>2, <2>3, <2>4, RunFrame
<1>16. CASE StopEarly(w)
  <2>1. \A a \in Actors \ {w} : run'[a] = run[a]
    BY <1>3, <1>16 DEF StopEarly
  <2>2. UNCHANGED <<youtube, req, patch>> /\ Grows(youtube, youtube')
    BY <1>16, SameVideos DEF StopEarly, storeVars, UnchangedByWorker
  <2>3. RunHonest(youtube, run'[w])
    BY <1>1, <1>3, <1>16, IdleHonest DEF StopEarly
  <2>4. StoreHonest'
    <3>1. SessionHonest(youtube[run[w].job], session'[run[w].job])
      BY <1>1, <1>3, <1>16, SessionUpdates, NotCompletedHonest DEF StopEarly
    <3>2. QED
      BY <1>1, <1>2, <1>3, <3>1, <1>16, SessionWritten DEF StopEarly
  <2>5. QED
    BY <2>1, <2>2, <2>3, <2>4, RunFrame
<1>17. CASE FailSession(w)
  <2>1. \A a \in Actors \ {w} : run'[a] = run[a]
    BY <1>3, <1>17 DEF FailSession
  <2>2. UNCHANGED <<youtube, req, patch>> /\ Grows(youtube, youtube')
    BY <1>17, SameVideos DEF FailSession, storeVars, UnchangedByWorker
  <2>3. RunHonest(youtube, run'[w])
    <3>1. /\ run'[w].seen = run[w].seen /\ run'[w].att = run[w].att
          /\ run'[w].job = run[w].job /\ run'[w].result = run[w].result
          /\ run'[w].pc = "termState"
      BY <1>1, <1>3, <1>17 DEF FailSession, RunRow
    <3>2. QED
      BY <1>1, <3>1, <1>17 DEF FailSession, RunHonest
  <2>4. StoreHonest'
    <3>1. SessionHonest(youtube[run[w].job], session'[run[w].job])
      BY <1>1, <1>3, <1>17, SessionUpdates, NotCompletedHonest DEF FailSession
    <3>2. QED
      BY <1>1, <1>2, <1>3, <3>1, <1>17, SessionWritten DEF FailSession
  <2>5. QED
    BY <2>1, <2>2, <2>3, <2>4, RunFrame
<1>18. CASE ConfirmSession(w)
  <2>1. \A a \in Actors \ {w} : run'[a] = run[a]
    BY <1>3, <1>18 DEF ConfirmSession
  <2>2. UNCHANGED <<youtube, req, patch>> /\ Grows(youtube, youtube')
    BY <1>18, SameVideos DEF ConfirmSession, storeVars, UnchangedByWorker
  <2>3. RunHonest(youtube, run'[w])
    BY <1>1, <1>3, <1>18, IdleHonest DEF ConfirmSession
  <2>4. StoreHonest'
    <3>1. run[w].result.status = "published" /\ Confirmed(youtube[run[w].job], run[w].result)
      BY <1>1, <1>18 DEF ConfirmSession, RunHonest
    <3>2. session'[run[w].job].ext = run[w].result.ext
      BY <1>1, <1>3, <1>18, SessionUpdates DEF ConfirmSession
    <3>3. SessionHonest(youtube[run[w].job], session'[run[w].job])
      BY <3>1, <3>2 DEF Confirmed, SessionHonest
    <3>4. QED
      BY <1>1, <1>2, <1>3, <3>3, <1>18, SessionWritten DEF ConfirmSession
  <2>5. QED
    BY <2>1, <2>2, <2>3, <2>4, RunFrame
<1>19. CASE CompleteSession(w)
  <2>1. \A a \in Actors \ {w} : run'[a] = run[a]
    BY <1>3, <1>19 DEF CompleteSession
  <2>2. UNCHANGED <<youtube, req, patch>> /\ Grows(youtube, youtube')
    BY <1>19, SameVideos DEF CompleteSession, storeVars, UnchangedByWorker
  <2>3. RunHonest(youtube, run'[w])
    <3>1. /\ run'[w].seen = run[w].seen /\ run'[w].att = run[w].att
          /\ run'[w].job = run[w].job /\ run'[w].result = run[w].result
          /\ run'[w].pc = "completeAttempt"
      BY <1>1, <1>3, <1>19 DEF CompleteSession, RunRow
    <3>2. QED
      BY <1>1, <3>1, <1>19 DEF CompleteSession, RunHonest
  <2>4. StoreHonest'
    <3>1. run[w].result.status = "published" /\ Confirmed(youtube[run[w].job], run[w].result)
      BY <1>1, <1>19 DEF CompleteSession, RunHonest
    <3>2. session'[run[w].job].ext = run[w].result.ext
      BY <1>1, <1>3, <1>19, SessionUpdates DEF CompleteSession
    <3>3. SessionHonest(youtube[run[w].job], session'[run[w].job])
      BY <3>1, <3>2 DEF Confirmed, SessionHonest
    <3>4. QED
      BY <1>1, <1>2, <1>3, <3>3, <1>19, SessionWritten DEF CompleteSession
  <2>5. QED
    BY <2>1, <2>2, <2>3, <2>4, RunFrame
<1>20. CASE RecordSuccess(w)
  <2>1. \A a \in Actors \ {w} : run'[a] = run[a]
    BY <1>3, <1>20 DEF RecordSuccess
  <2>2. UNCHANGED <<youtube, req, patch>> /\ Grows(youtube, youtube')
    BY <1>20, SameVideos DEF RecordSuccess, storeVars, UnchangedByWorker
  <2>3. RunHonest(youtube, run'[w])
    <3>1. /\ run'[w].seen = run[w].seen /\ run'[w].att = run[w].att
          /\ run'[w].job = run[w].job /\ run'[w].result = run[w].result
          /\ run'[w].pc = "terminate" /\ run[w].result.status = "published"
      BY <1>1, <1>3, <1>20 DEF RecordSuccess, RunRow, RunHonest
    <3>2. QED
      BY <1>1, <3>1 DEF RunHonest
  <2>4. StoreHonest'
    <3>1. RowHonest(youtube[run[w].job], attempt'[run[w].job])
      BY <1>1, <1>3, <1>20, CompletedHonest DEF RecordSuccess, RunHonest
    <3>2. QED
      BY <1>1, <1>2, <1>3, <3>1, <1>20, AttemptWritten DEF RecordSuccess
  <2>5. QED
    BY <2>1, <2>2, <2>3, <2>4, RunFrame
<1>21. CASE ReadTermState(w)
  <2>1. \A a \in Actors \ {w} : run'[a] = run[a]
    BY <1>3, <1>21 DEF ReadTermState
  <2>2. UNCHANGED <<youtube, req, patch>> /\ Grows(youtube, youtube')
    BY <1>21, SameVideos DEF ReadTermState, storeVars, UnchangedByWorker
  <2>3. RunHonest(youtube, run'[w])
    <3>1. /\ run'[w].seen = os /\ run'[w].att = run[w].att
          /\ run'[w].job = run[w].job /\ run'[w].pc = "terminate"
          /\ run'[w].result = run[w].result /\ run[w].pc = "termState"
      BY <1>1, <1>3, <1>21 DEF ReadTermState, RunRow
    <3>2. QED
      BY <1>1, <1>2, <3>1 DEF RunHonest, StoreHonest
  <2>4. StoreHonest'
    BY <1>2, <1>21, StoreKept DEF ReadTermState
  <2>5. QED
    BY <2>1, <2>2, <2>3, <2>4, RunFrame
<1>22. CASE ReadTermAttempt(w)
  <2>1. \A a \in Actors \ {w} : run'[a] = run[a]
    BY <1>3, <1>22 DEF ReadTermAttempt
  <2>2. UNCHANGED <<youtube, req, patch>> /\ Grows(youtube, youtube')
    BY <1>22, SameVideos DEF ReadTermAttempt, storeVars, UnchangedByWorker
  <2>3. RunHonest(youtube, run'[w])
    <3>1. /\ run'[w].seen = run[w].seen /\ run'[w].att = attempt[run[w].job]
          /\ run'[w].job = run[w].job /\ run'[w].pc = "terminate"
          /\ run'[w].result = run[w].result /\ run[w].pc = "termAttempt"
      BY <1>1, <1>3, <1>22 DEF ReadTermAttempt, RunRow
    <3>2. QED
      BY <1>1, <1>2, <3>1 DEF RunHonest, StoreHonest
  <2>4. StoreHonest'
    BY <1>2, <1>22, StoreKept DEF ReadTermAttempt
  <2>5. QED
    BY <2>1, <2>2, <2>3, <2>4, RunFrame
<1>23. CASE TerminateAttempt(w)
  <2>1. \A a \in Actors \ {w} : run'[a] = run[a]
    BY <1>3, <1>23 DEF TerminateAttempt
  <2>2. UNCHANGED <<youtube, req, patch>> /\ Grows(youtube, youtube')
    BY <1>23, SameVideos DEF TerminateAttempt, storeVars, UnchangedByWorker
  <2>3. RunHonest(youtube, run'[w])
    <3>1. CASE run' = [run EXCEPT ![w] = Resumed(@)]
      BY <1>1, <1>3, <3>1, IdleHonest
    <3>2. CASE run' = [run EXCEPT ![w].pc = "persist", ![w].att = NoAttempt]
      <4>1. /\ run'[w].seen = run[w].seen /\ run'[w].att = NoAttempt
            /\ run'[w].job = run[w].job /\ run'[w].pc = "persist"
            /\ run'[w].result = run[w].result /\ run[w].pc = "terminate"
        BY <1>1, <1>3, <3>2, <1>23 DEF TerminateAttempt, RunRow
      <4>2. QED
        BY <1>1, <4>1, NothingPublished DEF RunHonest
    <3>3. QED
      BY <3>1, <3>2, <1>23 DEF TerminateAttempt
  <2>4. StoreHonest'
    <3>1. CASE UNCHANGED attempt
      BY <1>2, <3>1, <1>23, StoreKept DEF TerminateAttempt, storeVars
    <3>2. CASE attempt' = [attempt EXCEPT ![run[w].job] = Completed(run[w].result)]
      <4>1. RowHonest(youtube[run[w].job], attempt'[run[w].job])
        BY <1>1, <1>3, <3>2, CompletedHonest DEF RunHonest
      <4>2. UNCHANGED <<session, os, youtube>>
        BY <1>23 DEF TerminateAttempt
      <4>3. QED
        BY <1>1, <1>2, <1>3, <3>2, <4>1, <4>2, AttemptWritten
    <3>3. QED
      BY <3>1, <3>2, <1>23 DEF TerminateAttempt
  <2>5. QED
    BY <2>1, <2>2, <2>3, <2>4, RunFrame
<1>24. CASE PersistTerminal(w)
  <2>1. \A a \in Actors \ {w} : run'[a] = run[a]
    BY <1>3, <1>24 DEF PersistTerminal
  <2>2. UNCHANGED <<youtube, req, patch>> /\ Grows(youtube, youtube')
    BY <1>24, SameVideos DEF PersistTerminal, storeVars, UnchangedByWorker
  <2>3. RunHonest(youtube, run'[w])
    BY <1>1, <1>3, <1>24, IdleHonest DEF PersistTerminal
  <2>4. StoreHonest'
    <3>1. run[w].result.status \in {"failed", "published"}
      BY <1>1, <1>24 DEF PersistTerminal, RunHonest
    <3>2. BlobHonest(youtube, os')
      BY <1>1, <3>1, <1>24, WithResultHonest DEF PersistTerminal, RunHonest
    <3>3. QED
      BY <1>2, <3>2, <1>24 DEF PersistTerminal, StoreHonest
  <2>5. QED
    BY <2>1, <2>2, <2>3, <2>4, RunFrame
<1>25. CASE PollState(w)
  <2>1. \A a \in Actors \ {w} : run'[a] = run[a]
    BY <1>3, <1>25 DEF PollState
  <2>2. UNCHANGED <<youtube, req, patch>> /\ Grows(youtube, youtube')
    BY <1>25, SameVideos DEF PollState, storeVars, UnchangedByWorker
  <2>3. RunHonest(youtube, run'[w])
    <3>1. PICK j \in Jobs : run'[w] = [IdleRun EXCEPT !.pc = "pollAttempt", !.job = j,
                                                      !.seen = os]
      BY <1>3, <1>25 DEF PollState
    <3>2. /\ run'[w].seen = os /\ run'[w].att = NoAttempt /\ run'[w].pc = "pollAttempt"
          /\ run'[w].result = NoResult
      BY <3>1 DEF IdleRun
    <3>3. QED
      BY <1>2, <3>2, NothingPublished DEF RunHonest, StoreHonest
  <2>4. StoreHonest'
    BY <1>2, <1>25, StoreKept DEF PollState
  <2>5. QED
    BY <2>1, <2>2, <2>3, <2>4, RunFrame
<1>26. CASE PollAttempt(w)
  <2>1. \A a \in Actors \ {w} : run'[a] = run[a]
    BY <1>3, <1>26 DEF PollAttempt
  <2>2. UNCHANGED <<youtube, req, patch>> /\ Grows(youtube, youtube')
    BY <1>26, SameVideos DEF PollAttempt, storeVars, UnchangedByWorker
  <2>3. RunHonest(youtube, run'[w])
    <3>1. /\ run'[w].seen = run[w].seen /\ run'[w].att = attempt[run[w].job]
          /\ run'[w].job = run[w].job /\ run'[w].pc = "pollSession"
          /\ run'[w].result = run[w].result
      BY <1>1, <1>3, <1>26 DEF PollAttempt, RunRow
    <3>2. QED
      BY <1>1, <1>2, <3>1 DEF RunHonest, StoreHonest
  <2>4. StoreHonest'
    BY <1>2, <1>26, StoreKept DEF PollAttempt
  <2>5. QED
    BY <2>1, <2>2, <2>3, <2>4, RunFrame
<1>27. CASE PollSession(w)
  <2>1. \A a \in Actors \ {w} : run'[a] = run[a]
    BY <1>3, <1>27 DEF PollSession
  <2>2. UNCHANGED <<youtube, req, patch>> /\ Grows(youtube, youtube')
    BY <1>27, SameVideos DEF PollSession, storeVars, UnchangedByWorker
  <2>3. RunHonest(youtube, run'[w])
    <3>1. CASE run' = [run EXCEPT ![w] = IdleRun]
      BY <1>3, <3>1, IdleHonest
    <3>2. CASE \E why, pc : /\ run' = [run EXCEPT ![w].result = Failed(why), ![w].pc = pc]
                            /\ pc \in {"termAttempt", "terminate"}
      <4>1. /\ run'[w].seen = run[w].seen /\ run'[w].att = run[w].att
            /\ run'[w].job = run[w].job /\ run'[w].pc \in {"termAttempt", "terminate"}
            /\ \E why : run'[w].result = Failed(why)
        BY <1>1, <1>3, <3>2 DEF RunRow
      <4>2. QED
        BY <1>1, <4>1, NothingPublished DEF RunHonest
    <3>3. QED
      BY <3>1, <3>2, <1>27 DEF PollSession
  <2>4. StoreHonest'
    BY <1>2, <1>27, StoreKept DEF PollSession
  <2>5. QED
    BY <2>1, <2>2, <2>3, <2>4, RunFrame
<1>28. CASE CrashRun(w)
  <2>1. \A a \in Actors \ {w} : run'[a] = run[a]
    BY <1>3, <1>28 DEF CrashRun
  <2>2. UNCHANGED <<youtube, req, patch>> /\ Grows(youtube, youtube')
    BY <1>28, SameVideos DEF CrashRun, storeVars, UnchangedByWorker
  <2>3. RunHonest(youtube, run'[w])
    BY <1>3, <1>28, IdleHonest DEF CrashRun
  <2>4. StoreHonest'
    BY <1>2, <1>28, StoreKept DEF CrashRun
  <2>5. QED
    BY <2>1, <2>2, <2>3, <2>4, RunFrame
<1>29. CASE PutChunk(w)
  <2> DEFINE j == run[w].job
             after == youtube'[j]
  <2>1. \A a \in Actors \ {w} : run'[a] = run[a]
    BY <1>3, <1>29 DEF PutChunk
  <2>2. youtube \in [Jobs -> Channel] /\ youtube' \in [Jobs -> Channel]
    BY DEF TypeOK
  <2>3. /\ \A i \in Jobs \ {j} : youtube'[i] = youtube[i]
        /\ \/ after = youtube[j]
           \/ after = [videos |-> youtube[j].videos + 1, received |-> Size,
                       done |-> youtube[j].videos + 1]
           \/ after = [youtube[j] EXCEPT !.received = run[w].offset + 1]
    BY <1>1, <2>2, <1>29 DEF PutChunk, AfterChunk
  <2>4. Grows(youtube, youtube')
    BY <1>1, <2>2, <2>3 DEF Grows, Channel
  <2>5. \A i \in Jobs : ChannelHonest(youtube'[i])
    <3>1. \A i \in Jobs : ChannelHonest(youtube[i])
      BY <1>2 DEF StoreHonest
    <3>2. ChannelHonest(after)
      <4>1. CASE after = [videos |-> youtube[j].videos + 1, received |-> Size,
                          done |-> youtube[j].videos + 1]
        BY <1>1, <2>2, <4>1 DEF ChannelHonest, ConfirmedVideo, Channel
      <4>2. CASE after = [youtube[j] EXCEPT !.received = run[w].offset + 1]
        BY <1>1, <2>2, <3>1, <4>2 DEF ChannelHonest, ConfirmedVideo, Channel
      <4>3. QED
        BY <1>1, <2>3, <3>1, <4>1, <4>2
    <3>3. QED
      BY <2>3, <3>1, <3>2
  <2>6. StoreHonest'
    <3>1. BlobHonest(youtube', os)
      BY <1>2, <2>2, <2>4, CopiesStayHonest DEF StoreHonest
    <3>2. \A i \in Jobs : /\ RowHonest(youtube'[i], attempt[i])
                        /\ SessionHonest(youtube'[i], session[i])
      BY <1>2, <2>2, <2>4, ConfirmedStays DEF StoreHonest
    <3>3. QED
      BY <2>5, <3>1, <3>2, <1>29 DEF PutChunk, StoreHonest
  <2>7. RunHonest(youtube', run[w])
    BY <1>1, <2>2, <2>4, CopiesStayHonest
  <2>8. /\ run'[w].seen = run[w].seen /\ run'[w].att = run[w].att /\ run'[w].job = j
        /\ \/ run'[w].pc = "chunk" /\ run'[w].result = run[w].result
           \/ /\ run'[w].pc = "completeSession" /\ after.done # 0
              /\ run'[w].result = Published(after.done)
           \/ run'[w].pc = "failSession" /\ run'[w].result = Failed("upload_failed")
    <3>1. after = IF Kept(j, run[w].offset) THEN AfterChunk(youtube[j], run[w].offset)
                                            ELSE youtube[j]
      BY <1>1, <2>2, <1>29 DEF PutChunk
    <3>2. \/ \E o, n : run' = [run EXCEPT ![w].pc = "chunk", ![w].offset = o, ![w].sent = n]
          \/ /\ after.done # 0
             /\ run' = [run EXCEPT ![w] = Leave(@, "completeSession", Published(after.done))]
          \/ run' = [run EXCEPT ![w] = Leave(@, "failSession", Failed("upload_failed"))]
      BY <3>1, <1>29 DEF PutChunk
    <3>3. \A pc, result : LET new == Leave(run[w], pc, result) IN
             /\ new.seen = run[w].seen /\ new.att = run[w].att /\ new.job = run[w].job
             /\ new.pc = pc /\ new.result = result
      BY <1>1 DEF Leave, RunRow
    <3>4. CASE \E o, n : run' = [run EXCEPT ![w].pc = "chunk", ![w].offset = o, ![w].sent = n]
      BY <1>1, <1>3, <3>4 DEF RunRow
    <3>5. CASE /\ after.done # 0
               /\ run' = [run EXCEPT ![w] = Leave(@, "completeSession", Published(after.done))]
      BY <1>3, <3>3, <3>5
    <3>6. CASE run' = [run EXCEPT ![w] = Leave(@, "failSession", Failed("upload_failed"))]
      BY <1>3, <3>3, <3>6
    <3>7. QED
      BY <3>2, <3>4, <3>5, <3>6
  <2>9. after.done # 0 => Confirmed(after, Published(after.done))
    BY <1>1, <2>5, NothingPublished DEF ChannelHonest
  <2>10. RunHonest(youtube', run'[w])
    BY <2>7, <2>8, <2>9, NothingPublished DEF RunHonest
  <2>11. QED
    BY <2>1, <2>4, <2>6, <2>10, <1>29, RunFrame DEF PutChunk, UnchangedByWorker
<1>30. QED
  BY <1>4, <1>5, <1>6, <1>7, <1>8, <1>9, <1>10, <1>11, <1>12, <1>13, <1>14, <1>15, <1>16, <1>17, <1>18, <1>19, <1>20, <1>21, <1>22, <1>23, <1>24, <1>25, <1>26, <1>27, <1>28, <1>29 DEF WorkerStep, PollerStep, TermStep

LEMMA PatchKeepsHonest ==
    ASSUME TypeOK, TypeOK', Honest, NEW p \in Patchers,
           PatchRead(p) \/ PatchPut(p), UNCHANGED run
    PROVE  Honest'
<1>1. patch \in [Patchers -> PatchRow] /\ BlobHonest(youtube, patch[p].seen)
  BY DEF TypeOK, Honest
<1>2. StoreHonest /\ \A q \in Patchers : BlobHonest(youtube, patch[q].seen)
  BY DEF Honest
<1>3. UNCHANGED <<attempt, session, youtube, req>>
  BY DEF PatchRead, PatchPut, storeVars
<1>4. BlobHonest(youtube, os')
  BY <1>1, <1>2 DEF PatchRead, PatchPut, storeVars, StoreHonest
<1>5. patch'[p].seen \in {os, NewBlob} /\ \A q \in Patchers \ {p} : patch'[q] = patch[q]
  BY <1>1 DEF PatchRead, PatchPut
<1>6. \A q \in Patchers : BlobHonest(youtube, patch'[q].seen)
  BY <1>2, <1>5, NewBlobHonest DEF StoreHonest
<1>7. StoreHonest'
  BY <1>2, <1>3, <1>4 DEF StoreHonest
<1>8. QED
  BY <1>3, <1>6, <1>7 DEF Honest

LEMMA TimeKeepsHonest ==
    ASSUME TypeOK, TypeOK', Honest, NEW j \in Jobs,
           \/ AttemptLapses(j) /\ UNCHANGED run
           \/ LeaseLapses(j) \/ SessionLapses(j)
    PROVE  Honest'
<1>1. attempt \in [Jobs -> AttemptRow] /\ session \in [Jobs -> SessionRow]
  BY DEF TypeOK
<1>2. StoreHonest
  BY DEF Honest
<1>3. UNCHANGED <<os, youtube, req, patch, run>>
  BY DEF AttemptLapses, LeaseLapses, SessionLapses, UnchangedByWorker
<1>4. CASE AttemptLapses(j)
  <2>1. /\ attempt'[j].status = attempt[j].status /\ attempt'[j].result = attempt[j].result
        /\ \A k \in Jobs \ {j} : attempt'[k] = attempt[k]
    BY <1>1, <1>4 DEF AttemptLapses, AttemptRow
  <2>2. RowHonest(youtube[j], attempt'[j])
    BY <1>2, <2>1 DEF StoreHonest, RowHonest
  <2>3. StoreHonest'
    BY <1>2, <1>4, <2>1, <2>2, AttemptWritten DEF AttemptLapses
  <2>4. QED
    BY <1>3, <2>3 DEF Honest
<1>5. CASE LeaseLapses(j) \/ SessionLapses(j)
  <2>1. /\ session'[j].status = session[j].status /\ session'[j].ext = session[j].ext
        /\ \A k \in Jobs \ {j} : session'[k] = session[k]
    BY <1>1, <1>5 DEF LeaseLapses, SessionLapses, SessionRow
  <2>2. SessionHonest(youtube[j], session'[j])
    BY <1>2, <2>1 DEF StoreHonest, SessionHonest
  <2>3. StoreHonest'
    BY <1>2, <1>5, <2>1, <2>2, SessionWritten DEF LeaseLapses, SessionLapses
  <2>4. QED
    BY <1>3, <2>3 DEF Honest
<1>6. QED
  BY <1>4, <1>5

LEMMA HonestAlways == Spec => []Honest
<1>1. Init => Honest
  BY HonestInit
<1>2. TypeOK /\ TypeOK' /\ Honest /\ [Next]_vars => Honest'
  <2> SUFFICES ASSUME TypeOK, TypeOK', Honest, [Next]_vars PROVE Honest'
    OBVIOUS
  <2>1. CASE RequestNext /\ UNCHANGED run
    BY <2>1, RequestKeepsHonest, PatchKeepsHonest, TimeKeepsHonest DEF RequestNext
  <2>2. CASE \E w \in Workers : WorkerStep(w) \/ CrashRun(w)
    BY <2>2, RunKeepsHonest DEF Actors
  <2>3. CASE \E p \in Pollers : PollerStep(p)
    BY <2>3, RunKeepsHonest DEF Actors
  <2>4. CASE \E j \in Jobs : LeaseLapses(j) \/ SessionLapses(j)
    BY <2>4, TimeKeepsHonest
  <2>5. CASE UNCHANGED vars
    BY <2>5 DEF vars, Honest, StoreHonest
  <2>6. QED
    BY <2>1, <2>2, <2>3, <2>4, <2>5 DEF Next
<1>3. QED
  BY <1>1, <1>2, TypeCorrect, PTL DEF Spec

\* Nowhere is a job reported as published, and no project as COMPLETED, unless
\* YouTube made the video that is named: for any number of jobs, requests, runs,
\* clients and chunks, and however they interleave, overlap and crash.
THEOREM PublishedCorrect == Spec => []PublishedIsConfirmed
<1>1. Honest => PublishedIsConfirmed
  BY DEF Honest, StoreHonest, BlobHonest, PublishedIsConfirmed
<1>2. QED
  BY <1>1, HonestAlways, PTL
=============================================================================
