---------------------------- MODULE PublishWorker ----------------------------
(***************************************************************************)
(* The publish pipeline as a whole: the requests of PublishRequest, the    *)
(* internal worker (runCreativePublishWorker, called by one or two         *)
(* schedulers, so that runs overlap), the status reads of clients          *)
(* (getCreativePublishStatusForActor, which repair what they read), and    *)
(* the passing of time.                                                    *)
(***************************************************************************)
EXTENDS PublishRequest

CONSTANTS
    Workers,        \* worker runs that may be under way at the same time
    Pollers,        \* clients that read the publish status
    PromptRequests  \* TRUE: a request does not sleep through a whole upload

Actors == Workers \cup Pollers

VARIABLE run        \* local state of the worker runs and of the status reads

vars == <<attempt, session, os, youtube, req, patch, run>>

\* A session record as a worker read it.
Listed  == [job : Jobs, reason : Reasons]
Claimed == [job : Jobs, offset : Nat]

RunRow ==
    [pc      : {"idle", "list", "reconcile", "claim", "asset", "chunk", "put",
                "failSession", "confirm", "completeSession", "completeAttempt",
                "termState", "termAttempt", "terminate", "persist",
                "pollAttempt", "pollSession"},
     back    : {"idle", "reconcile", "claim"},  \* the loop to go back to
     listed  : SUBSET Listed,    \* dead sessions still to reconcile
     due     : SUBSET Jobs,      \* sessions still to claim
     claimed : SUBSET Claimed,   \* sessions still to process
     job     : Jobs,
     offset  : Nat,              \* of the upload, as this run believes
     sent    : Nat,              \* chunks this run sent for this session
     att     : AttemptRow,       \* the attempt row, as read
     seen    : Blob,             \* the blob, as read
     result  : Result]

SomeJob == CHOOSE j \in Jobs : TRUE

IdleRun == [pc |-> "idle", back |-> "idle", listed |-> {}, due |-> {}, claimed |-> {},
            job |-> SomeJob, offset |-> 0, sent |-> 0, att |-> NoAttempt,
            seen |-> NewBlob, result |-> NoResult]

\* Back to the loop of the run, the locals of the session forgotten.
Resumed(row) ==
    [IdleRun EXCEPT !.pc = row.back, !.back = row.back, !.listed = row.listed,
                    !.claimed = row.claimed]

\* On to what follows the upload.
Leave(row, pc, result) ==
    [row EXCEPT !.pc = pc, !.result = result, !.offset = 0, !.sent = 0]

Older(j, k) == session[j].born < session[k].born
Oldest(S, n) == {j \in S : Cardinality({k \in S : Older(k, j)}) < n}
Foremost(s, S) == \A t \in S : t = s \/ Older(s.job, t.job)

Init == RequestInit /\ run = [a \in Actors |-> IdleRun]

UnchangedByWorker == UNCHANGED <<req, patch>>

-----------------------------------------------------------------------------
(* A run begins: expireStaleYouTubeUploadSessions, one statement.           *)

ExpireStale(w) ==
    /\ run[w].pc = "idle"
    /\ session' = [j \in Jobs |->
         IF Open(session[j]) /\ ~session[j].live
         THEN [session[j] EXCEPT !.status = "expired", !.reason = "expired",
                                 !.lease = "none"]
         ELSE session[j]]
    /\ run' = [run EXCEPT ![w].pc = "list"]
    /\ UNCHANGED <<attempt, os, youtube>> /\ UnchangedByWorker

\* The oldest dead sessions, whether or not they were reconciled before.
ListDead(w) ==
    /\ run[w].pc = "list"
    /\ run' = [run EXCEPT ![w].pc = "reconcile", ![w].back = "reconcile",
                          ![w].listed = {[job |-> j, reason |-> session[j].reason] :
                             j \in Oldest({k \in Jobs : Dead(session[k])}, Limit)}]
    /\ UNCHANGED storeVars /\ UnchangedByWorker

\* The next of them; persistTerminal... begins by reading the blob.
NextDead(w) ==
    /\ run[w].pc = "reconcile"
    /\ \E s \in run[w].listed :
         /\ Foremost(s, run[w].listed)
         /\ run' = [run EXCEPT ![w] =
               [run[w] EXCEPT !.pc = "termAttempt", !.listed = @ \ {s},
                              !.job = s.job, !.seen = os, !.result = Failed(s.reason)]]
    /\ UNCHANGED storeVars /\ UnchangedByWorker

(* claimDueYouTubeUploadSessions: a query, then one conditional update per  *)
(* row, which looks again at the status and the lease but not at the TTL.   *)

FindDue(w) ==
    /\ run[w].pc = "reconcile" /\ run[w].listed = {}
    /\ run' = [run EXCEPT ![w].pc = "claim", ![w].back = "claim",
          ![w].due =
             {j \in Oldest({k \in Jobs : /\ Open(session[k]) /\ session[k].live
                                         /\ session[k].lease # "held"}, 3 * Limit) :
                 session[j].offset < Size}]
    /\ UNCHANGED storeVars /\ UnchangedByWorker

ClaimsEnded(w) ==
    /\ run[w].pc = "claim"
    /\ run[w].due = {} \/ Cardinality(run[w].claimed) >= Limit

ClaimDue(w) ==
    /\ run[w].pc = "claim" /\ ~ClaimsEnded(w)
    /\ \E j \in run[w].due :
         /\ \A k \in run[w].due : k = j \/ Older(j, k)
         /\ IF Open(session[j]) /\ session[j].lease # "held"
            THEN /\ session' = [session EXCEPT ![j].status = "uploading",
                                               ![j].lease = "held"]
                 /\ run' = [run EXCEPT ![w].due = @ \ {j},
                              ![w].claimed = @ \cup {[job |-> j,
                                                      offset |-> session[j].offset]}]
            ELSE /\ run' = [run EXCEPT ![w].due = @ \ {j}]
                 /\ UNCHANGED session
    /\ UNCHANGED <<attempt, os, youtube>> /\ UnchangedByWorker

EndRun(w) ==
    /\ ClaimsEnded(w) /\ run[w].claimed = {}
    /\ run' = [run EXCEPT ![w] = IdleRun]
    /\ UNCHANGED storeVars /\ UnchangedByWorker

-----------------------------------------------------------------------------
(* processYouTubeUploadSession.                                             *)

\* The attempt is read; one that succeeded only closes the session.
NextSession(w) ==
    /\ ClaimsEnded(w)
    /\ \E s \in run[w].claimed :
         LET row == attempt[s.job] IN
         /\ Foremost(s, run[w].claimed)
         /\ run' = [run EXCEPT ![w] =
               [run[w] EXCEPT
                  !.due = {}, !.claimed = @ \ {s}, !.job = s.job,
                  !.offset = s.offset, !.att = row,
                  !.pc = IF row.status = "succeeded" THEN "confirm" ELSE "asset",
                  !.result = IF row.status = "succeeded" THEN row.result ELSE NoResult]]
    /\ UNCHANGED storeVars /\ UnchangedByWorker

\* Mutant: failing a session clears the video's name.
SessionFailedForgets(s, result) ==
    [s EXCEPT !.status = "failed", !.lease = "none", !.reason = result.reason,
              !.ext = 0]

SessionFailed(s, result) ==
    [s EXCEPT !.status = "failed", !.lease = "none", !.reason = result.reason]

\* The asset is gone or the token cannot be refreshed (each has a reason of its
\* own in the code; here they share one with a failed upload).
NotReady(w) ==
    /\ run[w].pc = "asset"
    /\ session' = [session EXCEPT ![run[w].job] = SessionFailed(@, Failed("upload_failed"))]
    /\ run' = [run EXCEPT ![w] = Leave(@, "termState", Failed("upload_failed"))]
    /\ UNCHANGED <<attempt, os, youtube>> /\ UnchangedByWorker

ReadState(w) ==
    /\ run[w].pc = "asset"
    /\ run' = [run EXCEPT ![w].pc = "chunk", ![w].seen = os]
    /\ UNCHANGED storeVars /\ UnchangedByWorker

\* Progress is recorded, and the lease given up, BEFORE the chunk is sent.
ReadChunk(w) ==
    LET j == run[w].job IN
    /\ run[w].pc = "chunk"
    /\ run[w].offset < Size /\ run[w].sent < MaxChunks
    /\ session' = [session EXCEPT ![j] = Progressed(@, run[w].offset + 1)]
    /\ run' = [run EXCEPT ![w].pc = "put"]
    /\ UNCHANGED <<attempt, os, youtube>> /\ UnchangedByWorker

\* The chunk cannot be read from blob storage.
ChunkUnreadable(w) ==
    /\ run[w].pc = "chunk"
    /\ run[w].offset < Size /\ run[w].sent < MaxChunks
    /\ session' = [session EXCEPT ![run[w].job] =
                                     SessionFailed(@, Failed("upload_failed"))]
    /\ run' = [run EXCEPT ![w] = Leave(@, "termState", Failed("upload_failed"))]
    /\ UNCHANGED <<attempt, os, youtube>> /\ UnchangedByWorker

\* No request on the job is between opening the session and recording it.
CreatorIsDone(j) ==
    \A r \in Requests :
        req[r].job = j /\ req[r].pc \in {"complete", "persist"}
            => req[r].result # Uploading

(* What YouTube does with a PUT of chunk o: it keeps the chunk it expects,   *)
(* the last one makes the video, and any other is turned away; asked again   *)
(* about a finished upload it names the video.                               *)
Kept(j, o) == youtube[j].done = 0 /\ youtube[j].received = o
AfterChunk(ch, o) ==
    IF o + 1 = Size
    THEN [videos |-> ch.videos + 1, received |-> Size, done |-> ch.videos + 1]
    ELSE [ch EXCEPT !.received = o + 1]

PutChunk(w) ==
    LET j == run[w].job
        o == run[w].offset
        final == o + 1 >= Size
        after == IF Kept(j, o) THEN AfterChunk(youtube[j], o) ELSE youtube[j]
    IN
    /\ run[w].pc = "put"
    /\ PromptRequests /\ final => CreatorIsDone(j)
    /\ youtube' = [youtube EXCEPT ![j] = after]
    /\ \* 308, or ok before the last chunk; never for a last chunk it kept
       \/ /\ ~(final /\ Kept(j, o))
          /\ run' = [run EXCEPT ![w].pc = "chunk", ![w].offset = o + 1,
                                ![w].sent = @ + 1]
       \* ok for the last chunk
       \/ /\ final /\ after.done # 0
          /\ run' = [run EXCEPT ![w] = Leave(@, "completeSession",
                                             Published(after.done))]
       \* refused, or the answer is lost
       \/ run' = [run EXCEPT ![w] = Leave(@, "failSession", Failed("upload_failed"))]
    /\ UNCHANGED <<attempt, session, os>> /\ UnchangedByWorker

\* Mutant: the answer to the final request is not checked for a video id.
FinalizeUnchecked(w) ==
    /\ run[w].pc = "chunk" /\ run[w].offset >= Size
    /\ run' = [run EXCEPT ![w] = Leave(@, "completeSession",
                                       Published(youtube[run[w].job].done))]
    /\ UNCHANGED storeVars /\ UnchangedByWorker

\* finalizeYouTubeResumableUpload, when every chunk was sent and none of the
\* answers named a video.
Finalize(w) ==
    LET j == run[w].job IN
    /\ run[w].pc = "chunk" /\ run[w].offset >= Size
    /\ \/ /\ youtube[j].done # 0
          /\ run' = [run EXCEPT ![w] = Leave(@, "completeSession",
                                             Published(youtube[j].done))]
       \/ run' = [run EXCEPT ![w] = Leave(@, "failSession", Failed("upload_failed"))]
    /\ UNCHANGED storeVars /\ UnchangedByWorker

\* Out of chunks, or of wall-clock time: the progress is saved again.
StopEarly(w) ==
    /\ run[w].pc = "chunk" /\ run[w].offset < Size
    /\ session' = [session EXCEPT ![run[w].job] = Progressed(@, run[w].offset)]
    /\ run' = [run EXCEPT ![w] = Resumed(@)]
    /\ UNCHANGED <<attempt, os, youtube>> /\ UnchangedByWorker

FailSession(w) ==
    /\ run[w].pc = "failSession"
    /\ session' = [session EXCEPT ![run[w].job] = SessionFailed(@, run[w].result)]
    /\ run' = [run EXCEPT ![w].pc = "termState"]
    /\ UNCHANGED <<attempt, os, youtube>> /\ UnchangedByWorker

SessionDone(s, v) ==
    [s EXCEPT !.status = "completed", !.ext = v, !.offset = Size, !.lease = "none"]

\* The attempt had succeeded before: only the session is closed.
ConfirmSession(w) ==
    /\ run[w].pc = "confirm"
    /\ session' = [session EXCEPT ![run[w].job] = SessionDone(@, run[w].result.ext)]
    /\ run' = [run EXCEPT ![w] = Resumed(@)]
    /\ UNCHANGED <<attempt, os, youtube>> /\ UnchangedByWorker

CompleteSession(w) ==
    /\ run[w].pc = "completeSession"
    /\ session' = [session EXCEPT ![run[w].job] = SessionDone(@, run[w].result.ext)]
    /\ run' = [run EXCEPT ![w].pc = "completeAttempt"]
    /\ UNCHANGED <<attempt, os, youtube>> /\ UnchangedByWorker

\* The run's att stays what NextSession read, its seen what ReadState read.
RecordSuccess(w) ==
    /\ run[w].pc = "completeAttempt"
    /\ attempt' = [attempt EXCEPT ![run[w].job] = Completed(run[w].result)]
    /\ run' = [run EXCEPT ![w].pc = "terminate"]
    /\ UNCHANGED <<session, os, youtube>> /\ UnchangedByWorker

-----------------------------------------------------------------------------
(* persistTerminalCreativePublishForSession: each layer is written if the    *)
(* copy that was read says it needs it.                                      *)

\* The blob, when the caller has none (a failed upload).
ReadTermState(w) ==
    /\ run[w].pc = "termState"
    /\ run' = [run EXCEPT ![w].pc = "terminate", ![w].seen = os]
    /\ UNCHANGED storeVars /\ UnchangedByWorker

\* The attempt, when the caller has none (reconciliation).
ReadTermAttempt(w) ==
    /\ run[w].pc = "termAttempt"
    /\ run' = [run EXCEPT ![w].pc = "terminate", ![w].att = attempt[run[w].job]]
    /\ UNCHANGED storeVars /\ UnchangedByWorker

TerminateAttempt(w) ==
    LET p == run[w].seen[run[w].job]
        result == run[w].result
    IN
    /\ run[w].pc = "terminate"
    /\ IF NeedsAttempt(run[w].att, result) /\ run[w].att.status # "none"
       THEN attempt' = [attempt EXCEPT ![run[w].job] = Completed(result)]
       ELSE UNCHANGED attempt
    /\ IF NeedsProject(p, result) \/ NeedsJob(p, result)
       THEN run' = [run EXCEPT ![w].pc = "persist", ![w].att = NoAttempt]
       ELSE run' = [run EXCEPT ![w] = Resumed(@)]
    /\ UNCHANGED <<session, os, youtube>> /\ UnchangedByWorker

PersistTerminal(w) ==
    /\ run[w].pc = "persist"
    /\ os' = WithResult(run[w].seen, run[w].job, run[w].result)
    /\ run' = [run EXCEPT ![w] = Resumed(@)]
    /\ UNCHANGED <<attempt, session, youtube>> /\ UnchangedByWorker

-----------------------------------------------------------------------------
(* getCreativePublishStatusForActor: three reads, and a repair when a dead   *)
(* session shows through an uploading result.                                *)

PollState(p) ==
    /\ run[p].pc = "idle"
    /\ \E j \in Jobs :
         run' = [run EXCEPT ![p] = [IdleRun EXCEPT !.pc = "pollAttempt", !.job = j,
                                                   !.seen = os]]
    /\ UNCHANGED storeVars /\ UnchangedByWorker

PollAttempt(p) ==
    /\ run[p].pc = "pollAttempt"
    /\ run' = [run EXCEPT ![p].pc = "pollSession", ![p].att = attempt[run[p].job]]
    /\ UNCHANGED storeVars /\ UnchangedByWorker

BaseResult(row) ==
    IF row.att.result # NoResult THEN row.att.result ELSE row.seen[row.job].result

PollSession(p) ==
    LET s == session[run[p].job] IN
    /\ run[p].pc = "pollSession"
    /\ IF BaseResult(run[p]).status = "uploading" /\ Dead(s)
       THEN run' = [run EXCEPT ![p].result = Failed(s.reason),
                               ![p].pc = IF run[p].att.status = "none"
                                         THEN "termAttempt" ELSE "terminate"]
       ELSE run' = [run EXCEPT ![p] = IdleRun]
    /\ UNCHANGED storeVars /\ UnchangedByWorker

-----------------------------------------------------------------------------
\* An exception leaves the loop, and the run with it; so does a dead process.
CrashRun(w) ==
    /\ w \in CrashProne /\ run[w].pc # "idle"
    /\ run' = [run EXCEPT ![w] = IdleRun]
    /\ UNCHANGED storeVars /\ UnchangedByWorker

LeaseLapses(j) ==
    /\ session[j].lease = "held"
    /\ session' = [session EXCEPT ![j].lease = "lapsed"]
    /\ UNCHANGED <<attempt, os, youtube, run>> /\ UnchangedByWorker

SessionLapses(j) ==
    /\ session[j].live
    /\ session' = [session EXCEPT ![j].live = FALSE]
    /\ UNCHANGED <<attempt, os, youtube, run>> /\ UnchangedByWorker

TermStep(a) ==
    ReadTermAttempt(a) \/ TerminateAttempt(a) \/ PersistTerminal(a)

WorkerStep(w) ==
    \/ ExpireStale(w) \/ ListDead(w) \/ NextDead(w) \/ FindDue(w) \/ ClaimDue(w)
    \/ EndRun(w) \/ NextSession(w) \/ NotReady(w) \/ ReadState(w) \/ ReadChunk(w)
    \/ ChunkUnreadable(w) \/ PutChunk(w) \/ Finalize(w) \/ StopEarly(w)
    \/ FailSession(w) \/ ConfirmSession(w)
    \/ CompleteSession(w) \/ RecordSuccess(w) \/ ReadTermState(w) \/ TermStep(w)

PollerStep(p) == PollState(p) \/ PollAttempt(p) \/ PollSession(p) \/ TermStep(p)

Next ==
    \/ RequestNext /\ UNCHANGED run
    \/ \E w \in Workers : WorkerStep(w) \/ CrashRun(w)
    \/ \E p \in Pollers : PollerStep(p)
    \/ \E j \in Jobs : LeaseLapses(j) \/ SessionLapses(j)

Spec == Init /\ [][Next]_vars

\* The schedulers keep calling the worker, requests that do not crash go on,
\* and time passes.  Clients need not poll.
LiveSpec ==
    /\ Spec
    /\ \A r \in Requests : WF_vars(RequestStep(r) /\ UNCHANGED run)
    /\ \A w \in Workers : WF_vars(WorkerStep(w))
    /\ \A j \in Jobs : WF_vars(LeaseLapses(j)) /\ WF_vars(SessionLapses(j))

-----------------------------------------------------------------------------
TypeOK ==
    /\ attempt \in [Jobs -> AttemptRow]
    /\ session \in [Jobs -> SessionRow]
    /\ os \in Blob
    /\ youtube \in [Jobs -> Channel]
    /\ req \in [Requests -> ReqRow]
    /\ patch \in [Patchers -> PatchRow]
    /\ run \in [Actors -> RunRow]

ConfirmedVideo(ch, v) == v \in 1..ch.videos

Confirmed(ch, result) == result.status = "published" => ConfirmedVideo(ch, result.ext)

\* What an attempt row and a project may claim, given the videos there are.
RowHonest(ch, row) ==
    /\ Confirmed(ch, row.result)
    /\ row.status = "succeeded" => row.result.status = "published"

ProjectHonest(ch, p) ==
    /\ Confirmed(ch, p.result)
    /\ p.status = "COMPLETED" => p.result.status = "published"

SessionHonest(ch, s) == s.status = "completed" => ConfirmedVideo(ch, s.ext)

\* "published=true only after confirmed YouTube success with valid externalId"
\* (docs/agent-growth-phase65.md:49), in every place that can say published.
PublishedIsConfirmed ==
    \A j \in Jobs : /\ RowHonest(youtube[j], attempt[j])
                    /\ ProjectHonest(youtube[j], os[j])
                    /\ SessionHonest(youtube[j], session[j])

Reclaimers(j) == {r \in Requests : req[r].job = j /\ req[r].how = "reclaim"}

\* A synchronous publish makes a second video of a job only after the lock was
\* reclaimed, once per reclaim: the unique row keeps all others out.
DuplicateNeedsReclaim ==
    \A j \in Jobs \ AsyncJobs : youtube[j].videos <= 1 + Cardinality(Reclaimers(j))

\* However runs overlap, crash and repeat chunks, an asynchronous job makes at
\* most one video: one session per attempt, one upload URL per session.
OneVideoPerAsyncJob == \A j \in AsyncJobs : youtube[j].videos <= 1

\* What the attempt or the Agent OS state report as published is named by the
\* session row, which is written first and never loses the name.
PublishedHasEvidence ==
    \A j \in AsyncJobs : \A result \in {attempt[j].result, os[j].result} :
        result.status = "published" => session[j].ext = result.ext

\* An attempt waits for an upload only if there is an upload session.
UploadingIsBacked ==
    \A j \in Jobs : attempt[j].status = "uploading" => session[j].status # "none"

\* Among requests, a recorded success is undone only once some request reclaimed
\* the lock of the job (worker runs can undo it too: see SuccessIsFinal).
SuccessUndone(j) == attempt[j].status = "succeeded" /\ attempt'[j].status # "succeeded"
SuccessUndoneByReclaim ==
    [][\A j \in Jobs : SuccessUndone(j) => Reclaimers(j)' # {}]_vars

\* "completeCreativePublishAttempt skipped when attempt already terminal"
\* (docs/agent-growth-phase67.md:90): at least a success stays.
SuccessIsFinal == [][\A j \in Jobs : ~SuccessUndone(j)]_vars

\* "Reconciliation immediately terminal-fails bound attempt"
\* (docs/agent-growth-phase67.md:42): an attempt does not wait forever.
AttemptSettles ==
    \A j \in Jobs : attempt[j].status = "uploading"
                        ~> attempt[j].status # "uploading"
=============================================================================
