--------------------------- MODULE PublishRequest ---------------------------
(***************************************************************************)
(* POST /creative/publish: publishCreativeForActor, from the first read of *)
(* the Agent OS blob to the last write of it, together with YouTube (as    *)
(* the code sees it) and the other writer of the blob that shares it       *)
(* (patchSocialAccountConnectionForActor).                                 *)
(*                                                                         *)
(* Every await on the database or on YouTube ends a step: between two      *)
(* steps of one request any step of any other actor may happen.  A request *)
(* is made once; a client that tries again is another request.             *)
(***************************************************************************)
EXTENDS PublishStore

CONSTANTS
    Requests,    \* POST /publish calls
    Patchers,    \* calls that read the blob and put it back with another edit
    CrashProne   \* actors whose process may die, or whose database may fail

ASSUME RequestAssumption == IsFiniteSet(Requests)

VARIABLES
    attempt,     \* creative_publish_attempts
    session,     \* creative_youtube_upload_sessions
    os,          \* the Agent OS blob
    youtube,     \* per job: videos that exist, and the resumable upload
    req,         \* the requests' local state
    patch        \* the patchers' local state

storeVars == <<attempt, session, os, youtube>>

\* videos: how many YouTube created for the job (numbered 1..videos);
\* received: chunks the resumable upload holds; done: the video it became.
Channel == [videos : Nat, received : Nat, done : Nat]
NewChannel == [videos |-> 0, received |-> 0, done |-> 0]

ReqRow ==
    [pc     : {"idle", "acquire", "reclaim", "held", "complete", "persist",
               "done", "conflict", "refused", "crashed"},
     job    : Jobs,
     seen   : Blob,
     result : Result,
     how    : {"none", "create", "reclaim"}]

PatchRow == [pc : {"idle", "put", "done"}, seen : Blob]

NextBorn == Cardinality({j \in Jobs : session[j].status # "none"}) + 1

RequestInit ==
    /\ attempt = [j \in Jobs |-> NoAttempt]
    /\ session = [j \in Jobs |-> NoSession]
    /\ os = NewBlob
    /\ youtube = [j \in Jobs |-> NewChannel]
    /\ req \in [Requests -> {[pc |-> "idle", job |-> j, seen |-> NewBlob,
                              result |-> NoResult, how |-> "none"] : j \in Jobs}]
    /\ patch = [p \in Patchers |-> [pc |-> "idle", seen |-> NewBlob]]

\* The request ends: its snapshot is garbage.
Ended(row, pc) == [row EXCEPT !.pc = pc, !.seen = NewBlob]

-----------------------------------------------------------------------------
(* Reading the blob.  A prior result that is uploading, or published with a *)
(* COMPLETED job, is answered at once.                                      *)

LoadState(r) ==
    LET mine == os[req[r].job] IN
    /\ req[r].pc = "idle"
    /\ IF \/ mine.result.status = "uploading"
          \/ mine.status = "COMPLETED" /\ mine.result.status = "published"
       THEN req' = [req EXCEPT ![r].pc = "done", ![r].result = mine.result]
       ELSE req' = [req EXCEPT ![r].pc = "acquire", ![r].seen = os]
    /\ UNCHANGED <<storeVars, patch>>

(* The idempotency lock: create the row, or read the one that is there and  *)
(* decide; a reclaim is a second statement that does not look again.        *)

\* Mutant: the unique constraint on the job is missing.
AcquireCreateTwice(r) ==
    /\ req[r].pc = "acquire"
    /\ attempt' = [attempt EXCEPT ![req[r].job] = [status |-> "in_flight",
                                          result |-> NoResult, live |-> TRUE]]
    /\ req' = [req EXCEPT ![r].pc = "held", ![r].how = "create"]
    /\ UNCHANGED <<session, os, youtube, patch>>

AcquireCreate(r) ==
    LET j == req[r].job IN
    /\ req[r].pc = "acquire"
    /\ attempt[j].status = "none"
    /\ attempt' = [attempt EXCEPT ![j] = [status |-> "in_flight",
                                          result |-> NoResult, live |-> TRUE]]
    /\ req' = [req EXCEPT ![r].pc = "held", ![r].how = "create"]
    /\ UNCHANGED <<session, os, youtube, patch>>

AcquireExisting(r) ==
    LET row == attempt[req[r].job] IN
    /\ req[r].pc = "acquire"
    /\ row.status # "none"
    /\ \/ /\ Evaluate(row) = "replay"
          /\ req' = [req EXCEPT ![r].pc = "persist", ![r].result = row.result]
       \/ /\ Evaluate(row) = "acquired"
          /\ req' = [req EXCEPT ![r].pc = "reclaim"]
       \/ /\ Evaluate(row) = "conflict"
          /\ req' = [req EXCEPT ![r] = Ended(@, "conflict")]
       \/ /\ Evaluate(row) = "requires_new_job"
          /\ req' = [req EXCEPT ![r] = Ended(@, "refused")]
    /\ UNCHANGED <<storeVars, patch>>

\* publishResult: undefined leaves the column as it was.
Reclaim(r) ==
    /\ req[r].pc = "reclaim"
    /\ attempt' = [attempt EXCEPT ![req[r].job].status = "in_flight",
                                  ![req[r].job].live = TRUE]
    /\ req' = [req EXCEPT ![r].pc = "held", ![r].how = "reclaim"]
    /\ UNCHANGED <<session, os, youtube, patch>>

-----------------------------------------------------------------------------
(* With the lock held.                                                      *)

\* Publishing disabled, no credential, account disconnected, token refresh
\* failed, or an adapter that says unavailable: nothing was sent.
FindUnavailable(r) ==
    /\ req[r].pc = "held"
    /\ req' = [req EXCEPT ![r].pc = "complete", ![r].result = Unavailable]
    /\ UNCHANGED <<storeVars, patch>>

\* Mutant: the async branch falls through to the synchronous adapter.
UploadSyncToo(r) ==
    LET v == youtube[req[r].job].videos + 1 IN
    /\ \/ req[r].pc = "held"
       \/ req[r].pc = "complete" /\ req[r].result = Uploading
    /\ youtube' = [youtube EXCEPT ![req[r].job].videos = v]
    /\ req' = [req EXCEPT ![r].pc = "complete", ![r].result = Published(v)]
    /\ UNCHANGED <<attempt, session, os, patch>>

\* The synchronous adapter: the video is made and reported, made although
\* the answer is lost or refused (reported failed), or not made.
UploadSync(r) ==
    LET j == req[r].job
        v == youtube[j].videos + 1
    IN
    /\ req[r].pc = "held" /\ j \notin AsyncJobs
    /\ \/ /\ youtube' = [youtube EXCEPT ![j].videos = v]
          /\ \E result \in {Published(v), Failed("upload_failed")} :
                req' = [req EXCEPT ![r].pc = "complete", ![r].result = result]
       \/ /\ req' = [req EXCEPT ![r].pc = "complete",
                                ![r].result = Failed("upload_failed")]
          /\ UNCHANGED youtube
    /\ UNCHANGED <<attempt, session, os, patch>>

\* initializeYouTubeResumableUpload and createYouTubeUploadSession; the
\* session is unique per attempt, so a second one is a constraint violation.
OpenSession(r) ==
    LET j == req[r].job IN
    /\ req[r].pc = "held" /\ j \in AsyncJobs
    /\ session[j].status = "none"
    /\ session' = [session EXCEPT ![j] = [NoSession EXCEPT !.status = "pending",
                                                           !.live = TRUE,
                                                           !.born = NextBorn]]
    /\ youtube' = [youtube EXCEPT ![j].received = 0, ![j].done = 0]
    /\ req' = [req EXCEPT ![r].pc = "complete", ![r].result = Uploading]
    /\ UNCHANGED <<attempt, os, patch>>

\* Mutant: the catch reports an upload under way.
OpenSessionFailsQuietly(r) ==
    /\ req[r].pc = "held" /\ req[r].job \in AsyncJobs
    /\ req' = [req EXCEPT ![r].pc = "complete", ![r].result = Uploading]
    /\ UNCHANGED <<storeVars, patch>>

OpenSessionFails(r) ==
    /\ req[r].pc = "held" /\ req[r].job \in AsyncJobs
    /\ req' = [req EXCEPT ![r].pc = "complete", ![r].result = Failed("init_failed")]
    /\ UNCHANGED <<storeVars, patch>>

\* completeCreativePublishAttempt.
CompleteAttempt(r) ==
    /\ req[r].pc = "complete"
    /\ attempt' = [attempt EXCEPT ![req[r].job] = Completed(req[r].result)]
    /\ req' = [req EXCEPT ![r].pc = "persist"]
    /\ UNCHANGED <<session, os, youtube, patch>>

\* persistPublishResultForActor with the blob read by LoadState.
PersistResult(r) ==
    /\ req[r].pc = "persist"
    /\ os' = WithResult(req[r].seen, req[r].job, req[r].result)
    /\ req' = [req EXCEPT ![r] = Ended(@, "done")]
    /\ UNCHANGED <<attempt, session, youtube, patch>>

\* The catch around the async branch: a database error in either write after
\* the session exists is reported as an upload that could not be initialized.
AsyncFault(r) ==
    /\ r \in CrashProne
    /\ req[r].pc \in {"complete", "persist"}
    /\ req[r].result = Uploading /\ req[r].how # "none"
    /\ req' = [req EXCEPT ![r].pc = "complete", ![r].result = Failed("init_failed")]
    /\ UNCHANGED <<storeVars, patch>>

CrashRequest(r) ==
    /\ r \in CrashProne
    /\ req[r].pc \in {"acquire", "reclaim", "held", "complete", "persist"}
    /\ req' = [req EXCEPT ![r] = Ended(@, "crashed")]
    /\ UNCHANGED <<storeVars, patch>>

-----------------------------------------------------------------------------
(* patchSocialAccountConnectionForActor: its own edit is not about projects *)
(* or jobs, but it writes them all back as it read them.                    *)

PatchRead(p) ==
    /\ patch[p].pc = "idle"
    /\ patch' = [patch EXCEPT ![p] = [pc |-> "put", seen |-> os]]
    /\ UNCHANGED <<storeVars, req>>

PatchPut(p) ==
    /\ patch[p].pc = "put"
    /\ os' = patch[p].seen
    /\ patch' = [patch EXCEPT ![p] = [pc |-> "done", seen |-> NewBlob]]
    /\ UNCHANGED <<attempt, session, youtube, req>>

-----------------------------------------------------------------------------
\* The lock's TTL passes.  Only an in_flight row is ever asked for it.
AttemptLapses(j) ==
    /\ attempt[j].status = "in_flight" /\ attempt[j].live
    /\ attempt' = [attempt EXCEPT ![j].live = FALSE]
    /\ UNCHANGED <<session, os, youtube, req, patch>>

RequestStep(r) ==
    \/ LoadState(r) \/ AcquireCreate(r) \/ AcquireExisting(r) \/ Reclaim(r)
    \/ FindUnavailable(r) \/ UploadSync(r) \/ OpenSession(r) \/ OpenSessionFails(r)
    \/ CompleteAttempt(r) \/ PersistResult(r)

RequestNext ==
    \/ \E r \in Requests : RequestStep(r) \/ AsyncFault(r) \/ CrashRequest(r)
    \/ \E p \in Patchers : PatchRead(p) \/ PatchPut(p)
    \/ \E j \in Jobs : AttemptLapses(j)
=============================================================================
