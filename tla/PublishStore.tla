---------------------------- MODULE PublishStore ----------------------------
(***************************************************************************)
(* The rows a creative publish leaves behind, and the pure decisions the   *)
(* publish code takes about them (src/agxora-v2/app/lib/creative).         *)
(*                                                                         *)
(* One organization; one creative project per job, and the job is the one  *)
(* bound to its project, approved, COMPLETED and with a stored primary     *)
(* asset (what authorizeCreativePublishFromState and the checks after it   *)
(* demand), so that rows are indexed by the job.  A publish outcome lives  *)
(* in three places that no transaction spans:                              *)
(*   the attempt row   (creative_publish_attempts, unique per job),        *)
(*   the session row   (creative_youtube_upload_sessions, unique per       *)
(*                      attempt),                                          *)
(*   the Agent OS blob (one JSON document for ALL jobs, read and written   *)
(*                      whole).                                            *)
(***************************************************************************)
EXTENDS Naturals, FiniteSets

CONSTANTS
    Jobs,        \* publish execution jobs of the organization
    AsyncJobs,   \* those whose asset is over the async upload threshold
    Size,        \* chunks in an async asset
    MaxChunks,   \* chunk budget of a worker run
    Limit        \* sessions a worker run takes

ASSUME StoreAssumption ==
    /\ Jobs # {} /\ IsFiniteSet(Jobs)
    /\ AsyncJobs \subseteq Jobs
    /\ Size \in Nat \ {0}
    /\ MaxChunks \in Nat \ {0}
    /\ Limit \in Nat \ {0}

-----------------------------------------------------------------------------
(* CreativePublishResult: ext is the number of the video on YouTube, 0 when *)
(* the field is absent.                                                     *)

FailReasons == {"init_failed", "upload_failed", "expired"}
Reasons == FailReasons \cup {"none", "published", "in_progress", "unavailable"}

Result == [status : {"none", "published", "failed", "uploading", "unavailable"},
           reason : Reasons,
           ext    : Nat]

NoResult     == [status |-> "none", reason |-> "none", ext |-> 0]
Published(v) == [status |-> "published", reason |-> "published", ext |-> v]
Failed(why)  == [status |-> "failed", reason |-> why, ext |-> 0]
Uploading    == [status |-> "uploading", reason |-> "in_progress", ext |-> 0]
Unavailable  == [status |-> "unavailable", reason |-> "unavailable", ext |-> 0]

-----------------------------------------------------------------------------
(* The attempt row.  live stands for expiresAt > now where expiresAt is     *)
(* looked at: an in_flight row, and an uploading one without a result (there *)
(* is none).  The row's externalId is its result's.                         *)

AttemptRow ==
    [status : {"none", "in_flight", "uploading", "succeeded", "failed",
               "unavailable"},
     result : Result,
     live   : BOOLEAN]

NoAttempt == [status |-> "none", result |-> NoResult, live |-> FALSE]

AttemptStatusOf(result) ==
    IF result.status = "published" THEN "succeeded"
    ELSE IF result.status \in {"uploading", "failed"} THEN result.status
    ELSE "unavailable"

\* What a request that finds an attempt row for its job is told.
Evaluate(row) ==
    CASE row.status \in {"succeeded", "uploading"} /\ row.result # NoResult -> "replay"
      [] row.status \in {"in_flight", "uploading"} /\ row.live              -> "conflict"
      [] row.status = "in_flight" /\ ~row.live                              -> "acquired"
      [] row.status = "unavailable"                                         -> "acquired"
      [] OTHER                                                              -> "requires_new_job"

\* completeCreativePublishAttempt: an update by id, whatever the row holds.
Completed(result) ==
    [status |-> AttemptStatusOf(result),
     result |-> result,
     live   |-> result.status = "uploading"]

-----------------------------------------------------------------------------
(* A project of the Agent OS blob with the job bound to it.                 *)

ProjectRow ==
    [result  : Result,
     status  : {"RUNNING", "VERIFYING", "COMPLETED", "FAILED"},
     message : Reasons \cup {"completed"}]

NewProject == [result |-> NoResult, status |-> "RUNNING", message |-> "none"]

Blob == [Jobs -> ProjectRow]
NewBlob == [j \in Jobs |-> NewProject]

\* Mutant: whatever is not a failure and not under way counts as done.
JobStatusLax(result, current) ==
    CASE result.status = "failed"    -> "FAILED"
      [] result.status = "uploading" -> "VERIFYING"
      [] OTHER                       -> "COMPLETED"

JobStatusOf(result, current) ==
    IF result.status = "published" THEN "COMPLETED"
    ELSE IF result.status = "failed" THEN "FAILED"
    ELSE IF result.status = "uploading" THEN "VERIFYING"
    ELSE current

\* Mutant: the status of the result where its reason belongs.
MessageIsStatus(result) ==
    IF result.status = "published" THEN "completed" ELSE result.status

MessageOf(result) ==
    IF result.status = "published" THEN "completed" ELSE result.reason

\* persistPublishResultForActor writes the WHOLE blob it was given.
WithResult(blob, j, result) ==
    [blob EXCEPT ![j] = [result  |-> result,
                         status  |-> JobStatusOf(result, @.status),
                         message |-> MessageOf(result)]]

-----------------------------------------------------------------------------
(* The upload session row.  live stands for expiresAt > now, lease for      *)
(* leaseExpiresAt, born for the order of createdAt.                         *)

SessionRow ==
    [status : {"none", "pending", "uploading", "completed", "failed", "expired"},
     offset : Nat,
     lease  : {"none", "held", "lapsed"},
     live   : BOOLEAN,
     reason : Reasons,
     ext    : Nat,
     born   : Nat]

NoSession == [status |-> "none", offset |-> 0, lease |-> "none", live |-> FALSE,
              reason |-> "none", ext |-> 0, born |-> 0]

Open(s) == s.status \in {"pending", "uploading"}

\* Mutant: expired sessions are not thought of.
DeadIfFailed(s) == s.status = "failed"

Dead(s) == s.status \in {"expired", "failed"}

Progressed(s, o) == [s EXCEPT !.offset = o, !.status = "uploading", !.lease = "none"]

-----------------------------------------------------------------------------
(* Which layers a terminal outcome still has to reach.                      *)

NeedsAttempt(row, result) ==
    CASE row.status = "none"   -> TRUE
      [] row.status = "failed" -> \/ row.result.status # "failed"
                                  \/ row.result.reason # result.reason
      [] OTHER                 -> row.status \in {"uploading", "in_flight"}

NeedsProject(p, result) ==
    \/ p.result.status \in {"none", "uploading"}
    \/ p.result.status = "failed" /\ p.result.reason # result.reason

NeedsJob(p, result) ==
    IF p.status \in {"COMPLETED", "FAILED"}
    THEN p.message # result.reason
    ELSE p.status \in {"VERIFYING", "RUNNING"}
=============================================================================
