---------------------------- MODULE UploadProofs ----------------------------
(***************************************************************************)
(* What the pipeline keeps of the uploads and of the lock, for any number  *)
(* of jobs, requests, worker runs, clients and chunks: one video per       *)
(* asynchronous job, a session behind every upload that is waited for and  *)
(* every video that is reported, and one video per taking of the lock for  *)
(* a synchronous job.                                                      *)
(***************************************************************************)
EXTENDS PublishProofs, FiniteSetTheorems

-----------------------------------------------------------------------------
(* The inductive invariant of the uploads.  ses is the session table: the   *)
(* copies an actor holds are spoken of before and after a write to it.      *)

\* A published result of an asynchronous job is named by its session.  The job has
\* one video at most, so its name is 1.
Named(ses, j, result) ==
    j \in AsyncJobs /\ result.status = "published" => ses[j].ext = 1

BlobNamed(ses, b) == \A j \in Jobs : Named(ses, j, b[j].result)

\* The upload URL of a job makes its only video, once there is a session.
ChannelSound(ses, j) ==
    /\ youtube[j].videos <= 1
    /\ youtube[j].done = 0 => youtube[j].videos = 0
    /\ ses[j].status = "none" => youtube[j].videos = 0

SessionSound(ses, j) ==
    /\ ses[j].status = "none" => ses[j].ext = 0
    /\ ses[j].status # "none" => j \in AsyncJobs

StoreSound ==
    /\ \A j \in Jobs : /\ Named(session, j, attempt[j].result)
                       /\ attempt[j].status = "uploading" => session[j].status # "none"
                       /\ SessionSound(session, j)
    /\ BlobNamed(session, os)
    /\ \A j \in AsyncJobs : ChannelSound(session, j)

\* A request says that an upload is under way after it opened the session.
ReqSound(ses, row) ==
    /\ BlobNamed(ses, row.seen)
    /\ Named(ses, row.job, row.result)
    /\ row.pc = "complete" /\ row.result.status = "uploading"
         => ses[row.job].status # "none"

\* Where a run works on a session, or is about to say what became of it.
SessionPcs == {"asset", "chunk", "put", "failSession", "confirm", "completeSession"}

RunTracks(ses, row) ==
    /\ \A j \in row.due : ses[j].status # "none"
    /\ \A s \in row.claimed : ses[s.job].status # "none"
    /\ row.pc \in SessionPcs => ses[row.job].status # "none"

RunNames(ses, row) ==
    /\ BlobNamed(ses, row.seen)
    /\ row.pc # "completeSession" => Named(ses, row.job, row.result)

RunSound(ses, row) == RunTracks(ses, row) /\ RunNames(ses, row)

Sound ==
    /\ StoreSound
    /\ \A r \in Requests : ReqSound(session, req[r])
    /\ \A p \in Patchers : BlobNamed(session, patch[p].seen)
    /\ \A a \in Actors : RunSound(session, run[a])

-----------------------------------------------------------------------------
(* The lock.                                                                *)

Lockers(j)  == {r \in Requests : req[r].job = j /\ req[r].how # "none"}
Creators(j) == {r \in Requests : req[r].job = j /\ req[r].how = "create"}
Holders(j)  == {r \in Requests : req[r].job = j /\ req[r].pc = "held"}

\* At work with the lock: what it reports may still overwrite the attempt.
AtWork(r) ==
    \/ req[r].pc \in {"held", "complete"}
    \/ req[r].pc = "persist" /\ req[r].how # "none" /\ req[r].result = Uploading

LockSound ==
    /\ \A r \in Requests :
         /\ req[r].pc \in {"idle", "acquire", "reclaim"} => req[r].how = "none"
         /\ req[r].pc \in {"held", "complete"} => req[r].how # "none"
         /\ req[r].how = "create" => attempt[req[r].job].status # "none"
    /\ \A r, q \in Requests :
         req[r].how = "create" /\ req[q].how = "create" /\ req[r].job = req[q].job => r = q

\* Every video of a synchronous job, and every request that may still make one,
\* took the lock.
VideosLocked ==
    \A j \in Jobs \ AsyncJobs :
        youtube[j].videos + Cardinality(Holders(j)) <= Cardinality(Lockers(j))

\* Unless the lock was reclaimed, nobody is at work once the attempt succeeded.
SuccessAtRest(j) ==
    attempt[j].status = "succeeded" /\ Reclaimers(j) = {}
        => \A r \in Requests : req[r].job = j => ~AtWork(r)

\* A run settles jobs that have a session.
AfterUpload == {"completeAttempt", "termState", "termAttempt", "terminate", "persist"}
OnUpload(row) ==
    /\ \A s \in row.listed : s.job \in AsyncJobs
    /\ row.pc \in AfterUpload => row.job \in AsyncJobs

RunsOnUploads == \A w \in Actors : OnUpload(run[w])

-----------------------------------------------------------------------------
(* Sessions are not taken away, and neither are the names they gave.        *)

SesGrows(s1, s2) ==
    \A j \in Jobs : /\ s1[j].status # "none" => s2[j].status # "none"
                    /\ s1[j].ext = 1 => s2[j].ext = 1

LEMMA SameSessions ==
    ASSUME UNCHANGED session
    PROVE  SesGrows(session, session')
BY DEF SesGrows

LEMMA CopiesStaySound ==
    ASSUME NEW s1, NEW s2, SesGrows(s1, s2)
    PROVE  /\ \A j \in Jobs : \A result : Named(s1, j, result) => Named(s2, j, result)
           /\ \A b : BlobNamed(s1, b) => BlobNamed(s2, b)
           /\ \A row \in ReqRow : ReqSound(s1, row) => ReqSound(s2, row)
           /\ \A row \in RunRow : RunSound(s1, row) => RunSound(s2, row)
<1>1. \A j \in Jobs : \A result : Named(s1, j, result) => Named(s2, j, result)
  BY DEF SesGrows, Named
<1>2. \A b : BlobNamed(s1, b) => BlobNamed(s2, b)
  BY <1>1 DEF BlobNamed
<1>3. \A row \in ReqRow : ReqSound(s1, row) => ReqSound(s2, row)
  <2>1. \A row \in ReqRow : row.job \in Jobs
    BY DEF ReqRow
  <2>2. QED
    BY <1>1, <1>2, <2>1 DEF ReqSound, SesGrows
<1>4. \A row \in RunRow : RunSound(s1, row) => RunSound(s2, row)
  <2> SUFFICES ASSUME NEW row \in RunRow, RunSound(s1, row) PROVE RunSound(s2, row)
    OBVIOUS
  <2>1. /\ row.job \in Jobs /\ row.due \subseteq Jobs
        /\ \A s \in row.claimed : s.job \in Jobs
    BY DEF RunRow, Claimed
  <2>2. RunTracks(s2, row)
    BY <2>1 DEF RunSound, RunTracks, SesGrows
  <2>3. RunNames(s2, row)
    BY <1>1, <1>2, <2>1 DEF RunSound, RunNames
  <2>4. QED
    BY <2>2, <2>3 DEF RunSound
<1>5. QED
  BY <1>1, <1>2, <1>3, <1>4

\* What a step of one actor leaves to prove.
LEMMA RequestSoundFrame ==
    ASSUME TypeOK, TypeOK', Sound, NEW r \in Requests,
           SesGrows(session, session'), UNCHANGED <<patch, run>>,
           \A q \in Requests \ {r} : req'[q] = req[q],
           StoreSound', ReqSound(session', req'[r])
    PROVE  Sound'
<1>1. \A q \in Requests : ReqSound(session', req'[q])
  BY CopiesStaySound DEF TypeOK, Sound
<1>2. \A p \in Patchers : BlobNamed(session', patch'[p].seen)
  BY CopiesStaySound DEF Sound
<1>3. \A a \in Actors : RunSound(session', run'[a])
  BY CopiesStaySound DEF TypeOK, Sound
<1>4. QED
  BY <1>1, <1>2, <1>3 DEF Sound

LEMMA RunSoundFrame ==
    ASSUME TypeOK, TypeOK', Sound, NEW w \in Actors,
           SesGrows(session, session'), UNCHANGED <<req, patch>>,
           \A a \in Actors \ {w} : run'[a] = run[a],
           StoreSound', RunSound(session', run'[w])
    PROVE  Sound'
<1>1. \A q \in Requests : ReqSound(session', req'[q])
  BY CopiesStaySound DEF TypeOK, Sound
<1>2. \A p \in Patchers : BlobNamed(session', patch'[p].seen)
  BY CopiesStaySound DEF Sound
<1>3. \A a \in Actors : RunSound(session', run'[a])
  BY CopiesStaySound DEF TypeOK, Sound
<1>4. QED
  BY <1>1, <1>2, <1>3 DEF Sound

\* The rows a step leaves alone.
LEMMA StoreStaysSound ==
    ASSUME StoreSound, UNCHANGED storeVars
    PROVE  StoreSound'
BY DEF StoreSound, storeVars, SessionSound, ChannelSound

LEMMA AttemptStaysSound ==
    ASSUME StoreSound, NEW j \in Jobs, UNCHANGED <<session, os, youtube>>,
           \A k \in Jobs \ {j} : attempt'[k] = attempt[k],
           Named(session, j, attempt'[j].result),
           attempt'[j].status = "uploading" => session[j].status # "none"
    PROVE  StoreSound'
BY DEF StoreSound, SessionSound, ChannelSound

LEMMA BlobStaysSound ==
    ASSUME StoreSound, UNCHANGED <<attempt, session, youtube>>, BlobNamed(session, os')
    PROVE  StoreSound'
BY DEF StoreSound, SessionSound, ChannelSound

LEMMA SessionStaysSound ==
    ASSUME TypeOK, StoreSound, UNCHANGED <<attempt, os, youtube>>,
           SesGrows(session, session'), \A j \in Jobs : SessionSound(session', j)
    PROVE  StoreSound'
<1>1. \A j \in Jobs : /\ Named(session', j, attempt[j].result)
                      /\ attempt[j].status = "uploading" => session'[j].status # "none"
  BY CopiesStaySound DEF StoreSound, SesGrows
<1>2. BlobNamed(session', os)
  BY CopiesStaySound DEF StoreSound
<1>3. \A j \in AsyncJobs : ChannelSound(session', j)
  BY StoreAssumption DEF StoreSound, ChannelSound, SesGrows
<1>4. QED
  BY <1>1, <1>2, <1>3 DEF StoreSound, ChannelSound

LEMMA NothingNamed ==
    /\ \A ses, j : Named(ses, j, NoResult) /\ Named(ses, j, Uploading)
                 /\ Named(ses, j, Unavailable)
    /\ \A ses, j, why : Named(ses, j, Failed(why))
    /\ \A ses : BlobNamed(ses, NewBlob)
BY DEF Named, BlobNamed, NoResult, Uploading, Unavailable, Failed, NewBlob, NewProject

LEMMA WithResultNamed ==
    ASSUME NEW ses, NEW b \in Blob, NEW j \in Jobs, NEW result \in Result,
           BlobNamed(ses, b), Named(ses, j, result)
    PROVE  BlobNamed(ses, WithResult(b, j, result))
<1>1. \A k \in Jobs : WithResult(b, j, result)[k].result = IF k = j THEN result ELSE b[k].result
  BY DEF WithResult, Blob
<1>2. QED
  BY <1>1 DEF BlobNamed

LEMMA SoundInit == Init => Sound
<1> SUFFICES ASSUME Init PROVE Sound
  OBVIOUS
<1>1. StoreSound
  BY NothingNamed, StoreAssumption
     DEF Init, RequestInit, StoreSound, NoAttempt, NoSession, NewChannel, SessionSound,
         ChannelSound
<1>2. \A r \in Requests : ReqSound(session, req[r])
  BY NothingNamed DEF Init, RequestInit, ReqSound
<1>3. \A p \in Patchers : BlobNamed(session, patch[p].seen)
  BY NothingNamed DEF Init, RequestInit
<1>4. \A a \in Actors : RunSound(session, run[a])
  BY NothingNamed DEF Init, IdleRun, RunSound, RunTracks, RunNames, SessionPcs
<1>5. QED
  BY <1>1, <1>2, <1>3, <1>4 DEF Sound

-----------------------------------------------------------------------------
(* Requests, blob writers and time keep the uploads sound.                  *)

\* What a request is told of an attempt row that is there.
LEMMA ExistingCases ==
    ASSUME NEW r \in Requests, req \in [Requests -> ReqRow], AcquireExisting(r)
    PROVE  /\ req'[r].pc \in {"persist", "reclaim", "conflict", "refused"}
           /\ req'[r].seen \in {req[r].seen, NewBlob}
           /\ req'[r].result \in {req[r].result, attempt[req[r].job].result}
           /\ req'[r].job = req[r].job
           /\ \A q \in Requests \ {r} : req'[q] = req[q]
<1>1. \/ req' = [req EXCEPT ![r].pc = "persist", ![r].result = attempt[req[r].job].result]
      \/ req' = [req EXCEPT ![r].pc = "reclaim"]
      \/ req' = [req EXCEPT ![r] = Ended(@, "conflict")]
      \/ req' = [req EXCEPT ![r] = Ended(@, "refused")]
  BY DEF AcquireExisting
<1>2. CASE req' = [req EXCEPT ![r].pc = "persist", ![r].result = attempt[req[r].job].result]
  BY <1>2 DEF ReqRow
<1>3. CASE req' = [req EXCEPT ![r].pc = "reclaim"]
  BY <1>3 DEF ReqRow
<1>4. CASE req' = [req EXCEPT ![r] = Ended(@, "conflict")]
  BY <1>4 DEF ReqRow, Ended
<1>5. CASE req' = [req EXCEPT ![r] = Ended(@, "refused")]
  BY <1>5 DEF ReqRow, Ended
<1>6. QED
  BY <1>1, <1>2, <1>3, <1>4, <1>5

\* A request keeps its job, and the others theirs.
LEMMA RequestJobs ==
    ASSUME TypeOK, NEW r \in Requests, RequestStep(r) \/ AsyncFault(r) \/ CrashRequest(r)
    PROVE  /\ \A q \in Requests \ {r} : req'[q] = req[q]
           /\ req'[r].job = req[r].job
           /\ patch' = patch
<1>1. req \in [Requests -> ReqRow] /\ req[r] \in ReqRow
  BY DEF TypeOK
<1>2. CASE LoadState(r)
  BY <1>1, <1>2 DEF LoadState, ReqRow
<1>3. CASE AcquireCreate(r) \/ Reclaim(r)
  BY <1>1, <1>3 DEF AcquireCreate, Reclaim, ReqRow
<1>4. CASE AcquireExisting(r)
  BY <1>1, <1>4, ExistingCases DEF AcquireExisting
<1>5. CASE FindUnavailable(r) \/ UploadSync(r) \/ OpenSession(r) \/ OpenSessionFails(r)
  BY <1>1, <1>5 DEF FindUnavailable, UploadSync, OpenSession, OpenSessionFails, ReqRow
<1>6. CASE CompleteAttempt(r) \/ PersistResult(r) \/ AsyncFault(r) \/ CrashRequest(r)
  BY <1>1, <1>6, ZenonT(60) DEF CompleteAttempt, PersistResult, AsyncFault, CrashRequest, ReqRow, Ended
<1>7. QED
  BY <1>2, <1>3, <1>4, <1>5, <1>6 DEF RequestStep

LEMMA RequestKeepsSound ==
    ASSUME TypeOK, TypeOK', Sound, NEW r \in Requests,
           RequestStep(r) \/ AsyncFault(r) \/ CrashRequest(r), UNCHANGED run
    PROVE  Sound'
<1> DEFINE j == req[r].job
<1>1. /\ req \in [Requests -> ReqRow] /\ req[r] \in ReqRow /\ j \in Jobs
      /\ req[r].seen \in Blob /\ req[r].result \in Result
      /\ attempt \in [Jobs -> AttemptRow] /\ session \in [Jobs -> SessionRow]
      /\ youtube \in [Jobs -> Channel]
  BY DEF TypeOK, ReqRow
<1>2. StoreSound /\ ReqSound(session, req[r])
  BY DEF Sound
<1>3. /\ \A q \in Requests \ {r} : req'[q] = req[q]
      /\ req'[r].job = j /\ patch' = patch
  BY RequestJobs
<1>4. CASE LoadState(r)
  <2>1. UNCHANGED storeVars
    BY <1>4 DEF LoadState
  <2>2. ReqSound(session, req'[r])
    <3>1. /\ req'[r].pc \in {"done", "acquire"} /\ req'[r].job = j
          /\ req'[r].seen \in {req[r].seen, os}
          /\ req'[r].result \in {req[r].result, os[j].result}
      BY <1>1, <1>4 DEF LoadState, ReqRow
    <3>2. Named(session, j, os[j].result) /\ BlobNamed(session, os)
      BY <1>1, <1>2 DEF StoreSound, BlobNamed
    <3>3. QED
      BY <1>2, <3>1, <3>2 DEF ReqSound
  <2>3. QED
    BY <1>2, <1>3, <2>1, <2>2, StoreStaysSound, SameSessions, RequestSoundFrame DEF storeVars
<1>5. CASE AcquireCreate(r) \/ Reclaim(r)
  <2>1. UNCHANGED <<session, os, youtube>>
    BY <1>5 DEF AcquireCreate, Reclaim
  <2>2. /\ req'[r].pc = "held" /\ req'[r].seen = req[r].seen
        /\ req'[r].result = req[r].result
    BY <1>1, <1>5 DEF AcquireCreate, Reclaim, ReqRow
  <2>3. ReqSound(session, req'[r])
    BY <1>2, <1>3, <2>2 DEF ReqSound
  <2>4. /\ attempt'[j].result \in {NoResult, attempt[j].result}
        /\ attempt'[j].status = "in_flight"
        /\ \A k \in Jobs \ {j} : attempt'[k] = attempt[k]
    BY <1>1, <1>5 DEF AcquireCreate, Reclaim, AttemptRow
  <2>5. Named(session, j, attempt'[j].result)
    BY <1>1, <1>2, <2>4, NothingNamed DEF StoreSound
  <2>6. StoreSound'
    BY <1>1, <1>2, <2>1, <2>4, <2>5, AttemptStaysSound
  <2>7. QED
    BY <1>3, <2>1, <2>3, <2>6, SameSessions, RequestSoundFrame
<1>6. CASE AcquireExisting(r)
  <2>1. UNCHANGED storeVars
    BY <1>6 DEF AcquireExisting
  <2>2. ReqSound(session, req'[r])
    <3>1. /\ req'[r].pc \in {"persist", "reclaim", "conflict", "refused"}
          /\ req'[r].seen \in {req[r].seen, NewBlob}
          /\ req'[r].result \in {req[r].result, attempt[j].result}
      BY <1>1, <1>6, ExistingCases
    <3>2. Named(session, j, attempt[j].result)
      BY <1>1, <1>2 DEF StoreSound
    <3>3. QED
      BY <1>2, <1>3, <3>1, <3>2, NothingNamed DEF ReqSound
  <2>3. QED
    BY <1>2, <1>3, <2>1, <2>2, StoreStaysSound, SameSessions, RequestSoundFrame DEF storeVars
<1>7. CASE FindUnavailable(r) \/ OpenSessionFails(r) \/ AsyncFault(r)
  <2>1. UNCHANGED storeVars
    BY <1>7 DEF FindUnavailable, OpenSessionFails, AsyncFault
  <2>2. /\ req'[r].result \in {Unavailable, Failed("init_failed")}
        /\ req'[r].seen = req[r].seen
    BY <1>1, <1>7 DEF FindUnavailable, OpenSessionFails, AsyncFault, ReqRow
  <2>3. req'[r].result.status # "uploading"
    BY <2>2 DEF Unavailable, Failed
  <2>4. ReqSound(session, req'[r])
    BY <1>2, <1>3, <2>2, <2>3, NothingNamed DEF ReqSound
  <2>5. QED
    BY <1>2, <1>3, <2>1, <2>4, StoreStaysSound, SameSessions, RequestSoundFrame DEF storeVars
<1>8. CASE UploadSync(r)
  <2>1. UNCHANGED <<attempt, session, os>> /\ j \notin AsyncJobs
    BY <1>8 DEF UploadSync
  <2>2. PICK v \in Nat : req'[r].result \in {Published(v), Failed("upload_failed")}
    <3>1. youtube[j].videos + 1 \in Nat
      BY <1>1 DEF Channel
    <3>2. \/ \E result \in {Published(youtube[j].videos + 1), Failed("upload_failed")} :
               req' = [req EXCEPT ![r].pc = "complete", ![r].result = result]
          \/ req' = [req EXCEPT ![r].pc = "complete", ![r].result = Failed("upload_failed")]
      BY <1>8 DEF UploadSync
    <3>3. req'[r].result \in {Published(youtube[j].videos + 1), Failed("upload_failed")}
      BY <1>1, <3>2 DEF ReqRow
    <3>4. QED
      BY <3>1, <3>3
  <2>3. req'[r].seen = req[r].seen
    BY <1>1, <1>8 DEF UploadSync, ReqRow
  <2>4. ReqSound(session, req'[r])
    <3>1. req'[r].result.status # "uploading"
      BY <2>2 DEF Published, Failed
    <3>2. QED
      BY <1>2, <1>3, <2>1, <2>3, <3>1 DEF ReqSound, Named
  <2>5. \A k \in AsyncJobs : youtube'[k] = youtube[k]
    BY <1>1, <1>8, <2>1, StoreAssumption DEF UploadSync
  <2>6. StoreSound'
    BY <1>2, <2>1, <2>5 DEF StoreSound, SessionSound, ChannelSound
  <2>7. QED
    BY <1>3, <2>1, <2>4, <2>6, SameSessions, RequestSoundFrame
<1>9. CASE OpenSession(r)
  <2>1. /\ UNCHANGED <<attempt, os>> /\ j \in AsyncJobs /\ session[j].status = "none"
        /\ \A k \in Jobs \ {j} : session'[k] = session[k] /\ youtube'[k] = youtube[k]
        /\ session'[j].status = "pending"
    BY <1>1, <1>9 DEF OpenSession, NoSession
  <2>2. youtube'[j].videos = youtube[j].videos /\ youtube'[j].done = 0
    BY <1>1, <1>9 DEF OpenSession, Channel
  <2>3. SesGrows(session, session')
    BY <1>1, <1>2, <2>1 DEF SesGrows, StoreSound, SessionSound
  <2>4. \A k \in Jobs : /\ Named(session', k, attempt[k].result)
                        /\ attempt[k].status = "uploading" => session'[k].status # "none"
                        /\ SessionSound(session', k)
    BY <1>2, <2>1, <2>3, CopiesStaySound DEF StoreSound, SessionSound
  <2>5. BlobNamed(session', os)
    BY <1>2, <2>3, CopiesStaySound DEF StoreSound
  <2>6. \A k \in AsyncJobs : ChannelSound(session, k)'
    BY <1>2, <2>1, <2>2, StoreAssumption DEF StoreSound, ChannelSound
  <2>7. StoreSound'
    BY <2>1, <2>4, <2>5, <2>6 DEF StoreSound
  <2>8. /\ req'[r].result = Uploading /\ req'[r].seen = req[r].seen
    BY <1>1, <1>9 DEF OpenSession, ReqRow
  <2>9. ReqSound(session', req'[r])
    BY <1>2, <1>3, <2>1, <2>3, <2>8, CopiesStaySound, NothingNamed DEF ReqSound
  <2>10. QED
    BY <1>3, <2>3, <2>7, <2>9, RequestSoundFrame
<1>10. CASE CompleteAttempt(r)
  <2>1. /\ UNCHANGED <<session, os, youtube>> /\ req[r].pc = "complete"
        /\ attempt'[j] = Completed(req[r].result)
        /\ \A k \in Jobs \ {j} : attempt'[k] = attempt[k]
    BY <1>1, <1>10 DEF CompleteAttempt
  <2>2. /\ req'[r].pc = "persist" /\ req'[r].seen = req[r].seen
        /\ req'[r].result = req[r].result
    BY <1>1, <1>10 DEF CompleteAttempt, ReqRow
  <2>3. /\ attempt'[j].result = req[r].result
        /\ attempt'[j].status = "uploading" => req[r].result.status = "uploading"
    BY <1>1, <2>1 DEF Completed, AttemptStatusOf
  <2>4. StoreSound'
    BY <1>1, <1>2, <2>1, <2>3, AttemptStaysSound DEF ReqSound
  <2>5. ReqSound(session, req'[r])
    BY <1>2, <1>3, <2>2 DEF ReqSound
  <2>6. QED
    BY <1>3, <2>1, <2>4, <2>5, SameSessions, RequestSoundFrame
<1>11. CASE PersistResult(r)
  <2>1. UNCHANGED <<attempt, session, youtube>> /\ os' = WithResult(req[r].seen, j, req[r].result)
    BY <1>11 DEF PersistResult
  <2>2. BlobNamed(session, os')
    BY <1>1, <1>2, <2>1, WithResultNamed DEF ReqSound
  <2>3. StoreSound'
    BY <1>2, <2>1, <2>2, BlobStaysSound
  <2>4. /\ req'[r].pc = "done" /\ req'[r].seen = NewBlob /\ req'[r].result = req[r].result
    BY <1>1, <1>11 DEF PersistResult, ReqRow, Ended
  <2>5. ReqSound(session, req'[r])
    BY <1>2, <1>3, <2>4, NothingNamed DEF ReqSound
  <2>6. QED
    BY <1>3, <2>1, <2>3, <2>5, SameSessions, RequestSoundFrame
<1>12. CASE CrashRequest(r)
  <2>1. UNCHANGED storeVars
    BY <1>12 DEF CrashRequest
  <2>2. /\ req'[r].pc = "crashed" /\ req'[r].seen = NewBlob /\ req'[r].result = req[r].result
    BY <1>1, <1>12 DEF CrashRequest, ReqRow, Ended
  <2>3. ReqSound(session, req'[r])
    BY <1>2, <1>3, <2>2, NothingNamed DEF ReqSound
  <2>4. QED
    BY <1>2, <1>3, <2>1, <2>3, StoreStaysSound, SameSessions, RequestSoundFrame DEF storeVars
<1>13. QED
  BY <1>4, <1>5, <1>6, <1>7, <1>8, <1>9, <1>10, <1>11, <1>12 DEF RequestStep

LEMMA PatchKeepsSound ==
    ASSUME TypeOK, TypeOK', Sound, NEW p \in Patchers,
           PatchRead(p) \/ PatchPut(p), UNCHANGED run
    PROVE  Sound'
<1>1. /\ patch \in [Patchers -> PatchRow]
      /\ StoreSound /\ \A q \in Patchers : BlobNamed(session, patch[q].seen)
  BY DEF TypeOK, Sound
<1>2. UNCHANGED <<attempt, session, youtube, req>>
  BY DEF PatchRead, PatchPut, storeVars
<1>3. BlobNamed(session, os')
  BY <1>1 DEF PatchRead, PatchPut, storeVars, StoreSound
<1>4. patch'[p].seen \in {os, NewBlob} /\ \A q \in Patchers \ {p} : patch'[q] = patch[q]
  BY <1>1 DEF PatchRead, PatchPut
<1>5. \A q \in Patchers : BlobNamed(session, patch'[q].seen)
  BY <1>1, <1>4, NothingNamed DEF StoreSound
<1>6. StoreSound'
  BY <1>1, <1>2, <1>3, BlobStaysSound
<1>7. QED
  BY <1>2, <1>5, <1>6 DEF Sound

LEMMA TimeKeepsSound ==
    ASSUME TypeOK, TypeOK', Sound, NEW j \in Jobs,
           \/ AttemptLapses(j) /\ UNCHANGED run
           \/ LeaseLapses(j) \/ SessionLapses(j)
    PROVE  Sound'
<1>1. attempt \in [Jobs -> AttemptRow] /\ session \in [Jobs -> SessionRow] /\ StoreSound
  BY DEF TypeOK, Sound
<1>2. UNCHANGED <<os, youtube, req, patch, run>>
  BY DEF AttemptLapses, LeaseLapses, SessionLapses, UnchangedByWorker
<1>3. CASE AttemptLapses(j)
  <2>1. /\ attempt'[j].status = attempt[j].status /\ attempt'[j].result = attempt[j].result
        /\ \A k \in Jobs \ {j} : attempt'[k] = attempt[k]
        /\ UNCHANGED <<session, os, youtube>>
    BY <1>1, <1>3 DEF AttemptLapses, AttemptRow
  <2>2. StoreSound'
    BY <1>1, <2>1, AttemptStaysSound DEF StoreSound
  <2>3. QED
    BY <1>2, <2>1, <2>2 DEF Sound
<1>4. CASE LeaseLapses(j) \/ SessionLapses(j)
  <2>1. /\ session'[j].status = session[j].status /\ session'[j].ext = session[j].ext
        /\ \A k \in Jobs \ {j} : session'[k] = session[k]
        /\ attempt' = attempt
    BY <1>1, <1>4 DEF LeaseLapses, SessionLapses, SessionRow
  <2>2. SesGrows(session, session') /\ \A k \in Jobs : SessionSound(session', k)
    BY <1>1, <2>1 DEF SesGrows, StoreSound, SessionSound
  <2>3. StoreSound'
    BY <1>1, <1>2, <2>1, <2>2, SessionStaysSound
  <2>4. QED
    BY <1>2, <2>2, <2>3, CopiesStaySound DEF Sound, TypeOK
<1>5. QED
  BY <1>3, <1>4

-----------------------------------------------------------------------------
(* Runs of the worker and status reads keep the uploads sound.              *)

\* A session that is there is written, and stays named.
LEMMA SessionWriteSound ==
    ASSUME TypeOK, StoreSound, NEW j \in Jobs, UNCHANGED <<attempt, os, youtube>>,
           \A k \in Jobs \ {j} : session'[k] = session[k],
           session[j].status # "none", session'[j].status # "none",
           session[j].ext = 1 => session'[j].ext = 1
    PROVE  SesGrows(session, session') /\ StoreSound'
<1>1. SesGrows(session, session')
  BY DEF SesGrows
<1>2. \A k \in Jobs : SessionSound(session', k)
  BY DEF StoreSound, SessionSound
<1>3. QED
  BY <1>1, <1>2, SessionStaysSound

LEMMA SessionUpdatesSound ==
    ASSUME NEW s \in SessionRow
    PROVE  /\ \A o : Progressed(s, o).status = "uploading" /\ Progressed(s, o).ext = s.ext
           /\ \A result : /\ SessionFailed(s, result).status = "failed"
                          /\ SessionFailed(s, result).ext = s.ext
           /\ \A v : SessionDone(s, v).status = "completed" /\ SessionDone(s, v).ext = v
BY DEF SessionRow, Progressed, SessionFailed, SessionDone

\* A run takes no session that it did not have.
LEMMA MovedSound ==
    ASSUME NEW ses, NEW row, NEW new, RunSound(ses, row),
           new.due \subseteq row.due, new.claimed \subseteq row.claimed,
           new.pc \in SessionPcs => row.pc \in SessionPcs /\ new.job = row.job,
           BlobNamed(ses, new.seen),
           new.pc # "completeSession" => Named(ses, new.job, new.result)
    PROVE  RunSound(ses, new)
BY DEF RunSound, RunTracks, RunNames

\* It moves on with what it has.
LEMMA StepSound ==
    ASSUME NEW ses, NEW row, NEW new, RunSound(ses, row),
           new.due = row.due, new.claimed = row.claimed,
           new.job = row.job, new.result = row.result,
           new.pc \in SessionPcs => row.pc \in SessionPcs,
           row.pc # "completeSession", BlobNamed(ses, new.seen)
    PROVE  RunSound(ses, new)
BY DEF RunSound, RunTracks, RunNames

LEMMA ResumedSound ==
    ASSUME NEW ses, NEW row \in RunRow, RunSound(ses, row)
    PROVE  RunSound(ses, Resumed(row)) /\ RunSound(ses, IdleRun)
<1>1. /\ IdleRun.due = {} /\ IdleRun.claimed = {} /\ IdleRun.pc = "idle"
      /\ IdleRun.seen = NewBlob /\ IdleRun.result = NoResult
  BY DEF IdleRun
<1>2. /\ Resumed(row).due = {} /\ Resumed(row).claimed = row.claimed
      /\ Resumed(row).pc = row.back /\ Resumed(row).seen = NewBlob
      /\ Resumed(row).result = NoResult
  BY DEF Resumed, IdleRun
<1>3. row.back \in {"idle", "reconcile", "claim"}
  BY DEF RunRow
<1>4. "idle" \notin SessionPcs /\ Resumed(row).pc \notin SessionPcs
  BY <1>2, <1>3 DEF SessionPcs
<1>5. RunSound(ses, IdleRun)
  BY <1>1, <1>4, NothingNamed DEF RunSound, RunTracks, RunNames
<1>6. RunSound(ses, Resumed(row))
  BY <1>2, <1>4, NothingNamed DEF RunSound, RunTracks, RunNames
<1>7. QED
  BY <1>5, <1>6

LEMMA LeaveFields ==
    ASSUME NEW row \in RunRow, NEW pc, NEW result
    PROVE  LET new == Leave(row, pc, result) IN
           /\ new.seen = row.seen /\ new.job = row.job /\ new.due = row.due
           /\ new.claimed = row.claimed /\ new.pc = pc /\ new.result = result
BY DEF Leave, RunRow

\* It leaves the upload with a result that names no video, or is about to
\* write the name into the session.
LEMMA LeaveSound ==
    ASSUME NEW ses, NEW row \in RunRow, RunSound(ses, row), NEW pc, NEW result,
           pc \in SessionPcs => row.pc \in SessionPcs,
           pc = "completeSession" \/ result.status = "failed"
    PROVE  RunSound(ses, Leave(row, pc, result))
<1>1. Named(ses, row.job, result) \/ pc = "completeSession"
  BY DEF Named
<1>2. QED
  BY <1>1, LeaveFields, MovedSound DEF RunSound, RunNames

LEMMA RunKeepsSound ==
    ASSUME TypeOK, TypeOK', Honest, Sound, NEW w \in Actors,
           WorkerStep(w) \/ PollerStep(w) \/ CrashRun(w)
    PROVE  Sound'
<1>1. /\ run[w] \in RunRow /\ run[w].job \in Jobs /\ run[w].seen \in Blob
      /\ run[w].result \in Result /\ session[run[w].job] \in SessionRow
      /\ run[w].due \subseteq Jobs /\ \A s \in run[w].claimed : s.job \in Jobs
  BY DEF TypeOK, RunRow, Claimed
<1>2. /\ StoreSound /\ RunSound(session, run[w]) /\ RunHonest(youtube, run[w])
      /\ BlobNamed(session, os) /\ BlobNamed(session, run[w].seen)
  BY DEF Sound, StoreSound, RunSound, RunNames, Honest
<1>3. /\ run \in [Actors -> RunRow] /\ attempt \in [Jobs -> AttemptRow]
      /\ session \in [Jobs -> SessionRow] /\ os \in Blob
      /\ youtube \in [Jobs -> Channel] /\ youtube' \in [Jobs -> Channel]
  BY DEF TypeOK
<1>sp. {"asset", "chunk", "put", "failSession", "confirm", "completeSession"} = SessionPcs
  BY DEF SessionPcs
<1>t. run'[w] \in RunRow
  BY DEF TypeOK
<1>tr. run[w].pc \in SessionPcs => session[run[w].job].status # "none"
  BY <1>2 DEF RunSound, RunTracks
<1>4. CASE ExpireStale(w)
  <2>1. \A a \in Actors \ {w} : run'[a] = run[a]
    BY <1>3, <1>4 DEF ExpireStale
  <2>2. UNCHANGED <<attempt, os, youtube, req, patch>>
    BY <1>4 DEF ExpireStale, UnchangedByWorker
  <2>3. SesGrows(session, session') /\ StoreSound'
    <3>1. \A j \in Jobs : /\ session'[j].ext = session[j].ext
                          /\ session'[j].status = "none" <=> session[j].status = "none"
      BY <1>3, <1>4 DEF ExpireStale, SessionRow, Open
    <3>2. SesGrows(session, session') /\ \A j \in Jobs : SessionSound(session', j)
      BY <1>2, <3>1 DEF SesGrows, StoreSound, SessionSound
    <3>3. QED
      BY <1>2, <2>2, <3>2, SessionStaysSound
  <2>4. RunSound(session, run'[w])
    <3>1. /\ run'[w].due = run[w].due /\ run'[w].claimed = run[w].claimed
          /\ run'[w].job = run[w].job /\ run'[w].result = run[w].result
          /\ run'[w].pc = "list" /\ run'[w].seen = run[w].seen
          /\ run[w].pc = "idle"
      BY <1>1, <1>3, <1>4 DEF ExpireStale, RunRow
    <3>2. QED
      BY <1>2, <3>1, StepSound DEF SessionPcs
  <2>5. RunSound(session', run'[w])
    BY <2>3, <2>4, <1>t, CopiesStaySound
  <2>9. QED
    BY <2>1, <2>2, <2>3, <2>5, RunSoundFrame
<1>5. CASE ListDead(w)
  <2>1. \A a \in Actors \ {w} : run'[a] = run[a]
    BY <1>3, <1>5 DEF ListDead
  <2>2. UNCHANGED storeVars /\ UNCHANGED <<req, patch>>
    BY <1>5 DEF ListDead, storeVars, UnchangedByWorker
  <2>3. SesGrows(session, session') /\ StoreSound'
    BY <1>2, <2>2, SameSessions, StoreStaysSound DEF storeVars
  <2>4. RunSound(session, run'[w])
    <3>1. /\ run'[w].due = run[w].due /\ run'[w].claimed = run[w].claimed
          /\ run'[w].job = run[w].job /\ run'[w].result = run[w].result
          /\ run'[w].pc = "reconcile" /\ run'[w].seen = run[w].seen
          /\ run[w].pc = "list"
      BY <1>1, <1>3, <1>5 DEF ListDead, RunRow
    <3>2. QED
      BY <1>2, <3>1, StepSound DEF SessionPcs
  <2>5. RunSound(session', run'[w])
    BY <2>3, <2>4, <1>t, CopiesStaySound
  <2>9. QED
    BY <2>1, <2>2, <2>3, <2>5, RunSoundFrame DEF storeVars
<1>6. CASE NextDead(w)
  <2>1. \A a \in Actors \ {w} : run'[a] = run[a]
    BY <1>3, <1>6 DEF NextDead
  <2>2. UNCHANGED storeVars /\ UNCHANGED <<req, patch>>
    BY <1>6 DEF NextDead, storeVars, UnchangedByWorker
  <2>3. SesGrows(session, session') /\ StoreSound'
    BY <1>2, <2>2, SameSessions, StoreStaysSound DEF storeVars
  <2>4. RunSound(session, run'[w])
    <3>1. PICK s \in run[w].listed : run'[w] =
               [run[w] EXCEPT !.pc = "termAttempt", !.listed = run[w].listed \ {s},
                              !.job = s.job, !.seen = os, !.result = Failed(s.reason)]
      BY <1>3, <1>6 DEF NextDead
    <3>2. /\ run'[w].pc = "termAttempt" /\ run'[w].seen = os /\ run'[w].job = s.job
          /\ run'[w].result = Failed(s.reason)
          /\ run'[w].due = run[w].due /\ run'[w].claimed = run[w].claimed
      BY <1>1, <3>1 DEF RunRow
    <3>3. "termAttempt" \notin SessionPcs
      BY DEF SessionPcs
    <3>4. QED
      BY <1>2, <3>2, <3>3, NothingNamed, MovedSound
  <2>5. RunSound(session', run'[w])
    BY <2>3, <2>4, <1>t, CopiesStaySound
  <2>9. QED
    BY <2>1, <2>2, <2>3, <2>5, RunSoundFrame DEF storeVars
<1>7. CASE FindDue(w)
  <2>1. \A a \in Actors \ {w} : run'[a] = run[a]
    BY <1>3, <1>7 DEF FindDue
  <2>2. UNCHANGED storeVars /\ UNCHANGED <<req, patch>>
    BY <1>7 DEF FindDue, storeVars, UnchangedByWorker
  <2>3. SesGrows(session, session') /\ StoreSound'
    BY <1>2, <2>2, SameSessions, StoreStaysSound DEF storeVars
  <2>4. RunSound(session, run'[w])
    <3>1. /\ run'[w].seen = run[w].seen /\ run'[w].claimed = run[w].claimed
          /\ run'[w].job = run[w].job /\ run'[w].result = run[w].result
          /\ run'[w].pc = "claim" /\ run[w].pc = "reconcile"
      BY <1>1, <1>3, <1>7 DEF FindDue, RunRow
    <3>2. run'[w].due =
             {j \in Oldest({k \in Jobs : /\ Open(session[k]) /\ session[k].live
                                         /\ session[k].lease # "held"}, 3 * Limit) :
                 session[j].offset < Size}
      BY <1>1, <1>3, <1>7 DEF FindDue, RunRow
    <3>3. \A j \in run'[w].due : session[j].status # "none"
      BY <3>2 DEF Oldest, Open
    <3>4. QED
      BY <1>2, <3>1, <3>3 DEF RunSound, RunTracks, RunNames, SessionPcs
  <2>5. RunSound(session', run'[w])
    BY <2>3, <2>4, <1>t, CopiesStaySound
  <2>9. QED
    BY <2>1, <2>2, <2>3, <2>5, RunSoundFrame DEF storeVars
<1>8. CASE ClaimDue(w)
  <2>1. \A a \in Actors \ {w} : run'[a] = run[a]
    BY <1>3, <1>8 DEF ClaimDue
  <2>2. UNCHANGED <<attempt, os, youtube, req, patch>> /\ run[w].pc = "claim"
    BY <1>8 DEF ClaimDue, UnchangedByWorker
  <2> PICK j \in run[w].due :
         \/ /\ session' = [session EXCEPT ![j].status = "uploading", ![j].lease = "held"]
            /\ run' = [run EXCEPT ![w].due = @ \ {j},
                          ![w].claimed = @ \cup {[job |-> j, offset |-> session[j].offset]}]
         \/ run' = [run EXCEPT ![w].due = @ \ {j}] /\ UNCHANGED session
    BY <1>8 DEF ClaimDue
  <2>j. j \in Jobs /\ session[j].status # "none"
    BY <1>1, <1>2 DEF RunSound, RunTracks
  <2>3. SesGrows(session, session') /\ StoreSound'
    <3>1. CASE session' = [session EXCEPT ![j].status = "uploading", ![j].lease = "held"]
      <4>1. /\ session'[j].status = "uploading" /\ session'[j].ext = session[j].ext
            /\ \A k \in Jobs \ {j} : session'[k] = session[k]
        BY <1>3, <2>j, <3>1 DEF SessionRow
      <4>2. QED
        BY <1>2, <2>2, <2>j, <4>1, SessionWriteSound
    <3>2. CASE UNCHANGED session
      BY <1>2, <2>2, <3>2, SameSessions, StoreStaysSound DEF storeVars
    <3>3. QED
      BY <3>1, <3>2
  <2>4. RunSound(session, run'[w])
    <3>1. /\ run'[w].seen = run[w].seen /\ run'[w].pc = run[w].pc
          /\ run'[w].job = run[w].job /\ run'[w].result = run[w].result
          /\ run'[w].due = run[w].due \ {j}
          /\ run'[w].claimed \in
                {run[w].claimed,
                 run[w].claimed \cup {[job |-> j, offset |-> session[j].offset]}}
      BY <1>1, <1>3 DEF RunRow
    <3>2. \A s \in run'[w].claimed : session[s.job].status # "none"
      BY <1>2, <2>j, <3>1 DEF RunSound, RunTracks
    <3>3. QED
      BY <1>2, <2>2, <3>1, <3>2 DEF RunSound, RunTracks, RunNames, SessionPcs
  <2>5. RunSound(session', run'[w])
    BY <2>3, <2>4, <1>t, CopiesStaySound
  <2>9. QED
    BY <2>1, <2>2, <2>3, <2>5, RunSoundFrame
<1>9. CASE EndRun(w)
  <2>1. \A a \in Actors \ {w} : run'[a] = run[a]
    BY <1>3, <1>9 DEF EndRun
  <2>2. UNCHANGED storeVars /\ UNCHANGED <<req, patch>>
    BY <1>9 DEF EndRun, storeVars, UnchangedByWorker
  <2>3. SesGrows(session, session') /\ StoreSound'
    BY <1>2, <2>2, SameSessions, StoreStaysSound DEF storeVars
  <2>4. RunSound(session, run'[w])
    BY <1>1, <1>2, <1>3, <1>9, ResumedSound DEF EndRun
  <2>5. RunSound(session', run'[w])
    BY <2>3, <2>4, <1>t, CopiesStaySound
  <2>9. QED
    BY <2>1, <2>2, <2>3, <2>5, RunSoundFrame DEF storeVars
<1>10. CASE NextSession(w)
  <2>1. \A a \in Actors \ {w} : run'[a] = run[a]
    BY <1>3, <1>10 DEF NextSession
  <2>2. UNCHANGED storeVars /\ UNCHANGED <<req, patch>>
    BY <1>10 DEF NextSession, storeVars, UnchangedByWorker
  <2>3. SesGrows(session, session') /\ StoreSound'
    BY <1>2, <2>2, SameSessions, StoreStaysSound DEF storeVars
  <2>4. RunSound(session, run'[w])
    <3>1. PICK s \in run[w].claimed : run'[w] =
               [run[w] EXCEPT
                  !.due = {}, !.claimed = run[w].claimed \ {s}, !.job = s.job,
                  !.offset = s.offset, !.att = attempt[s.job],
                  !.pc = IF attempt[s.job].status = "succeeded" THEN "confirm" ELSE "asset",
                  !.result = IF attempt[s.job].status = "succeeded"
                             THEN attempt[s.job].result ELSE NoResult]
      BY <1>3, <1>10 DEF NextSession
    <3>2. s.job \in Jobs /\ session[s.job].status # "none"
      BY <1>1, <1>2 DEF RunSound, RunTracks
    <3>3. /\ run'[w].seen = run[w].seen /\ run'[w].job = s.job
          /\ run'[w].due = {} /\ run'[w].claimed = run[w].claimed \ {s}
          /\ run'[w].pc \in {"confirm", "asset"}
          /\ run'[w].result \in {attempt[s.job].result, NoResult}
      BY <1>1, <3>1 DEF RunRow
    <3>4. Named(session, s.job, run'[w].result)
      BY <1>2, <3>2, <3>3, NothingNamed DEF StoreSound
    <3>5. QED
      BY <1>2, <3>2, <3>3, <3>4 DEF RunSound, RunTracks, RunNames
  <2>5. RunSound(session', run'[w])
    BY <2>3, <2>4, <1>t, CopiesStaySound
  <2>9. QED
    BY <2>1, <2>2, <2>3, <2>5, RunSoundFrame DEF storeVars
<1>11. CASE NotReady(w)
  <2>1. \A a \in Actors \ {w} : run'[a] = run[a]
    BY <1>3, <1>11 DEF NotReady
  <2>2. UNCHANGED <<attempt, os, youtube, req, patch>> /\ run[w].pc = "asset"
    BY <1>11 DEF NotReady, UnchangedByWorker
  <2>3. SesGrows(session, session') /\ StoreSound'
    <3>1. session' = [session EXCEPT ![run[w].job] = SessionFailed(@, Failed("upload_failed"))]
      BY <1>11 DEF NotReady
    <3>2. /\ session'[run[w].job].status # "none"
          /\ session'[run[w].job].ext = session[run[w].job].ext
          /\ \A k \in Jobs \ {run[w].job} : session'[k] = session[k]
      BY <1>1, <1>3, <3>1, SessionUpdatesSound
    <3>3. session[run[w].job].status # "none"
      BY <1>sp, <1>tr, <2>2
    <3>4. QED
      BY <1>1, <1>2, <2>2, <3>2, <3>3, SessionWriteSound
  <2>4. RunSound(session, run'[w])
    <3>1. run'[w] = Leave(run[w], "termState", Failed("upload_failed"))
      BY <1>3, <1>11 DEF NotReady
    <3>2. Failed("upload_failed").status = "failed" /\ "termState" \notin SessionPcs
      BY DEF Failed, SessionPcs
    <3>3. QED
      BY <1>1, <1>2, <3>1, <3>2, LeaveSound
  <2>5. RunSound(session', run'[w])
    BY <2>3, <2>4, <1>t, CopiesStaySound
  <2>9. QED
    BY <2>1, <2>2, <2>3, <2>5, RunSoundFrame
<1>12. CASE ChunkUnreadable(w)
  <2>1. \A a \in Actors \ {w} : run'[a] = run[a]
    BY <1>3, <1>12 DEF ChunkUnreadable
  <2>2. UNCHANGED <<attempt, os, youtube, req, patch>> /\ run[w].pc = "chunk"
    BY <1>12 DEF ChunkUnreadable, UnchangedByWorker
  <2>3. SesGrows(session, session') /\ StoreSound'
    <3>1. session' = [session EXCEPT ![run[w].job] = SessionFailed(@, Failed("upload_failed"))]
      BY <1>12 DEF ChunkUnreadable
    <3>2. /\ session'[run[w].job].status # "none"
          /\ session'[run[w].job].ext = session[run[w].job].ext
          /\ \A k \in Jobs \ {run[w].job} : session'[k] = session[k]
      BY <1>1, <1>3, <3>1, SessionUpdatesSound
    <3>3. session[run[w].job].status # "none"
      BY <1>sp, <1>tr, <2>2
    <3>4. QED
      BY <1>1, <1>2, <2>2, <3>2, <3>3, SessionWriteSound
  <2>4. RunSound(session, run'[w])
    <3>1. run'[w] = Leave(run[w], "termState", Failed("upload_failed"))
      BY <1>3, <1>12 DEF ChunkUnreadable
    <3>2. Failed("upload_failed").status = "failed" /\ "termState" \notin SessionPcs
      BY DEF Failed, SessionPcs
    <3>3. QED
      BY <1>1, <1>2, <3>1, <3>2, LeaveSound
  <2>5. RunSound(session', run'[w])
    BY <2>3, <2>4, <1>t, CopiesStaySound
  <2>9. QED
    BY <2>1, <2>2, <2>3, <2>5, RunSoundFrame
<1>13. CASE ReadState(w)
  <2>1. \A a \in Actors \ {w} : run'[a] = run[a]
    BY <1>3, <1>13 DEF ReadState
  <2>2. UNCHANGED storeVars /\ UNCHANGED <<req, patch>>
    BY <1>13 DEF ReadState, storeVars, UnchangedByWorker
  <2>3. SesGrows(session, session') /\ StoreSound'
    BY <1>2, <2>2, SameSessions, StoreStaysSound DEF storeVars
  <2>4. RunSound(session, run'[w])
    <3>1. /\ run'[w].due = run[w].due /\ run'[w].claimed = run[w].claimed
          /\ run'[w].job = run[w].job /\ run'[w].result = run[w].result
          /\ run'[w].pc = "chunk" /\ run'[w].seen = os
          /\ run[w].pc = "asset"
      BY <1>1, <1>3, <1>13 DEF ReadState, RunRow
    <3>2. QED
      BY <1>2, <3>1, StepSound DEF SessionPcs
  <2>5. RunSound(session', run'[w])
    BY <2>3, <2>4, <1>t, CopiesStaySound
  <2>9. QED
    BY <2>1, <2>2, <2>3, <2>5, RunSoundFrame DEF storeVars
<1>14. CASE ReadChunk(w)
  <2>1. \A a \in Actors \ {w} : run'[a] = run[a]
    BY <1>3, <1>14 DEF ReadChunk
  <2>2. UNCHANGED <<attempt, os, youtube, req, patch>> /\ run[w].pc = "chunk"
    BY <1>14 DEF ReadChunk, UnchangedByWorker
  <2>3. SesGrows(session, session') /\ StoreSound'
    <3>1. session' = [session EXCEPT ![run[w].job] = Progressed(@, run[w].offset + 1)]
      BY <1>14 DEF ReadChunk
    <3>2. /\ session'[run[w].job].status # "none"
          /\ session'[run[w].job].ext = session[run[w].job].ext
          /\ \A k \in Jobs \ {run[w].job} : session'[k] = session[k]
      BY <1>1, <1>3, <3>1, SessionUpdatesSound
    <3>3. session[run[w].job].status # "none"
      BY <1>sp, <1>tr, <2>2
    <3>4. QED
      BY <1>1, <1>2, <2>2, <3>2, <3>3, SessionWriteSound
  <2>4. RunSound(session, run'[w])
    <3>1. /\ run'[w].due = run[w].due /\ run'[w].claimed = run[w].claimed
          /\ run'[w].job = run[w].job /\ run'[w].result = run[w].result
          /\ run'[w].pc = "put" /\ run'[w].seen = run[w].seen
          /\ run[w].pc = "chunk"
      BY <1>1, <1>3, <1>14 DEF ReadChunk, RunRow
    <3>2. QED
      BY <1>2, <3>1, StepSound DEF SessionPcs
  <2>5. RunSound(session', run'[w])
    BY <2>3, <2>4, <1>t, CopiesStaySound
  <2>9. QED
    BY <2>1, <2>2, <2>3, <2>5, RunSoundFrame
<1>15. CASE StopEarly(w)
  <2>1. \A a \in Actors \ {w} : run'[a] = run[a]
    BY <1>3, <1>15 DEF StopEarly
  <2>2. UNCHANGED <<attempt, os, youtube, req, patch>> /\ run[w].pc = "chunk"
    BY <1>15 DEF StopEarly, UnchangedByWorker
  <2>3. SesGrows(session, session') /\ StoreSound'
    <3>1. session' = [session EXCEPT ![run[w].job] = Progressed(@, run[w].offset)]
      BY <1>15 DEF StopEarly
    <3>2. /\ session'[run[w].job].status # "none"
          /\ session'[run[w].job].ext = session[run[w].job].ext
          /\ \A k \in Jobs \ {run[w].job} : session'[k] = session[k]
      BY <1>1, <1>3, <3>1, SessionUpdatesSound
    <3>3. session[run[w].job].status # "none"
      BY <1>sp, <1>tr, <2>2
    <3>4. QED
      BY <1>1, <1>2, <2>2, <3>2, <3>3, SessionWriteSound
  <2>4. RunSound(session, run'[w])
    BY <1>1, <1>2, <1>3, <1>15, ResumedSound DEF StopEarly
  <2>5. RunSound(session', run'[w])
    BY <2>3, <2>4, <1>t, CopiesStaySound
  <2>9. QED
    BY <2>1, <2>2, <2>3, <2>5, RunSoundFrame
<1>16. CASE FailSession(w)
  <2>1. \A a \in Actors \ {w} : run'[a] = run[a]
    BY <1>3, <1>16 DEF FailSession
  <2>2. UNCHANGED <<attempt, os, youtube, req, patch>> /\ run[w].pc = "failSession"
    BY <1>16 DEF FailSession, UnchangedByWorker
  <2>3. SesGrows(session, session') /\ StoreSound'
    <3>1. session' = [session EXCEPT ![run[w].job] = SessionFailed(@, run[w].result)]
      BY <1>16 DEF FailSession
    <3>2. /\ session'[run[w].job].status # "none"
          /\ session'[run[w].job].ext = session[run[w].job].ext
          /\ \A k \in Jobs \ {run[w].job} : session'[k] = session[k]
      BY <1>1, <1>3, <3>1, SessionUpdatesSound
    <3>3. session[run[w].job].status # "none"
      BY <1>sp, <1>tr, <2>2
    <3>4. QED
      BY <1>1, <1>2, <2>2, <3>2, <3>3, SessionWriteSound
  <2>4. RunSound(session, run'[w])
    <3>1. /\ run'[w].due = run[w].due /\ run'[w].claimed = run[w].claimed
          /\ run'[w].job = run[w].job /\ run'[w].result = run[w].result
          /\ run'[w].pc = "termState" /\ run'[w].seen = run[w].seen
          /\ run[w].pc = "failSession"
      BY <1>1, <1>3, <1>16 DEF FailSession, RunRow
    <3>2. QED
      BY <1>2, <3>1, StepSound DEF SessionPcs
  <2>5. RunSound(session', run'[w])
    BY <2>3, <2>4, <1>t, CopiesStaySound
  <2>9. QED
    BY <2>1, <2>2, <2>3, <2>5, RunSoundFrame
<1>17. CASE ConfirmSession(w)
  <2>1. \A a \in Actors \ {w} : run'[a] = run[a]
    BY <1>3, <1>17 DEF ConfirmSession
  <2>2. UNCHANGED <<attempt, os, youtube, req, patch>> /\ run[w].pc = "confirm"
    BY <1>17 DEF ConfirmSession, UnchangedByWorker
  <2>n. /\ session[run[w].job].status # "none"
        /\ run[w].job \in AsyncJobs /\ run[w].result.ext = 1
    <3>1. session[run[w].job].status # "none"
      BY <1>sp, <1>tr, <2>2
    <3>2. run[w].job \in AsyncJobs
      BY <1>1, <1>2, <3>1 DEF StoreSound, SessionSound
    <3>3. ConfirmedVideo(youtube[run[w].job], run[w].result.ext)
      BY <1>2, <2>2 DEF RunHonest, Confirmed
    <3>4. youtube[run[w].job].videos <= 1 /\ youtube[run[w].job].videos \in Nat
      BY <1>1, <1>2, <1>3, <3>2 DEF StoreSound, ChannelSound, Channel
    <3>5. QED
      BY <3>1, <3>2, <3>3, <3>4 DEF ConfirmedVideo
  <2>3. /\ SesGrows(session, session') /\ StoreSound'
        /\ session'[run[w].job].ext = 1
    <3>1. session' = [session EXCEPT ![run[w].job] = SessionDone(@, run[w].result.ext)]
      BY <1>17 DEF ConfirmSession
    <3>2. /\ session'[run[w].job].status # "none"
          /\ session'[run[w].job].ext = run[w].result.ext
          /\ \A k \in Jobs \ {run[w].job} : session'[k] = session[k]
      BY <1>1, <1>3, <3>1, SessionUpdatesSound
    <3>3. QED
      BY <1>1, <1>2, <2>2, <2>n, <3>2, SessionWriteSound
  <2>4. RunSound(session, run'[w])
    BY <1>1, <1>2, <1>3, <1>17, ResumedSound DEF ConfirmSession
  <2>5. RunSound(session', run'[w])
    BY <2>3, <2>4, <1>t, CopiesStaySound
  <2>9. QED
    BY <2>1, <2>2, <2>3, <2>5, RunSoundFrame
<1>18. CASE CompleteSession(w)
  <2>1. \A a \in Actors \ {w} : run'[a] = run[a]
    BY <1>3, <1>18 DEF CompleteSession
  <2>2. UNCHANGED <<attempt, os, youtube, req, patch>> /\ run[w].pc = "completeSession"
    BY <1>18 DEF CompleteSession, UnchangedByWorker
  <2>n. /\ session[run[w].job].status # "none"
        /\ run[w].job \in AsyncJobs /\ run[w].result.ext = 1
    <3>1. session[run[w].job].status # "none"
      BY <1>sp, <1>tr, <2>2
    <3>2. run[w].job \in AsyncJobs
      BY <1>1, <1>2, <3>1 DEF StoreSound, SessionSound
    <3>3. ConfirmedVideo(youtube[run[w].job], run[w].result.ext)
      BY <1>2, <2>2 DEF RunHonest, Confirmed
    <3>4. youtube[run[w].job].videos <= 1 /\ youtube[run[w].job].videos \in Nat
      BY <1>1, <1>2, <1>3, <3>2 DEF StoreSound, ChannelSound, Channel
    <3>5. QED
      BY <3>1, <3>2, <3>3, <3>4 DEF ConfirmedVideo
  <2>3. /\ SesGrows(session, session') /\ StoreSound'
        /\ session'[run[w].job].ext = 1
    <3>1. session' = [session EXCEPT ![run[w].job] = SessionDone(@, run[w].result.ext)]
      BY <1>18 DEF CompleteSession
    <3>2. /\ session'[run[w].job].status # "none"
          /\ session'[run[w].job].ext = run[w].result.ext
          /\ \A k \in Jobs \ {run[w].job} : session'[k] = session[k]
      BY <1>1, <1>3, <3>1, SessionUpdatesSound
    <3>3. QED
      BY <1>1, <1>2, <2>2, <2>n, <3>2, SessionWriteSound
  <2>5. RunSound(session', run'[w])
    <3>1. /\ run'[w].due = run[w].due /\ run'[w].claimed = run[w].claimed
          /\ run'[w].job = run[w].job /\ run'[w].result = run[w].result
          /\ run'[w].pc = "completeAttempt" /\ run'[w].seen = run[w].seen
      BY <1>1, <1>3, <1>18 DEF CompleteSession, RunRow
    <3>2. RunSound(session', run[w])
      BY <1>1, <1>2, <2>3, CopiesStaySound
    <3>3. Named(session', run[w].job, run[w].result)
      BY <2>3 DEF Named
    <3>4. BlobNamed(session', run[w].seen)
      BY <3>2 DEF RunSound, RunNames
    <3>5. "completeAttempt" \notin SessionPcs
      BY DEF SessionPcs
    <3>6. QED
      BY <3>1, <3>2, <3>3, <3>4, <3>5, MovedSound
  <2>9. QED
    BY <2>1, <2>2, <2>3, <2>5, RunSoundFrame
<1>19. CASE RecordSuccess(w)
  <2>1. \A a \in Actors \ {w} : run'[a] = run[a]
    BY <1>3, <1>19 DEF RecordSuccess
  <2>2. UNCHANGED <<session, os, youtube, req, patch>>
    BY <1>19 DEF RecordSuccess, UnchangedByWorker
  <2>3. SesGrows(session, session') /\ StoreSound'
    <3>1. run[w].result.status \in {"failed", "published"}
      BY <1>2, <1>19 DEF RecordSuccess, RunHonest
    <3>2. Named(session, run[w].job, run[w].result)
      BY <1>2, <1>19 DEF RecordSuccess, RunSound, RunNames
    <3>3. /\ Completed(run[w].result).result = run[w].result
          /\ Completed(run[w].result).status # "uploading"
      BY <3>1 DEF Completed, AttemptStatusOf
    <3>4. /\ attempt'[run[w].job] = Completed(run[w].result)
          /\ \A k \in Jobs \ {run[w].job} : attempt'[k] = attempt[k]
      BY <1>1, <1>3, <1>19 DEF RecordSuccess
    <3>5. QED
      BY <1>1, <1>2, <2>2, <3>2, <3>3, <3>4, AttemptStaysSound, SameSessions
  <2>4. RunSound(session, run'[w])
    <3>1. /\ run'[w].due = run[w].due /\ run'[w].claimed = run[w].claimed
          /\ run'[w].job = run[w].job /\ run'[w].result = run[w].result
          /\ run'[w].pc = "terminate" /\ run'[w].seen = run[w].seen
          /\ run[w].pc = "completeAttempt"
      BY <1>1, <1>3, <1>19 DEF RecordSuccess, RunRow
    <3>2. QED
      BY <1>2, <3>1, StepSound DEF SessionPcs
  <2>5. RunSound(session', run'[w])
    BY <2>3, <2>4, <1>t, CopiesStaySound
  <2>9. QED
    BY <2>1, <2>2, <2>3, <2>5, RunSoundFrame
<1>20. CASE ReadTermState(w)
  <2>1. \A a \in Actors \ {w} : run'[a] = run[a]
    BY <1>3, <1>20 DEF ReadTermState
  <2>2. UNCHANGED storeVars /\ UNCHANGED <<req, patch>>
    BY <1>20 DEF ReadTermState, storeVars, UnchangedByWorker
  <2>3. SesGrows(session, session') /\ StoreSound'
    BY <1>2, <2>2, SameSessions, StoreStaysSound DEF storeVars
  <2>4. RunSound(session, run'[w])
    <3>1. /\ run'[w].due = run[w].due /\ run'[w].claimed = run[w].claimed
          /\ run'[w].job = run[w].job /\ run'[w].result = run[w].result
          /\ run'[w].pc = "terminate" /\ run'[w].seen = os
          /\ run[w].pc = "termState"
      BY <1>1, <1>3, <1>20 DEF ReadTermState, RunRow
    <3>2. QED
      BY <1>2, <3>1, StepSound DEF SessionPcs
  <2>5. RunSound(session', run'[w])
    BY <2>3, <2>4, <1>t, CopiesStaySound
  <2>9. QED
    BY <2>1, <2>2, <2>3, <2>5, RunSoundFrame DEF storeVars
<1>21. CASE ReadTermAttempt(w)
  <2>1. \A a \in Actors \ {w} : run'[a] = run[a]
    BY <1>3, <1>21 DEF ReadTermAttempt
  <2>2. UNCHANGED storeVars /\ UNCHANGED <<req, patch>>
    BY <1>21 DEF ReadTermAttempt, storeVars, UnchangedByWorker
  <2>3. SesGrows(session, session') /\ StoreSound'
    BY <1>2, <2>2, SameSessions, StoreStaysSound DEF storeVars
  <2>4. RunSound(session, run'[w])
    <3>1. /\ run'[w].due = run[w].due /\ run'[w].claimed = run[w].claimed
          /\ run'[w].job = run[w].job /\ run'[w].result = run[w].result
          /\ run'[w].pc = "terminate" /\ run'[w].seen = run[w].seen
          /\ run[w].pc = "termAttempt"
      BY <1>1, <1>3, <1>21 DEF ReadTermAttempt, RunRow
    <3>2. QED
      BY <1>2, <3>1, StepSound DEF SessionPcs
  <2>5. RunSound(session', run'[w])
    BY <2>3, <2>4, <1>t, CopiesStaySound
  <2>9. QED
    BY <2>1, <2>2, <2>3, <2>5, RunSoundFrame DEF storeVars
<1>22. CASE TerminateAttempt(w)
  <2>1. \A a \in Actors \ {w} : run'[a] = run[a]
    BY <1>3, <1>22 DEF TerminateAttempt
  <2>2. UNCHANGED <<session, os, youtube, req, patch>>
    BY <1>22 DEF TerminateAttempt, UnchangedByWorker
  <2>3. SesGrows(session, session') /\ StoreSound'
    <3>1. run[w].result.status \in {"failed", "published"}
      BY <1>2, <1>22 DEF TerminateAttempt, RunHonest
    <3>2. Named(session, run[w].job, run[w].result)
      BY <1>2, <1>22 DEF TerminateAttempt, RunSound, RunNames
    <3>3. /\ Completed(run[w].result).result = run[w].result
          /\ Completed(run[w].result).status # "uploading"
      BY <3>1 DEF Completed, AttemptStatusOf
    <3>4. CASE UNCHANGED attempt
      BY <1>2, <2>2, <3>4, SameSessions, StoreStaysSound DEF storeVars
    <3>5. CASE attempt' = [attempt EXCEPT ![run[w].job] = Completed(run[w].result)]
      <4>1. /\ attempt'[run[w].job] = Completed(run[w].result)
            /\ \A k \in Jobs \ {run[w].job} : attempt'[k] = attempt[k]
        BY <1>1, <1>3, <3>5
      <4>2. QED
        BY <1>1, <1>2, <2>2, <3>2, <3>3, <4>1, AttemptStaysSound, SameSessions
    <3>6. QED
      BY <3>4, <3>5, <1>22 DEF TerminateAttempt
  <2>4. RunSound(session, run'[w])
    <3>1. CASE run' = [run EXCEPT ![w] = Resumed(@)]
      BY <1>1, <1>2, <1>3, <3>1, ResumedSound
    <3>2. CASE run' = [run EXCEPT ![w].pc = "persist", ![w].att = NoAttempt]
      <4>1. /\ run'[w].due = run[w].due /\ run'[w].claimed = run[w].claimed
            /\ run'[w].job = run[w].job /\ run'[w].result = run[w].result
            /\ run'[w].pc = "persist" /\ run'[w].seen = run[w].seen
            /\ run[w].pc = "terminate"
        BY <1>1, <1>3, <3>2, <1>22 DEF TerminateAttempt, RunRow
      <4>2. QED
        BY <1>2, <4>1, StepSound DEF SessionPcs
    <3>3. QED
      BY <3>1, <3>2, <1>22 DEF TerminateAttempt
  <2>5. RunSound(session', run'[w])
    BY <2>3, <2>4, <1>t, CopiesStaySound
  <2>9. QED
    BY <2>1, <2>2, <2>3, <2>5, RunSoundFrame
<1>23. CASE PersistTerminal(w)
  <2>1. \A a \in Actors \ {w} : run'[a] = run[a]
    BY <1>3, <1>23 DEF PersistTerminal
  <2>2. UNCHANGED <<attempt, session, youtube, req, patch>>
    BY <1>23 DEF PersistTerminal, UnchangedByWorker
  <2>3. SesGrows(session, session') /\ StoreSound'
    <3>1. Named(session, run[w].job, run[w].result)
      BY <1>2, <1>23 DEF PersistTerminal, RunSound, RunNames
    <3>2. os' = WithResult(run[w].seen, run[w].job, run[w].result)
      BY <1>23 DEF PersistTerminal
    <3>3. BlobNamed(session, os')
      BY <1>1, <1>2, <3>1, <3>2, WithResultNamed
    <3>4. QED
      BY <1>2, <2>2, <3>3, BlobStaysSound, SameSessions
  <2>4. RunSound(session, run'[w])
    BY <1>1, <1>2, <1>3, <1>23, ResumedSound DEF PersistTerminal
  <2>5. RunSound(session', run'[w])
    BY <2>3, <2>4, <1>t, CopiesStaySound
  <2>9. QED
    BY <2>1, <2>2, <2>3, <2>5, RunSoundFrame
<1>24. CASE PollState(w)
  <2>1. \A a \in Actors \ {w} : run'[a] = run[a]
    BY <1>3, <1>24 DEF PollState
  <2>2. UNCHANGED storeVars /\ UNCHANGED <<req, patch>>
    BY <1>24 DEF PollState, storeVars, UnchangedByWorker
  <2>3. SesGrows(session, session') /\ StoreSound'
    BY <1>2, <2>2, SameSessions, StoreStaysSound DEF storeVars
  <2>4. RunSound(session, run'[w])
    <3>1. PICK j \in Jobs : run'[w] = [IdleRun EXCEPT !.pc = "pollAttempt", !.job = j,
                                                      !.seen = os]
      BY <1>3, <1>24 DEF PollState
    <3>2. /\ run'[w].seen = os /\ run'[w].pc = "pollAttempt"
          /\ run'[w].due = {} /\ run'[w].claimed = {} /\ run'[w].result = NoResult
      BY <3>1 DEF IdleRun
    <3>3. QED
      BY <1>2, <3>2, NothingNamed DEF RunSound, RunTracks, RunNames, SessionPcs
  <2>5. RunSound(session', run'[w])
    BY <2>3, <2>4, <1>t, CopiesStaySound
  <2>9. QED
    BY <2>1, <2>2, <2>3, <2>5, RunSoundFrame DEF storeVars
<1>25. CASE PollAttempt(w)
  <2>1. \A a \in Actors \ {w} : run'[a] = run[a]
    BY <1>3, <1>25 DEF PollAttempt
  <2>2. UNCHANGED storeVars /\ UNCHANGED <<req, patch>>
    BY <1>25 DEF PollAttempt, storeVars, UnchangedByWorker
  <2>3. SesGrows(session, session') /\ StoreSound'
    BY <1>2, <2>2, SameSessions, StoreStaysSound DEF storeVars
  <2>4. RunSound(session, run'[w])
    <3>1. /\ run'[w].due = run[w].due /\ run'[w].claimed = run[w].claimed
          /\ run'[w].job = run[w].job /\ run'[w].result = run[w].result
          /\ run'[w].pc = "pollSession" /\ run'[w].seen = run[w].seen
          /\ run[w].pc = "pollAttempt"
      BY <1>1, <1>3, <1>25 DEF PollAttempt, RunRow
    <3>2. QED
      BY <1>2, <3>1, StepSound DEF SessionPcs
  <2>5. RunSound(session', run'[w])
    BY <2>3, <2>4, <1>t, CopiesStaySound
  <2>9. QED
    BY <2>1, <2>2, <2>3, <2>5, RunSoundFrame DEF storeVars
<1>26. CASE PollSession(w)
  <2>1. \A a \in Actors \ {w} : run'[a] = run[a]
    BY <1>3, <1>26 DEF PollSession
  <2>2. UNCHANGED storeVars /\ UNCHANGED <<req, patch>>
    BY <1>26 DEF PollSession, storeVars, UnchangedByWorker
  <2>3. SesGrows(session, session') /\ StoreSound'
    BY <1>2, <2>2, SameSessions, StoreStaysSound DEF storeVars
  <2>4. RunSound(session, run'[w])
    <3>1. CASE run' = [run EXCEPT ![w] = IdleRun]
      BY <1>1, <1>2, <1>3, <3>1, ResumedSound
    <3>2. CASE \E why, pc : /\ run' = [run EXCEPT ![w].result = Failed(why), ![w].pc = pc]
                            /\ pc \in {"termAttempt", "terminate"}
      <4>1. /\ run'[w].due = run[w].due /\ run'[w].claimed = run[w].claimed
            /\ run'[w].job = run[w].job /\ run'[w].seen = run[w].seen
            /\ run'[w].pc \in {"termAttempt", "terminate"}
            /\ \E why : run'[w].result = Failed(why)
        BY <1>1, <1>3, <3>2 DEF RunRow
      <4>2. Named(session, run'[w].job, run'[w].result) /\ run'[w].pc \notin SessionPcs
        BY <4>1, NothingNamed DEF SessionPcs
      <4>3. QED
        BY <1>2, <4>1, <4>2, MovedSound
    <3>3. QED
      BY <3>1, <3>2, <1>26 DEF PollSession
  <2>5. RunSound(session', run'[w])
    BY <2>3, <2>4, <1>t, CopiesStaySound
  <2>9. QED
    BY <2>1, <2>2, <2>3, <2>5, RunSoundFrame DEF storeVars
<1>27. CASE CrashRun(w)
  <2>1. \A a \in Actors \ {w} : run'[a] = run[a]
    BY <1>3, <1>27 DEF CrashRun
  <2>2. UNCHANGED storeVars /\ UNCHANGED <<req, patch>>
    BY <1>27 DEF CrashRun, storeVars, UnchangedByWorker
  <2>3. SesGrows(session, session') /\ StoreSound'
    BY <1>2, <2>2, SameSessions, StoreStaysSound DEF storeVars
  <2>4. RunSound(session, run'[w])
    BY <1>1, <1>2, <1>3, <1>27, ResumedSound DEF CrashRun
  <2>5. RunSound(session', run'[w])
    BY <2>3, <2>4, <1>t, CopiesStaySound
  <2>9. QED
    BY <2>1, <2>2, <2>3, <2>5, RunSoundFrame DEF storeVars
<1>28. CASE Finalize(w)
  <2>1. \A a \in Actors \ {w} : run'[a] = run[a]
    BY <1>3, <1>28 DEF Finalize
  <2>2. UNCHANGED storeVars /\ UNCHANGED <<req, patch>>
    BY <1>28 DEF Finalize, storeVars, UnchangedByWorker
  <2>3. SesGrows(session, session') /\ StoreSound'
    BY <1>2, <2>2, SameSessions, StoreStaysSound DEF storeVars
  <2>4. RunSound(session, run'[w])
    <3>1. run[w].pc \in SessionPcs
      BY <1>28 DEF Finalize, SessionPcs
    <3>2. \/ run'[w] = Leave(run[w], "completeSession", Published(youtube[run[w].job].done))
          \/ run'[w] = Leave(run[w], "failSession", Failed("upload_failed"))
      BY <1>3, <1>28 DEF Finalize
    <3>3. Failed("upload_failed").status = "failed"
      BY DEF Failed
    <3>4. QED
      BY <1>1, <1>2, <3>1, <3>2, <3>3, LeaveSound
  <2>5. RunSound(session', run'[w])
    BY <2>3, <2>4, <1>t, CopiesStaySound
  <2>9. QED
    BY <2>1, <2>2, <2>3, <2>5, RunSoundFrame DEF storeVars
<1>29. CASE PutChunk(w)
  <2> PICK j \in Jobs : j = run[w].job
    BY <1>1
  <2>1. \A a \in Actors \ {w} : run'[a] = run[a]
    BY <1>3, <1>29 DEF PutChunk
  <2>2. UNCHANGED <<attempt, session, os, req, patch>> /\ run[w].pc \in SessionPcs
    BY <1>29 DEF PutChunk, UnchangedByWorker, SessionPcs
  <2>a. j \in AsyncJobs /\ session[j].status # "none"
    BY <1>1, <1>2, <1>tr, <2>2 DEF StoreSound, SessionSound
  <2>y. /\ \A i \in Jobs \ {j} : youtube'[i] = youtube[i]
        /\ \/ youtube'[j] = youtube[j]
           \/ /\ youtube[j].done = 0
              /\ youtube'[j] = [videos |-> youtube[j].videos + 1, received |-> Size,
                                done |-> youtube[j].videos + 1]
           \/ youtube'[j] = [youtube[j] EXCEPT !.received = run[w].offset + 1]
    BY <1>1, <1>3, <1>29 DEF PutChunk, AfterChunk, Kept
  <2>c. ChannelSound(session, j)'
    <3>1. ChannelSound(session, j)
      BY <1>2, <2>a DEF StoreSound
    <3>2. CASE youtube'[j] = youtube[j]
      BY <2>2, <3>1, <3>2 DEF ChannelSound
    <3>3. CASE /\ youtube[j].done = 0
               /\ youtube'[j] = [videos |-> youtube[j].videos + 1, received |-> Size,
                                 done |-> youtube[j].videos + 1]
      BY <2>2, <2>a, <3>1, <3>3 DEF ChannelSound
    <3>4. CASE youtube'[j] = [youtube[j] EXCEPT !.received = run[w].offset + 1]
      <4>1. youtube[j] \in Channel
        BY <1>1, <1>3
      <4>2. youtube'[j].videos = youtube[j].videos /\ youtube'[j].done = youtube[j].done
        BY <3>4, <4>1 DEF Channel
      <4>3. QED
        BY <2>2, <2>a, <3>1, <4>2 DEF ChannelSound
    <3>5. QED
      BY <2>y, <3>2, <3>3, <3>4
  <2>3. SesGrows(session, session') /\ StoreSound'
    <3>1. \A k \in AsyncJobs : ChannelSound(session, k)'
      <4> SUFFICES ASSUME NEW k \in AsyncJobs, k # j PROVE ChannelSound(session, k)'
        BY <2>c
      <4>1. youtube'[k] = youtube[k] /\ ChannelSound(session, k)
        BY <1>2, <2>y, StoreAssumption DEF StoreSound
      <4>2. QED
        BY <2>2, <4>1 DEF ChannelSound
    <3>2. QED
      BY <1>2, <2>2, <3>1, SameSessions DEF StoreSound, SessionSound
  <2>4. RunSound(session, run'[w])
    <3>1. \/ \E o, n : run' = [run EXCEPT ![w].pc = "chunk", ![w].offset = o, ![w].sent = n]
          \/ \E v : run' = [run EXCEPT ![w] = Leave(@, "completeSession", Published(v))]
          \/ run' = [run EXCEPT ![w] = Leave(@, "failSession", Failed("upload_failed"))]
      BY <1>29 DEF PutChunk
    <3>2. Failed("upload_failed").status = "failed"
      BY DEF Failed
    <3>3. CASE \E o, n : run' = [run EXCEPT ![w].pc = "chunk", ![w].offset = o, ![w].sent = n]
      <4>1. /\ run'[w].due = run[w].due /\ run'[w].claimed = run[w].claimed
            /\ run'[w].job = run[w].job /\ run'[w].result = run[w].result
            /\ run'[w].seen = run[w].seen /\ run[w].pc = "put"
        BY <1>1, <1>3, <3>3, <1>29 DEF PutChunk, RunRow
      <4>2. QED
        BY <1>2, <2>2, <4>1, StepSound
    <3>4. CASE \E v : run' = [run EXCEPT ![w] = Leave(@, "completeSession", Published(v))]
      BY <1>1, <1>2, <1>3, <2>2, <3>4, LeaveSound
    <3>5. CASE run' = [run EXCEPT ![w] = Leave(@, "failSession", Failed("upload_failed"))]
      BY <1>1, <1>2, <1>3, <2>2, <3>2, <3>5, LeaveSound
    <3>6. QED
      BY <3>1, <3>3, <3>4, <3>5
  <2>5. RunSound(session', run'[w])
    BY <2>3, <2>4, <1>t, CopiesStaySound
  <2>9. QED
    BY <2>1, <2>2, <2>3, <2>5, RunSoundFrame
<1>30. QED
  BY <1>4, <1>5, <1>6, <1>7, <1>8, <1>9, <1>10, <1>11, <1>12, <1>13, <1>14, <1>15, <1>16, <1>17, <1>18, <1>19, <1>20, <1>21, <1>22, <1>23, <1>24, <1>25, <1>26, <1>27, <1>28, <1>29
     DEF WorkerStep, PollerStep, TermStep

LEMMA SoundAlways == Spec => []Sound
<1>1. Init => Sound
  BY SoundInit
<1>2. TypeOK /\ TypeOK' /\ Honest /\ Sound /\ [Next]_vars => Sound'
  <2> SUFFICES ASSUME TypeOK, TypeOK', Honest, Sound, [Next]_vars PROVE Sound'
    OBVIOUS
  <2>1. CASE RequestNext /\ UNCHANGED run
    BY <2>1, RequestKeepsSound, PatchKeepsSound, TimeKeepsSound DEF RequestNext
  <2>2. CASE \E w \in Workers : WorkerStep(w) \/ CrashRun(w)
    BY <2>2, RunKeepsSound DEF Actors
  <2>3. CASE \E p \in Pollers : PollerStep(p)
    BY <2>3, RunKeepsSound DEF Actors
  <2>4. CASE \E j \in Jobs : LeaseLapses(j) \/ SessionLapses(j)
    BY <2>4, TimeKeepsSound
  <2>5. CASE UNCHANGED vars
    BY <2>5, StoreStaysSound DEF vars, storeVars, Sound
  <2>6. QED
    BY <2>1, <2>2, <2>3, <2>4, <2>5 DEF Next
<1>3. QED
  BY <1>1, <1>2, TypeCorrect, HonestAlways, PTL DEF Spec

\* However many runs overlap, crash and send a chunk again, an asynchronous job
\* makes at most one video (uploadYouTubeVideoChunk, one session per attempt).
THEOREM AsyncJobsMakeOneVideo == Spec => []OneVideoPerAsyncJob
<1>1. Sound => OneVideoPerAsyncJob
  BY DEF Sound, StoreSound, ChannelSound, OneVideoPerAsyncJob
<1>2. QED
  BY <1>1, SoundAlways, PTL

\* No attempt is left waiting for an upload that has no session: the session is
\* created before the attempt says so, and is never deleted.
THEOREM WaitingHasSession == Spec => []UploadingIsBacked
<1>1. Sound => UploadingIsBacked
  BY DEF Sound, StoreSound, UploadingIsBacked
<1>2. QED
  BY <1>1, SoundAlways, PTL

\* Whatever the attempt or the Agent OS state report as published is the video
\* the session row names, through every copy of a result that is written late.
THEOREM PublishedIsNamed == Spec => []PublishedHasEvidence
<1>1. TypeOK /\ Honest /\ Sound => PublishedHasEvidence
  <2> SUFFICES ASSUME TypeOK, Honest, Sound, NEW j \in AsyncJobs,
                      NEW result \in {attempt[j].result, os[j].result},
                      result.status = "published"
               PROVE  session[j].ext = result.ext
    BY DEF PublishedHasEvidence
  <2>1. j \in Jobs /\ youtube[j].videos \in Nat /\ youtube[j].videos <= 1
    BY StoreAssumption DEF TypeOK, Sound, StoreSound, ChannelSound, Channel
  <2>2. session[j].ext = 1
    BY <2>1 DEF Sound, StoreSound, BlobNamed, Named
  <2>3. ConfirmedVideo(youtube[j], result.ext)
    BY <2>1 DEF Honest, StoreHonest, BlobHonest, RowHonest, ProjectHonest, Confirmed
  <2>4. result.ext = 1
    BY <2>1, <2>3 DEF ConfirmedVideo
  <2>5. QED
    BY <2>2, <2>4
<1>2. QED
  BY <1>1, TypeCorrect, HonestAlways, SoundAlways, PTL

-----------------------------------------------------------------------------
(* The lock.  A video of a synchronous job is paid for by a taking of the    *)
(* lock: a request that makes one was a holder, and is one no more.          *)

\* An attempt row is never deleted.
LEMMA AttemptsStay ==
    ASSUME TypeOK, [Next]_vars, NEW j \in Jobs, attempt[j].status # "none"
    PROVE  attempt'[j].status # "none"
<1>1. /\ attempt \in [Jobs -> AttemptRow]
      /\ \A result : Completed(result).status # "none"
  BY DEF TypeOK, Completed, AttemptStatusOf
<1>2. ASSUME NEW r \in Requests, RequestStep(r) \/ AsyncFault(r) \/ CrashRequest(r)
      PROVE  attempt'[j].status # "none"
  <2>1. CASE UNCHANGED attempt
    BY <2>1
  <2>2. CASE AcquireCreate(r) \/ Reclaim(r)
    BY <1>1, <2>2 DEF AcquireCreate, Reclaim, AttemptRow
  <2>3. CASE CompleteAttempt(r)
    BY <1>1, <2>3 DEF CompleteAttempt
  <2>4. QED
    BY <1>2, <2>1, <2>2, <2>3
       DEF RequestStep, LoadState, AcquireExisting, FindUnavailable, UploadSync, OpenSession,
           OpenSessionFails, PersistResult, AsyncFault, CrashRequest, storeVars
<1>3. ASSUME NEW w \in Actors, WorkerStep(w) \/ PollerStep(w) \/ CrashRun(w)
      PROVE  attempt'[j].status # "none"
  <2>1. \/ UNCHANGED attempt
        \/ \E result : attempt' = [attempt EXCEPT ![run[w].job] = Completed(result)]
    BY <1>3
       DEF WorkerStep, PollerStep, TermStep, CrashRun, ExpireStale, ListDead, NextDead, FindDue,
           ClaimDue, EndRun, NextSession, NotReady, ReadState, ReadChunk, ChunkUnreadable,
           PutChunk, Finalize, StopEarly, FailSession, ConfirmSession, CompleteSession,
           RecordSuccess, ReadTermState, ReadTermAttempt, TerminateAttempt, PersistTerminal,
           PollState, PollAttempt, PollSession, storeVars
  <2>2. QED
    BY <1>1, <2>1
<1>4. ASSUME NEW k \in Jobs, AttemptLapses(k) PROVE attempt'[j].status # "none"
  BY <1>1, <1>4 DEF AttemptLapses, AttemptRow
<1>5. QED
  BY <1>2, <1>3, <1>4
     DEF Next, RequestNext, Actors, vars, PatchRead, PatchPut, LeaseLapses, SessionLapses,
         storeVars

\* The steps of a request that do not take the lock.
LEMMA NoLockTaken ==
    ASSUME TypeOK, NEW r \in Requests, RequestStep(r) \/ AsyncFault(r) \/ CrashRequest(r),
           ~AcquireCreate(r), ~Reclaim(r)
    PROVE  /\ req'[r].how = req[r].how
           /\ req'[r].pc \notin {"idle", "held"}
           /\ req'[r].pc \in {"acquire", "reclaim"} => req[r].pc \in {"idle", "acquire"}
           /\ req'[r].pc = "complete"
                => \/ req[r].pc = "held"
                   \/ req[r].pc \in {"complete", "persist"} /\ req[r].how # "none"
<1>1. req \in [Requests -> ReqRow] /\ req[r] \in ReqRow
  BY DEF TypeOK
<1>2. CASE LoadState(r)
  BY <1>1, <1>2 DEF LoadState, ReqRow
<1>3. CASE AcquireExisting(r)
  <2>1. req'[r].how = req[r].how /\ req[r].pc = "acquire"
    <3>1. \/ req' = [req EXCEPT ![r].pc = "persist", ![r].result = attempt[req[r].job].result]
          \/ req' = [req EXCEPT ![r].pc = "reclaim"]
          \/ req' = [req EXCEPT ![r] = Ended(@, "conflict")]
          \/ req' = [req EXCEPT ![r] = Ended(@, "refused")]
      BY <1>3 DEF AcquireExisting
    <3>2. \A pc : Ended(req[r], pc).how = req[r].how
      BY <1>1 DEF Ended, ReqRow
    <3>3. CASE req' = [req EXCEPT ![r].pc = "persist", ![r].result = attempt[req[r].job].result]
      BY <1>1, <1>3, <3>3 DEF AcquireExisting, ReqRow
    <3>4. CASE req' = [req EXCEPT ![r].pc = "reclaim"]
      BY <1>1, <1>3, <3>4 DEF AcquireExisting, ReqRow
    <3>5. QED
      BY <1>1, <1>3, <3>1, <3>2, <3>3, <3>4 DEF AcquireExisting
  <2>2. QED
    BY <1>1, <1>3, <2>1, ExistingCases
<1>4. CASE FindUnavailable(r) \/ UploadSync(r) \/ OpenSession(r) \/ OpenSessionFails(r)
  <2>1. \E result : req' = [req EXCEPT ![r].pc = "complete", ![r].result = result]
    BY <1>4 DEF FindUnavailable, UploadSync, OpenSession, OpenSessionFails
  <2>2. req[r].pc = "held"
    BY <1>4 DEF FindUnavailable, UploadSync, OpenSession, OpenSessionFails
  <2>3. QED
    BY <1>1, <2>1, <2>2 DEF ReqRow
<1>5. CASE CompleteAttempt(r)
  <2>1. req[r].pc = "complete" /\ req' = [req EXCEPT ![r].pc = "persist"]
    BY <1>5 DEF CompleteAttempt
  <2>2. QED
    BY <1>1, <2>1 DEF ReqRow
<1>6. CASE PersistResult(r) \/ CrashRequest(r)
  <2>1. \E pc \in {"done", "crashed"} : req' = [req EXCEPT ![r] = Ended(@, pc)]
    BY <1>6 DEF PersistResult, CrashRequest
  <2>2. \A pc : Ended(req[r], pc).pc = pc /\ Ended(req[r], pc).how = req[r].how
    BY <1>1 DEF Ended, ReqRow
  <2>3. QED
    BY <1>1, <2>1, <2>2
<1>7. CASE AsyncFault(r)
  BY <1>1, <1>7 DEF AsyncFault, ReqRow
<1>8. QED
  BY <1>2, <1>3, <1>4, <1>5, <1>6, <1>7 DEF RequestStep

LEMMA LockTaken ==
    ASSUME TypeOK, NEW r \in Requests, AcquireCreate(r) \/ Reclaim(r)
    PROVE  /\ req[r].pc \in {"acquire", "reclaim"} /\ req'[r].pc = "held"
           /\ req'[r].how \in {"create", "reclaim"}
           /\ req'[r].how = "create" => attempt[req[r].job].status = "none"
           /\ req'[r].how = "reclaim" <=> Reclaim(r)
           /\ UNCHANGED <<session, youtube>>
<1>1. req \in [Requests -> ReqRow] /\ req[r] \in ReqRow
  BY DEF TypeOK
<1>2. CASE AcquireCreate(r)
  <2>1. req[r].pc = "acquire" /\ req' = [req EXCEPT ![r].pc = "held", ![r].how = "create"]
    BY <1>2 DEF AcquireCreate
  <2>2. req'[r].pc = "held" /\ req'[r].how = "create"
    BY <1>1, <2>1 DEF ReqRow
  <2>3. QED
    BY <1>2, <2>1, <2>2 DEF AcquireCreate, Reclaim
<1>3. CASE Reclaim(r)
  <2>1. req[r].pc = "reclaim" /\ req' = [req EXCEPT ![r].pc = "held", ![r].how = "reclaim"]
    BY <1>3 DEF Reclaim
  <2>2. req'[r].pc = "held" /\ req'[r].how = "reclaim"
    BY <1>1, <2>1 DEF ReqRow
  <2>3. QED
    BY <1>3, <2>1, <2>2 DEF Reclaim
<1>4. QED
  BY <1>2, <1>3

LEMMA RequestKeepsLock ==
    ASSUME TypeOK, TypeOK', [Next]_vars, LockSound, NEW r \in Requests,
           RequestStep(r) \/ AsyncFault(r) \/ CrashRequest(r)
    PROVE  LockSound'
<1>1. /\ \A q \in Requests \ {r} : req'[q] = req[q]
      /\ req'[r].job = req[r].job
      /\ \A q \in Requests : req[q].job \in Jobs
  BY RequestJobs DEF TypeOK, ReqRow
<1>2. \A q \in Requests : req'[q].job = req[q].job
  BY <1>1
<1>3. \A q \in Requests : attempt[req[q].job].status # "none"
                            => attempt'[req[q].job].status # "none"
  BY <1>1, AttemptsStay
<1>4. CASE AcquireCreate(r) \/ Reclaim(r)
  <2>1. req'[r].pc = "held" /\ req'[r].how \in {"create", "reclaim"}
    BY <1>4, LockTaken
  <2>2. req'[r].how = "create" => attempt'[req[r].job].status # "none"
    <3>1. attempt \in [Jobs -> AttemptRow]
      BY DEF TypeOK
    <3>2. attempt'[req[r].job].status = "in_flight"
      BY <1>1, <1>4, <3>1 DEF AcquireCreate, Reclaim, AttemptRow
    <3>3. QED
      BY <3>2
  <2>3. \A q \in Requests \ {r} : req'[r].how = "create" /\ req'[q].how = "create"
                                    => req'[r].job # req'[q].job
    BY <1>1, <1>4, LockTaken DEF LockSound
  <2>4. \A q \in Requests :
         /\ req'[q].pc \in {"idle", "acquire", "reclaim"} => req'[q].how = "none"
         /\ req'[q].pc \in {"held", "complete"} => req'[q].how # "none"
         /\ req'[q].how = "create" => attempt'[req'[q].job].status # "none"
    BY <1>1, <1>2, <1>3, <2>1, <2>2 DEF LockSound
  <2>5. \A p, q \in Requests :
         req'[p].how = "create" /\ req'[q].how = "create" /\ req'[p].job = req'[q].job => p = q
    BY <1>1, <2>3 DEF LockSound
  <2>6. QED
    BY <2>4, <2>5 DEF LockSound
<1>5. CASE ~AcquireCreate(r) /\ ~Reclaim(r)
  <2>1. /\ req'[r].how = req[r].how
        /\ req'[r].pc \notin {"idle", "held"}
        /\ req'[r].pc \in {"acquire", "reclaim"} => req[r].pc \in {"idle", "acquire"}
        /\ req'[r].pc = "complete"
             => \/ req[r].pc = "held"
                \/ req[r].pc \in {"complete", "persist"} /\ req[r].how # "none"
    BY <1>5, NoLockTaken
  <2>2. \A q \in Requests : req'[q].how = req[q].how
    BY <1>1, <2>1
  <2>3. /\ req'[r].pc \in {"idle", "acquire", "reclaim"} => req'[r].how = "none"
        /\ req'[r].pc \in {"held", "complete"} => req'[r].how # "none"
    BY <2>1 DEF LockSound
  <2>4. QED
    BY <1>1, <1>2, <1>3, <2>2, <2>3 DEF LockSound
<1>6. QED
  BY <1>4, <1>5

\* One request more, or none: what a step does to the two counts.
LEMMA LockSetsFinite ==
    \A j : IsFiniteSet(Holders(j)) /\ IsFiniteSet(Lockers(j)) /\ IsFiniteSet(Reclaimers(j))
<1> SUFFICES ASSUME NEW j
             PROVE  /\ IsFiniteSet(Holders(j)) /\ IsFiniteSet(Lockers(j))
                    /\ IsFiniteSet(Reclaimers(j))
  OBVIOUS
<1>1. /\ Holders(j) \subseteq Requests /\ Lockers(j) \subseteq Requests
      /\ Reclaimers(j) \subseteq Requests
  BY DEF Holders, Lockers, Reclaimers
<1>2. QED
  BY <1>1, RequestAssumption, FS_Subset

\* A step that takes no lock and makes no video leaves the account as it was.
LEMMA AccountStays ==
    ASSUME TypeOK, TypeOK', VideosLocked, NEW j \in Jobs \ AsyncJobs,
           youtube'[j].videos = youtube[j].videos,
           Holders(j)' \subseteq Holders(j), Lockers(j)' = Lockers(j)
    PROVE  youtube'[j].videos + Cardinality(Holders(j)') <= Cardinality(Lockers(j)')
<1>1. Cardinality(Holders(j)') <= Cardinality(Holders(j))
  BY LockSetsFinite, FS_Subset
<1>2. /\ Cardinality(Holders(j)) \in Nat /\ Cardinality(Holders(j)') \in Nat
      /\ Cardinality(Lockers(j)) \in Nat /\ youtube[j].videos \in Nat
  BY LockSetsFinite, FS_CardinalityType, FS_Subset DEF TypeOK, Channel
<1>3. youtube[j].videos + Cardinality(Holders(j)) <= Cardinality(Lockers(j))
  BY DEF VideosLocked
<1>4. QED
  BY <1>1, <1>2, <1>3

LEMMA RequestKeepsAccount ==
    ASSUME TypeOK, TypeOK', Sound, LockSound, VideosLocked, NEW r \in Requests,
           RequestStep(r) \/ AsyncFault(r) \/ CrashRequest(r)
    PROVE  VideosLocked'
<1> SUFFICES ASSUME NEW j \in Jobs \ AsyncJobs
             PROVE  youtube'[j].videos + Cardinality(Holders(j)') <= Cardinality(Lockers(j)')
  BY DEF VideosLocked
<1>1. /\ \A q \in Requests \ {r} : req'[q] = req[q]
      /\ req'[r].job = req[r].job /\ req[r].job \in Jobs
  BY RequestJobs DEF TypeOK, ReqRow
<1>2. /\ youtube \in [Jobs -> Channel] /\ youtube' \in [Jobs -> Channel]
      /\ req \in [Requests -> ReqRow]
  BY DEF TypeOK
<1>3. /\ Cardinality(Holders(j)) \in Nat /\ Cardinality(Lockers(j)) \in Nat
      /\ youtube[j].videos \in Nat
      /\ youtube[j].videos + Cardinality(Holders(j)) <= Cardinality(Lockers(j))
  BY <1>2, LockSetsFinite, FS_CardinalityType DEF VideosLocked, Channel
<1>4. CASE AcquireCreate(r) \/ Reclaim(r)
  <2>1. /\ req[r].how = "none" /\ req[r].pc # "held"
        /\ req'[r].pc = "held" /\ req'[r].how # "none" /\ youtube' = youtube
    BY <1>4, LockTaken DEF LockSound
  <2>2. CASE req[r].job = j
    <3>1. /\ Holders(j)' = Holders(j) \cup {r} /\ r \notin Holders(j)
          /\ Lockers(j)' = Lockers(j) \cup {r} /\ r \notin Lockers(j)
      BY <1>1, <2>1, <2>2 DEF Holders, Lockers
    <3>2. /\ Cardinality(Holders(j)') = Cardinality(Holders(j)) + 1
          /\ Cardinality(Lockers(j)') = Cardinality(Lockers(j)) + 1
      BY <3>1, LockSetsFinite, FS_AddElement
    <3>3. QED
      BY <1>3, <2>1, <3>2
  <2>3. CASE req[r].job # j
    <3>1. Holders(j)' = Holders(j) /\ Lockers(j)' = Lockers(j)
      BY <1>1, <2>3 DEF Holders, Lockers
    <3>2. QED
      BY <2>1, <3>1, AccountStays
  <2>4. QED
    BY <2>2, <2>3
<1>5. CASE ~AcquireCreate(r) /\ ~Reclaim(r)
  <2>1. req'[r].how = req[r].how /\ req'[r].pc # "held"
    BY <1>5, NoLockTaken
  <2>2. Holders(j)' \subseteq Holders(j) /\ Lockers(j)' = Lockers(j)
    BY <1>1, <2>1 DEF Holders, Lockers
  <2>3. CASE UploadSync(r) /\ req[r].job = j
    <3>1. r \in Holders(j) /\ r \notin Holders(j)'
      BY <2>1, <2>3 DEF UploadSync, Holders
    <3>2. Holders(j)' \subseteq Holders(j) \ {r}
      BY <2>2, <3>1
    <3>3. /\ Cardinality(Holders(j) \ {r}) = Cardinality(Holders(j)) - 1
          /\ IsFiniteSet(Holders(j) \ {r})
      BY <3>1, LockSetsFinite, FS_RemoveElement
    <3>4. /\ Cardinality(Holders(j)') <= Cardinality(Holders(j)) - 1
          /\ Cardinality(Holders(j)') \in Nat
      BY <3>2, <3>3, FS_Subset, FS_CardinalityType
    <3>5. youtube'[j].videos \in {youtube[j].videos, youtube[j].videos + 1}
      BY <1>2, <2>3 DEF UploadSync, Channel
    <3>6. QED
      BY <1>3, <2>2, <3>4, <3>5
  <2>4. CASE ~(UploadSync(r) /\ req[r].job = j)
    <3>1. youtube'[j].videos = youtube[j].videos
      <4>1. CASE UNCHANGED youtube
        BY <4>1
      <4>2. CASE UploadSync(r)
        BY <1>1, <1>2, <2>4, <4>2 DEF UploadSync
      <4>3. CASE OpenSession(r)
        BY <1>1, <1>2, <4>3 DEF OpenSession
      <4>4. QED
        BY <1>5, <4>1, <4>2, <4>3
           DEF RequestStep, LoadState, AcquireExisting, FindUnavailable, OpenSessionFails,
               CompleteAttempt, PersistResult, AsyncFault, CrashRequest, storeVars
    <3>2. QED
      BY <2>2, <3>1, AccountStays
  <2>5. QED
    BY <2>3, <2>4
<1>6. QED
  BY <1>4, <1>5

\* A run writes no request, and uploads only where there is a session.
LEMMA RunLeavesSync ==
    ASSUME TypeOK, Sound, NEW w \in Actors, WorkerStep(w) \/ PollerStep(w) \/ CrashRun(w)
    PROVE  /\ UNCHANGED req
           /\ \A j \in Jobs \ AsyncJobs : youtube'[j] = youtube[j]
<1>1. UNCHANGED req
  BY DEF WorkerStep, PollerStep, TermStep, CrashRun, ExpireStale, ListDead, NextDead, FindDue,
         ClaimDue, EndRun, NextSession, NotReady, ReadState, ReadChunk, ChunkUnreadable,
         PutChunk, Finalize, StopEarly, FailSession, ConfirmSession, CompleteSession,
         RecordSuccess, ReadTermState, ReadTermAttempt, TerminateAttempt, PersistTerminal,
         PollState, PollAttempt, PollSession, UnchangedByWorker
<1>2. UNCHANGED youtube \/ PutChunk(w)
  BY DEF WorkerStep, PollerStep, TermStep, CrashRun, ExpireStale, ListDead, NextDead, FindDue,
         ClaimDue, EndRun, NextSession, NotReady, ReadState, ReadChunk, ChunkUnreadable,
         Finalize, StopEarly, FailSession, ConfirmSession, CompleteSession,
         RecordSuccess, ReadTermState, ReadTermAttempt, TerminateAttempt, PersistTerminal,
         PollState, PollAttempt, PollSession, storeVars
<1>3. CASE PutChunk(w)
  <2>1. /\ run[w].job \in Jobs /\ run[w].pc = "put"
        /\ \E ch : youtube' = [youtube EXCEPT ![run[w].job] = ch]
    BY <1>3 DEF PutChunk, TypeOK, RunRow
  <2>2. session[run[w].job].status # "none"
    BY <2>1 DEF Sound, RunSound, RunTracks, SessionPcs
  <2>3. run[w].job \in AsyncJobs
    BY <2>1, <2>2 DEF Sound, StoreSound, SessionSound
  <2>4. QED
    BY <1>1, <2>1, <2>3 DEF TypeOK
<1>4. QED
  BY <1>1, <1>2, <1>3

LEMMA LockStays ==
    ASSUME TypeOK, TypeOK', [Next]_vars, LockSound, VideosLocked, UNCHANGED req,
           \A j \in Jobs \ AsyncJobs : youtube'[j] = youtube[j]
    PROVE  LockSound' /\ VideosLocked'
<1>1. \A r \in Requests : req[r].job \in Jobs
  BY DEF TypeOK, ReqRow
<1>2. LockSound'
  BY <1>1, AttemptsStay DEF LockSound
<1>3. \A j \in Jobs \ AsyncJobs :
        youtube'[j].videos + Cardinality(Holders(j)') <= Cardinality(Lockers(j)')
  BY DEF VideosLocked, Holders, Lockers
<1>4. QED
  BY <1>2, <1>3 DEF VideosLocked

LEMMA LockAlways == Spec => [](LockSound /\ VideosLocked)
<1>1. Init => LockSound /\ VideosLocked
  <2> SUFFICES ASSUME Init PROVE LockSound /\ VideosLocked
    OBVIOUS
  <2>1. \A r \in Requests : req[r].pc = "idle" /\ req[r].how = "none"
    BY DEF Init, RequestInit
  <2>2. \A j \in Jobs : Holders(j) = {} /\ Lockers(j) = {} /\ youtube[j].videos = 0
    BY <2>1 DEF Holders, Lockers, Init, RequestInit, NewChannel
  <2>3. VideosLocked
    BY <2>2, FS_EmptySet DEF VideosLocked
  <2>4. QED
    BY <2>1, <2>3 DEF LockSound
<1>2. TypeOK /\ TypeOK' /\ Sound /\ LockSound /\ VideosLocked /\ [Next]_vars
        => LockSound' /\ VideosLocked'
  <2> SUFFICES ASSUME TypeOK, TypeOK', Sound, LockSound, VideosLocked, [Next]_vars
               PROVE  LockSound' /\ VideosLocked'
    OBVIOUS
  <2>1. CASE \E r \in Requests : RequestStep(r) \/ AsyncFault(r) \/ CrashRequest(r)
    BY <2>1, RequestKeepsLock, RequestKeepsAccount
  <2>2. CASE \E w \in Actors : WorkerStep(w) \/ PollerStep(w) \/ CrashRun(w)
    BY <2>2, RunLeavesSync, LockStays
  <2>3. CASE UNCHANGED <<req, youtube>>
    BY <2>3, LockStays
  <2>4. QED
    BY <2>1, <2>2, <2>3
       DEF Next, RequestNext, Actors, vars, PatchRead, PatchPut, AttemptLapses, LeaseLapses,
           SessionLapses, storeVars, UnchangedByWorker
<1>3. QED
  BY <1>1, <1>2, TypeCorrect, SoundAlways, PTL DEF Spec

\* A synchronous publish makes as many videos as there were requests that took
\* the lock, and all of them but one took it by a reclaim (acquireAttemptLock):
\* for any number of requests, jobs and overlapping runs.
THEOREM DuplicatesAreReclaims == Spec => []DuplicateNeedsReclaim
<1>1. TypeOK /\ LockSound /\ VideosLocked => DuplicateNeedsReclaim
  <2> SUFFICES ASSUME TypeOK, LockSound, VideosLocked, NEW j \in Jobs \ AsyncJobs
               PROVE  youtube[j].videos <= 1 + Cardinality(Reclaimers(j))
    BY DEF DuplicateNeedsReclaim
  <2>1. /\ Cardinality(Holders(j)) \in Nat /\ Cardinality(Lockers(j)) \in Nat
        /\ Cardinality(Reclaimers(j)) \in Nat /\ youtube[j].videos \in Nat
    BY LockSetsFinite, FS_CardinalityType DEF TypeOK, Channel
  <2>2. \A r \in Requests : req[r].how \in {"none", "create", "reclaim"}
    BY DEF TypeOK, ReqRow
  <2>3. \E S : /\ Lockers(j) \subseteq S /\ IsFiniteSet(S)
               /\ Cardinality(S) <= Cardinality(Reclaimers(j)) + 1
    <3>1. CASE Creators(j) = {}
      <4>1. Lockers(j) \subseteq Reclaimers(j)
        BY <2>2, <3>1 DEF Lockers, Creators, Reclaimers
      <4>2. QED
        BY <2>1, <4>1, LockSetsFinite
    <3>2. CASE \E r : r \in Creators(j)
      <4>1. PICK r : r \in Creators(j)
        BY <3>2
      <4>2. Lockers(j) \subseteq Reclaimers(j) \cup {r}
        BY <2>2, <4>1 DEF Lockers, Creators, Reclaimers, LockSound
      <4>3. r \notin Reclaimers(j)
        BY <4>1 DEF Creators, Reclaimers
      <4>4. /\ IsFiniteSet(Reclaimers(j) \cup {r})
            /\ Cardinality(Reclaimers(j) \cup {r}) = Cardinality(Reclaimers(j)) + 1
        BY <4>3, LockSetsFinite, FS_AddElement
      <4>5. QED
        BY <2>1, <4>2, <4>4
    <3>3. QED
      BY <3>1, <3>2
  <2>4. Cardinality(Lockers(j)) <= Cardinality(Reclaimers(j)) + 1
    BY <2>1, <2>3, FS_Subset, FS_CardinalityType
  <2>5. youtube[j].videos + Cardinality(Holders(j)) <= Cardinality(Lockers(j))
    BY DEF VideosLocked
  <2>6. QED
    BY <2>1, <2>4, <2>5
<1>2. QED
  BY <1>1, TypeCorrect, LockAlways, PTL

-----------------------------------------------------------------------------
(* A recorded success.  The runs of the worker may overwrite one (see the    *)
(* property SuccessIsFinal); requests do it only with a reclaimed lock.      *)

\* No run or status read writes an attempt row.
RunsLeaveAttempts == run' # run => UNCHANGED attempt

LEMMA RunsChangeRun ==
    ASSUME TypeOK, NEW w \in Actors, WorkerStep(w) \/ PollerStep(w) \/ CrashRun(w),
           NEW j \in Jobs, run' # run => attempt'[j] = attempt[j]
    PROVE  attempt'[j] = attempt[j]
<1>1. run \in [Actors -> RunRow] /\ run[w] \in RunRow
  BY DEF TypeOK
<1>2. CASE RecordSuccess(w)
  <2>1. run[w].pc = "completeAttempt" /\ run'[w].pc = "terminate"
    BY <1>1, <1>2 DEF RecordSuccess, RunRow
  <2>2. QED
    BY <2>1
<1>3. CASE TerminateAttempt(w)
  <2>1. run[w].pc = "terminate" /\ run[w].back \in {"idle", "reconcile", "claim"}
    BY <1>1, <1>3 DEF TerminateAttempt, RunRow
  <2>2. Resumed(run[w]).pc = run[w].back
    BY DEF Resumed, IdleRun
  <2>3. run'[w].pc # "terminate"
    BY <1>1, <1>3, <2>1, <2>2 DEF TerminateAttempt, RunRow
  <2>4. QED
    BY <2>1, <2>3 
<1>4. QED
  BY <1>2, <1>3
     DEF WorkerStep, PollerStep, TermStep, CrashRun, ExpireStale, ListDead, NextDead, FindDue,
         ClaimDue, EndRun, NextSession, NotReady, ReadState, ReadChunk, ChunkUnreadable,
         PutChunk, Finalize, StopEarly, FailSession, ConfirmSession, CompleteSession,
         ReadTermState, ReadTermAttempt, PersistTerminal,
         PollState, PollAttempt, PollSession, storeVars

\* A request comes to work by taking the lock only.
LEMMA ComesToWork ==
    ASSUME TypeOK, LockSound, NEW r \in Requests,
           RequestStep(r) \/ AsyncFault(r) \/ CrashRequest(r),
           ~AcquireCreate(r), ~Reclaim(r), AtWork(r)'
    PROVE  AtWork(r)
<1>1. req \in [Requests -> ReqRow] /\ req[r] \in ReqRow
  BY DEF TypeOK
<1>2. CASE LoadState(r)
  <2>1. req'[r].pc \in {"done", "acquire"}
    BY <1>1, <1>2 DEF LoadState, ReqRow
  <2>2. QED
    BY <2>1 DEF AtWork
<1>3. CASE AcquireExisting(r)
  <2>1. req[r].pc = "acquire" /\ req'[r].pc \notin {"held", "complete"}
    BY <1>1, <1>3, ExistingCases DEF AcquireExisting
  <2>2. req'[r].how = "none"
    BY <2>1, NoLockTaken DEF LockSound
  <2>3. QED
    BY <2>1, <2>2 DEF AtWork
<1>4. CASE \/ FindUnavailable(r) \/ UploadSync(r) \/ OpenSession(r) \/ OpenSessionFails(r)
           \/ CompleteAttempt(r) \/ AsyncFault(r)
  BY <1>4 DEF FindUnavailable, UploadSync, OpenSession, OpenSessionFails, CompleteAttempt,
              AsyncFault, AtWork
<1>5. CASE PersistResult(r) \/ CrashRequest(r)
  <2>1. \E pc \in {"done", "crashed"} : req' = [req EXCEPT ![r] = Ended(@, pc)]
    BY <1>5 DEF PersistResult, CrashRequest
  <2>2. \A pc : Ended(req[r], pc).pc = pc
    BY <1>1 DEF Ended, ReqRow
  <2>3. req'[r].pc \in {"done", "crashed"}
    BY <1>1, <2>1, <2>2
  <2>4. QED
    BY <2>3 DEF AtWork
<1>6. QED
  BY <1>2, <1>3, <1>4, <1>5 DEF RequestStep

\* What becomes of an attempt row.
LEMMA AttemptWrites ==
    ASSUME TypeOK, NEW r \in Requests, RequestStep(r) \/ AsyncFault(r) \/ CrashRequest(r),
           NEW j \in Jobs, attempt'[j] # attempt[j]
    PROVE  /\ req[r].job = j
           /\ \/ AcquireCreate(r) \/ Reclaim(r)
              \/ /\ CompleteAttempt(r)
                 /\ attempt'[j] = Completed(req[r].result)
                 /\ req'[r].pc = "persist" /\ req'[r].result = req[r].result
           /\ attempt'[j].status = "succeeded"
                => CompleteAttempt(r) /\ req[r].result.status = "published"
<1>1. /\ attempt \in [Jobs -> AttemptRow] /\ req \in [Requests -> ReqRow]
      /\ req[r] \in ReqRow
  BY DEF TypeOK
<1>2. CASE AcquireCreate(r) \/ Reclaim(r)
  <2>1. req[r].job = j
    BY <1>1, <1>2 DEF AcquireCreate, Reclaim
  <2>2. attempt'[j].status = "in_flight"
    BY <1>1, <1>2, <2>1 DEF AcquireCreate, Reclaim, AttemptRow
  <2>3. QED
    BY <1>2, <2>1, <2>2
<1>3. CASE CompleteAttempt(r)
  <2>1. req[r].job = j /\ attempt'[j] = Completed(req[r].result)
    BY <1>1, <1>3 DEF CompleteAttempt
  <2>2. req'[r].pc = "persist" /\ req'[r].result = req[r].result
    <3>1. req' = [req EXCEPT ![r].pc = "persist"]
      BY <1>3 DEF CompleteAttempt
    <3>2. QED
      BY <1>1, <3>1 DEF ReqRow
  <2>3. attempt'[j].status = "succeeded" => req[r].result.status = "published"
    BY <1>1, <2>1 DEF Completed, AttemptStatusOf
  <2>4. QED
    BY <1>3, <2>1, <2>2, <2>3
<1>4. CASE UNCHANGED attempt
  BY <1>4
<1>5. QED
  BY <1>2, <1>3, <1>4
     DEF RequestStep, LoadState, AcquireExisting, FindUnavailable, UploadSync, OpenSession,
         OpenSessionFails, PersistResult, AsyncFault, CrashRequest, storeVars

\* Who took the lock is not forgotten.
LEMMA LockersStay ==
    ASSUME TypeOK, LockSound, NEW r \in Requests,
           RequestStep(r) \/ AsyncFault(r) \/ CrashRequest(r), NEW j \in Jobs
    PROVE  /\ Reclaimers(j) # {} => Reclaimers(j)' # {}
           /\ Reclaim(r) /\ req[r].job = j => Reclaimers(j)' # {}
<1>1. /\ \A q \in Requests \ {r} : req'[q] = req[q]
      /\ req'[r].job = req[r].job
  BY RequestJobs
<1>2. req[r].how = "reclaim" => req'[r].how = "reclaim"
  BY NoLockTaken, LockTaken DEF LockSound
<1>3. Reclaim(r) => req'[r].how = "reclaim"
  BY LockTaken
<1>4. QED
  BY <1>1, <1>2, <1>3 DEF Reclaimers

LEMMA RequestKeepsRest ==
    ASSUME TypeOK, TypeOK', [Next]_vars, LockSound, NEW r \in Requests,
           RequestStep(r) \/ AsyncFault(r) \/ CrashRequest(r),
           NEW j \in Jobs, SuccessAtRest(j)
    PROVE  SuccessAtRest(j)'
<1> SUFFICES ASSUME attempt'[j].status = "succeeded", Reclaimers(j)' = {},
                    NEW q \in Requests, req'[q].job = j, AtWork(q)'
             PROVE  FALSE
  BY DEF SuccessAtRest
<1>1. /\ \A p \in Requests \ {r} : req'[p] = req[p]
      /\ req'[r].job = req[r].job
  BY RequestJobs
<1>2. req[q].job = j /\ Reclaimers(j) = {}
  BY <1>1, LockersStay
<1>3. q # r => AtWork(q)
  BY <1>1 DEF AtWork
<1>4. CASE attempt'[j] = attempt[j]
  <2>1. ~AtWork(q)
    BY <1>2, <1>4 DEF SuccessAtRest
  <2>2. q = r /\ (AcquireCreate(r) \/ Reclaim(r))
    BY <1>3, <2>1, ComesToWork
  <2>3. attempt'[j].status = "in_flight"
    BY <1>2, <2>2 DEF TypeOK, AcquireCreate, Reclaim, AttemptRow
  <2>4. QED
    BY <2>3
<1>5. CASE attempt'[j] # attempt[j]
  <2>1. /\ CompleteAttempt(r) /\ req[r].job = j /\ req[r].result.status = "published"
        /\ req'[r].pc = "persist" /\ req'[r].result = req[r].result
    <3>1. CompleteAttempt(r) /\ req[r].job = j /\ req[r].result.status = "published"
      BY <1>5, AttemptWrites
    <3>2. ~AcquireCreate(r) /\ ~Reclaim(r)
      BY <3>1 DEF CompleteAttempt, AcquireCreate, Reclaim
    <3>3. QED
      BY <1>5, <3>1, <3>2, AttemptWrites
  <2>2. q # r
    <3>1. ~AtWork(r)'
      BY <2>1 DEF AtWork, Uploading
    <3>2. QED
      BY <3>1
  <2>3. req[q].how # "none" /\ req[r].how # "none"
    BY <1>3, <2>1, <2>2 DEF LockSound, AtWork, CompleteAttempt
  <2>4. \A p \in Requests : req[p].job = j => req[p].how # "reclaim"
    BY <1>2 DEF Reclaimers
  <2>5. req[q].how = "create" /\ req[r].how = "create"
    BY <1>2, <2>1, <2>3, <2>4 DEF TypeOK, ReqRow
  <2>6. QED
    BY <1>2, <2>1, <2>2, <2>5 DEF LockSound
<1>6. QED
  BY <1>4, <1>5

LEMMA RestStays ==
    ASSUME NEW j \in Jobs, SuccessAtRest(j), UNCHANGED req,
           attempt'[j].status = attempt[j].status
    PROVE  SuccessAtRest(j)' /\ ~SuccessUndone(j)
BY DEF SuccessAtRest, Reclaimers, AtWork, SuccessUndone

\* A recorded success of j is undone by a request only, and by none that works with
\* the lock as it was created, as long as no run writes the attempt.
LEMMA SuccessStep ==
    ASSUME TypeOK, TypeOK', Sound, LockSound, [Next]_vars, NEW j \in Jobs,
           run' # run => attempt'[j] = attempt[j], SuccessAtRest(j)
    PROVE  SuccessAtRest(j)' /\ (SuccessUndone(j) => Reclaimers(j)' # {})
<1>1. ASSUME NEW r \in Requests, RequestStep(r) \/ AsyncFault(r) \/ CrashRequest(r)
      PROVE  SuccessAtRest(j)' /\ (SuccessUndone(j) => Reclaimers(j)' # {})
  <2>1. ASSUME SuccessUndone(j) PROVE Reclaimers(j)' # {}
    <3>1. /\ attempt[j].status = "succeeded" /\ attempt'[j] # attempt[j]
      BY <2>1 DEF SuccessUndone
    <3>2. req[r].job = j /\ (AcquireCreate(r) \/ Reclaim(r) \/ CompleteAttempt(r))
      BY <1>1, <3>1, AttemptWrites
    <3>3. CASE AcquireCreate(r)
      BY <3>1, <3>2, <3>3 DEF AcquireCreate
    <3>4. CASE Reclaim(r)
      BY <1>1, <3>2, <3>4, LockersStay
    <3>5. CASE CompleteAttempt(r)
      <4>1. AtWork(r)
        BY <3>5 DEF CompleteAttempt, AtWork
      <4>2. Reclaimers(j) # {}
        BY <3>1, <3>2, <4>1 DEF SuccessAtRest
      <4>3. QED
        BY <1>1, <4>2, LockersStay
    <3>6. QED
      BY <3>2, <3>3, <3>4, <3>5
  <2>2. QED
    BY <1>1, <2>1, RequestKeepsRest
<1>2. CASE UNCHANGED <<req, attempt>>
  BY <1>2, RestStays
<1>3. CASE \E w \in Actors : WorkerStep(w) \/ PollerStep(w) \/ CrashRun(w)
  <2>1. UNCHANGED req
    BY <1>3, RunLeavesSync
  <2>2. attempt'[j] = attempt[j]
    BY <1>3, RunsChangeRun
  <2>3. QED
    BY <2>1, <2>2, RestStays
<1>4. ASSUME NEW k \in Jobs, AttemptLapses(k)
      PROVE  SuccessAtRest(j)' /\ (SuccessUndone(j) => Reclaimers(j)' # {})
  <2>1. UNCHANGED req /\ attempt'[j].status = attempt[j].status
    BY <1>4 DEF AttemptLapses, TypeOK, AttemptRow
  <2>2. QED
    BY <2>1, RestStays
<1>5. QED
  BY <1>1, <1>2, <1>3, <1>4
     DEF Next, RequestNext, Actors, vars, PatchRead, PatchPut, LeaseLapses, SessionLapses,
         storeVars, UnchangedByWorker

LEMMA InitAtRest == Init => \A j \in Jobs : SuccessAtRest(j)
BY DEF Init, RequestInit, NoAttempt, SuccessAtRest

\* Unless a run or a status read writes the attempt, a recorded success is undone
\* only by a request of the job, and only once the lock was reclaimed
\* (evaluateExistingAttempt hands out no row that succeeded): for any number of
\* requests and jobs, asynchronous ones too.
THEOREM SuccessNeedsReclaim ==
    Spec /\ [][RunsLeaveAttempts]_vars => SuccessUndoneByReclaim
<1> DEFINE Rest == \A j \in Jobs : SuccessAtRest(j)
           Undoing == \A j \in Jobs : SuccessUndone(j) => Reclaimers(j)' # {}
<1>1. Init => Rest
  BY InitAtRest
<1>2. TypeOK /\ TypeOK' /\ Sound /\ LockSound /\ Rest
        /\ [Next]_vars /\ [RunsLeaveAttempts]_vars
        => Rest' /\ [Undoing]_vars
  <2> SUFFICES ASSUME TypeOK, TypeOK', Sound, LockSound, Rest,
                      [Next]_vars, [RunsLeaveAttempts]_vars, NEW j \in Jobs
               PROVE  SuccessAtRest(j)' /\ (SuccessUndone(j) => Reclaimers(j)' # {})
    OBVIOUS
  <2>1. run' # run => attempt'[j] = attempt[j]
    BY DEF RunsLeaveAttempts, vars, storeVars
  <2>2. QED
    BY <2>1, SuccessStep
<1>3. QED
  BY <1>1, <1>2, TypeCorrect, SoundAlways, LockAlways, PTL DEF Spec, SuccessUndoneByReclaim

-----------------------------------------------------------------------------
(* Runs and status reads settle only jobs that have an upload session, so   *)
(* the attempt of a synchronous job is the requests' alone.                 *)

LEMMA SessionIsAsync ==
    ASSUME Sound, NEW j \in Jobs, session[j].status # "none"
    PROVE  j \in AsyncJobs
BY DEF Sound, StoreSound, SessionSound

LEMMA RunWritesUploads ==
    ASSUME TypeOK, RunsOnUploads, NEW w \in Actors,
           WorkerStep(w) \/ PollerStep(w) \/ CrashRun(w),
           NEW j \in Jobs \ AsyncJobs
    PROVE  attempt'[j] = attempt[j]
<1>1. attempt \in [Jobs -> AttemptRow] /\ run[w].job \in Jobs
  BY DEF TypeOK, RunRow
<1>2. CASE RecordSuccess(w) \/ TerminateAttempt(w)
  <2>1. run[w].job \in AsyncJobs
    BY <1>2 DEF RunsOnUploads, OnUpload, AfterUpload, RecordSuccess, TerminateAttempt
  <2>2. \/ UNCHANGED attempt
        \/ \E row : attempt' = [attempt EXCEPT ![run[w].job] = row]
    BY <1>2 DEF RecordSuccess, TerminateAttempt
  <2>3. QED
    BY <1>1, <2>1, <2>2
<1>3. QED
  BY <1>2
     DEF WorkerStep, PollerStep, TermStep, CrashRun, ExpireStale, ListDead, NextDead, FindDue,
         ClaimDue, EndRun, NextSession, NotReady, ReadState, ReadChunk, ChunkUnreadable,
         PutChunk, Finalize, StopEarly, FailSession, ConfirmSession, CompleteSession,
         ReadTermState, ReadTermAttempt, PersistTerminal,
         PollState, PollAttempt, PollSession, storeVars

LEMMA RunStaysOnUploads ==
    ASSUME TypeOK, Sound, RunsOnUploads, NEW w \in Actors,
           WorkerStep(w) \/ PollerStep(w) \/ CrashRun(w)
    PROVE  RunsOnUploads'
<1> USE DEF OnUpload, AfterUpload
<1>1. /\ run \in [Actors -> RunRow] /\ run[w] \in RunRow /\ OnUpload(run[w])
      /\ run[w].back \in {"idle", "reconcile", "claim"}
  BY DEF TypeOK, RunRow, RunsOnUploads
<1>2. run[w].pc \in SessionPcs => run[w].job \in AsyncJobs
  <2>1. run[w].job \in Jobs
    BY <1>1 DEF RunRow
  <2>2. run[w].pc \in SessionPcs => session[run[w].job].status # "none"
    BY DEF Sound, RunSound, RunTracks
  <2>3. QED
    BY <2>1, <2>2, SessionIsAsync
<1>3. OnUpload(Resumed(run[w])) /\ OnUpload(IdleRun)
  BY <1>1 DEF Resumed, IdleRun
<1>4. \A a \in Actors \ {w} : run'[a] = run[a]
  BY <1>1
     DEF WorkerStep, PollerStep, TermStep, CrashRun, ExpireStale, ListDead, NextDead, FindDue,
         ClaimDue, EndRun, NextSession, NotReady, ReadState, ReadChunk, ChunkUnreadable,
         PutChunk, Finalize, StopEarly, FailSession, ConfirmSession, CompleteSession,
         RecordSuccess, ReadTermState, ReadTermAttempt, TerminateAttempt, PersistTerminal,
         PollState, PollAttempt, PollSession, storeVars
<1>5. OnUpload(run'[w])
  <2>1. CASE ListDead(w)
    <3> DEFINE S == {[job |-> j, reason |-> session[j].reason] :
                       j \in Oldest({k \in Jobs : Dead(session[k])}, Limit)}
    <3>1. ASSUME NEW s \in S PROVE s.job \in AsyncJobs
      <4>1. PICK j \in Oldest({k \in Jobs : Dead(session[k])}, Limit) :
                s = [job |-> j, reason |-> session[j].reason]
        BY <3>1
      <4>2. j \in Jobs /\ Dead(session[j])
        BY <4>1 DEF Oldest
      <4>3. j \in AsyncJobs
        BY <4>2, SessionIsAsync DEF Dead
      <4>4. QED
        BY <4>1, <4>3
    <3>2. run'[w].listed = S /\ run'[w].pc = "reconcile"
      BY <1>1, <2>1 DEF ListDead, RunRow
    <3>3. QED
      BY <3>1, <3>2
  <2>2. CASE NextDead(w)
    BY <1>1, <2>2 DEF NextDead, RunRow
  <2>3. CASE PollSession(w)
    <3>1. Dead(session[run[w].job]) => run[w].job \in AsyncJobs
      BY <1>1, SessionIsAsync DEF Dead, RunRow
    <3>2. QED
      BY <1>1, <1>3, <2>3, <3>1 DEF PollSession, RunRow
  <2>4. CASE PollState(w)
    BY <1>1, <2>4 DEF PollState, IdleRun
  <2>5. CASE \/ EndRun(w) \/ StopEarly(w) \/ ConfirmSession(w) \/ PersistTerminal(w)
             \/ CrashRun(w)
    BY <1>1, <1>3, <2>5 DEF EndRun, StopEarly, ConfirmSession, PersistTerminal, CrashRun
  <2>6. CASE TerminateAttempt(w)
    BY <1>1, <1>3, <2>6 DEF TerminateAttempt, RunRow
  <2>7. CASE NextSession(w)
    <3>1. run'[w].listed = run[w].listed /\ run'[w].pc \in {"confirm", "asset"}
      BY <1>1, <2>7 DEF NextSession, RunRow
    <3>2. QED
      BY <1>1, <3>1
  <2>8. CASE ExpireStale(w) \/ FindDue(w) \/ ClaimDue(w) \/ ReadState(w) \/ ReadChunk(w)
             \/ PollAttempt(w)
    <3>1. run'[w].listed = run[w].listed /\ run'[w].pc \notin AfterUpload
      <4>1. CASE ExpireStale(w)
        BY <1>1, <4>1 DEF ExpireStale, RunRow
      <4>2. CASE FindDue(w)
        BY <1>1, <4>2 DEF FindDue, RunRow
      <4>3. CASE ClaimDue(w)
        BY <1>1, <4>3 DEF ClaimDue, RunRow, ClaimsEnded
      <4>4. CASE ReadState(w)
        BY <1>1, <4>4 DEF ReadState, RunRow
      <4>5. CASE ReadChunk(w)
        BY <1>1, <4>5 DEF ReadChunk, RunRow
      <4>6. CASE PollAttempt(w)
        BY <1>1, <4>6 DEF PollAttempt, RunRow
      <4>7. QED
        BY <2>8, <4>1, <4>2, <4>3, <4>4, <4>5, <4>6
    <3>2. QED
      BY <1>1, <3>1
  <2>9. CASE NotReady(w) \/ ChunkUnreadable(w) \/ PutChunk(w) \/ Finalize(w)
             \/ FailSession(w) \/ CompleteSession(w)
    <3>1. run[w].job \in AsyncJobs
      BY <1>2, <2>9 DEF SessionPcs, NotReady, ChunkUnreadable, PutChunk, Finalize, FailSession,
                        CompleteSession
    <3>2. run'[w].listed = run[w].listed /\ run'[w].job = run[w].job
      <4>. \A pc, result : /\ Leave(run[w], pc, result).listed = run[w].listed
                           /\ Leave(run[w], pc, result).job = run[w].job
        BY <1>1 DEF Leave, RunRow
      <4>1. CASE NotReady(w)
        BY <1>1, <4>1 DEF NotReady, RunRow
      <4>2. CASE ChunkUnreadable(w)
        BY <1>1, <4>2 DEF ChunkUnreadable, RunRow
      <4>3. CASE PutChunk(w)
        BY <1>1, <4>3 DEF PutChunk, RunRow
      <4>4. CASE Finalize(w)
        BY <1>1, <4>4 DEF Finalize, RunRow
      <4>5. CASE FailSession(w)
        BY <1>1, <4>5 DEF FailSession, RunRow
      <4>6. CASE CompleteSession(w)
        BY <1>1, <4>6 DEF CompleteSession, RunRow
      <4>7. QED
        BY <2>9, <4>1, <4>2, <4>3, <4>4, <4>5, <4>6
    <3>3. QED
      BY <1>1, <3>1, <3>2
  <2>10. CASE RecordSuccess(w) \/ ReadTermState(w) \/ ReadTermAttempt(w)
    <3>1. run[w].job \in AsyncJobs
      BY <1>1, <2>10 DEF RecordSuccess, ReadTermState, ReadTermAttempt
    <3>2. run'[w].listed = run[w].listed /\ run'[w].job = run[w].job
      BY <1>1, <2>10 DEF RecordSuccess, ReadTermState, ReadTermAttempt, RunRow
    <3>3. QED
      BY <1>1, <3>1, <3>2
  <2>11. QED
    BY <2>1, <2>2, <2>3, <2>4, <2>5, <2>6, <2>7, <2>8, <2>9, <2>10
       DEF WorkerStep, PollerStep, TermStep
<1>6. QED
  BY <1>4, <1>5 DEF RunsOnUploads

LEMMA OnUploadsAlways == Spec => []RunsOnUploads
<1>1. Init => RunsOnUploads
  BY DEF Init, RunsOnUploads, OnUpload, AfterUpload, IdleRun
<1>2. TypeOK /\ Sound /\ RunsOnUploads /\ [Next]_vars => RunsOnUploads'
  <2> SUFFICES ASSUME TypeOK, Sound, RunsOnUploads, [Next]_vars PROVE RunsOnUploads'
    OBVIOUS
  <2>1. CASE \E w \in Actors : WorkerStep(w) \/ PollerStep(w) \/ CrashRun(w)
    BY <2>1, RunStaysOnUploads
  <2>2. CASE UNCHANGED run
    BY <2>2 DEF RunsOnUploads
  <2>3. QED
    BY <2>1, <2>2 DEF Next, Actors, vars, LeaseLapses, SessionLapses
<1>3. QED
  BY <1>1, <1>2, TypeCorrect, SoundAlways, PTL DEF Spec

\* A recorded success of a synchronous job is undone only once its lock was
\* reclaimed, whatever runs, status reads and other jobs there are beside it.
THEOREM SyncSuccessNeedsReclaim ==
    Spec => [][\A j \in Jobs \ AsyncJobs : SuccessUndone(j) => Reclaimers(j)' # {}]_vars
<1> DEFINE Rest == \A j \in Jobs \ AsyncJobs : SuccessAtRest(j)
           Undoing == \A j \in Jobs \ AsyncJobs : SuccessUndone(j) => Reclaimers(j)' # {}
<1>1. Init => Rest
  BY InitAtRest
<1>2. TypeOK /\ TypeOK' /\ Sound /\ LockSound /\ RunsOnUploads /\ Rest /\ [Next]_vars
        => Rest' /\ [Undoing]_vars
  <2> SUFFICES ASSUME TypeOK, TypeOK', Sound, LockSound, RunsOnUploads, Rest, [Next]_vars,
                      NEW j \in Jobs \ AsyncJobs
               PROVE  SuccessAtRest(j)' /\ (SuccessUndone(j) => Reclaimers(j)' # {})
    OBVIOUS
  <2>1. run' # run => attempt'[j] = attempt[j]
    BY RunWritesUploads DEF Next, RequestNext, Actors, vars, LeaseLapses, SessionLapses
  <2>2. QED
    BY <2>1, SuccessStep
<1>3. QED
  BY <1>1, <1>2, TypeCorrect, SoundAlways, LockAlways, OnUploadsAlways, PTL DEF Spec

\* Where every job is synchronous, as in the run, nothing more is asked: among
\* requests a success is undone only once the lock was reclaimed.
THEOREM AmongRequests == AsyncJobs = {} /\ Spec => SuccessUndoneByReclaim
<1> DEFINE SyncUndoing == \A j \in Jobs \ AsyncJobs : SuccessUndone(j) => Reclaimers(j)' # {}
           Undoing == \A j \in Jobs : SuccessUndone(j) => Reclaimers(j)' # {}
<1>1. AsyncJobs = {} => [](AsyncJobs = {})
  OBVIOUS
<1>2. AsyncJobs = {} /\ [SyncUndoing]_vars => [Undoing]_vars
  OBVIOUS
<1>3. QED
  BY <1>1, <1>2, SyncSuccessNeedsReclaim, PTL DEF SuccessUndoneByReclaim
=============================================================================
