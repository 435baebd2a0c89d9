----------------------------- MODULE MediaJobs -----------------------------
(***************************************************************************)
(* The media jobs: MediaService and MediaJobStore.  An image tool submits  *)
(* a job and waits for its end, a video tool gets the id at once.  A job   *)
(* is queued, runs when its kind has a free slot, posts its request to the *)
(* core gateway, polls it if it is a video, and downloads the result.      *)
(*                                                                         *)
(* The store changes a job in memory and then writes all jobs to a file;   *)
(* the write may throw, and then memory is ahead of the file.  A video     *)
(* whose request id is stored is resumed after a restart; every other job  *)
(* that was not finished fails then, and is not posted by a second run.    *)
(*                                                                         *)
(* GatewayService calls start() and stop() one after the other.  It ends   *)
(* the core gateway before it stops this service, and starts this service  *)
(* before it spawns the core gateway.                                      *)
(*                                                                         *)
(* A handler, and a run between two awaits, is one step.  The id of a job  *)
(* is the call that created it.                                            *)
(***************************************************************************)
EXTENDS Integers, Sequences, FiniteSets, SequencesExt, Sublists

CONSTANTS Images, Videos, \* calls of the image tools, and of videoStart
          None,
          Key,            \* the idempotency key of a call, or None
          MaxImages,      \* maxImageConcurrency
          MaxVideos,      \* maxVideoConcurrency
          Attempts,       \* mediaModelAttempts(plan).length
          MaxTrouble      \* bound: failed writes, crashes, expired jobs, and
                          \* times the media tools are switched off, together

Jobs == Images \union Videos

ASSUME MediaAssumption ==
    /\ IsFiniteSet(Jobs) /\ Images \intersect Videos = {} /\ None \notin Jobs
    /\ DOMAIN Key = Jobs
    /\ {MaxImages, MaxVideos, Attempts} \subseteq Nat \ {0}
    /\ MaxTrouble \in Nat

VARIABLES
    jobs,        \* MediaJobStore.jobs
    file,        \* jobs.json
    running, stopping,
    halting,     \* stop() waits for the runs to end
    enabled,     \* config.mediaTools.enabled
    queue,
    active,      \* the keys of the Map of that name
    run,         \* where the run of a job is
    completions, \* the jobs with an entry in the Map of that name
    waits,       \* the job an image call waits for
    gateway,     \* does the core gateway answer?
    posted,      \* history: how often the request of a job was posted
    spoiled,     \* history: jobs for which a write failed
    trouble      \* how much went wrong or was switched

store == <<jobs, file>>
service == <<running, stopping, halting, enabled>>
work == <<queue, active, run, completions>>
vars == <<store, service, work, waits, gateway, posted, spoiled, trouble>>

Absent == [status |-> "absent", remote |-> FALSE]
AtRest == [pc |-> "none", attempt |-> 0, aborted |-> FALSE]

\* an entry of the queue, and the entries for the jobs other than those of S
Item == [job : Jobs, resume : BOOLEAN]
Without(q, S) == Only(q, {x \in Item : x.job \notin S})

TypeOK ==
    /\ {jobs, file} \subseteq [Jobs ->
         [status : {"absent", "queued", "running", "succeeded", "failed", "canceled"},
          remote : BOOLEAN]]
    /\ \A j \in Images : ~jobs[j].remote
    /\ {running, stopping, halting, enabled, gateway} \subseteq BOOLEAN
    /\ queue \in Seq(Item)
    /\ active \subseteq Jobs /\ completions \subseteq Jobs /\ spoiled \subseteq Jobs
    /\ run \in [Jobs ->
         [pc : {"none", "post", "poll", "pause", "download"},
          attempt : 0 .. Attempts,   \* 0 when the run resumes a video
          aborted : BOOLEAN]]
    /\ waits \in [Images -> Jobs \union {None}]
    /\ posted \in [Jobs -> Nat] /\ trouble \in 0 .. MaxTrouble

Init ==
    /\ jobs = [j \in Jobs |-> Absent] /\ file = jobs
    /\ running = FALSE /\ stopping = FALSE /\ halting = FALSE /\ enabled = FALSE
    /\ queue = <<>> /\ active = {} /\ completions = {}
    /\ run = [j \in Jobs |-> AtRest]
    /\ waits = [c \in Images |-> None]
    /\ gateway = FALSE
    /\ posted = [j \in Jobs |-> 0] /\ spoiled = {} /\ trouble = 0

-----------------------------------------------------------------------------
Kind(j) == IF j \in Videos THEN Videos ELSE Images
Limit(j) == IF j \in Videos THEN MaxVideos ELSE MaxImages
Unfinished(m, j) == m[j].status \in {"queued", "running"}
Finished(m, j) == m[j].status \in {"succeeded", "failed", "canceled"}
Resumable(m, j) == Unfinished(m, j) /\ m[j].remote
Live(j) == run[j].pc # "none"
Queued(q) == {q[i].job : i \in DOMAIN q}
Position(q, j) == CHOOSE i \in DOMAIN q : q[i].job = j

\* memory m with the status s for the jobs S
With(m, S, s) == [j \in Jobs |-> IF j \in S THEN [m[j] EXCEPT !.status = s] ELSE m[j]]

\* the writes for the jobs S throw; at most one of the runs that begin is hit
AtMostOne == {{}} \union {{j} : j \in Jobs}
Spoil(S) ==
    /\ S # {} => trouble < MaxTrouble
    /\ spoiled' = spoiled \union S
    /\ trouble' = IF S = {} THEN trouble ELSE trouble + 1

\* the completions of the jobs S are resolved
Resolve(S) ==
    /\ completions' = completions \ S
    /\ waits' = [c \in Images |-> IF waits[c] \in S THEN None ELSE waits[c]]

\* the jobs of queue q that get a slot beside the active ones
HasCapacity(q, i, act) ==
    LET kind == Kind(q[i].job) IN
    Cardinality(act \intersect kind) + Cardinality(kind \intersect Queued(SubSeq(q, 1, i)))
      <= Limit(q[i].job)
Admitted(q, act) == {q[i].job : i \in {i \in DOMAIN q : HasCapacity(q, i, act)}}

\* run(item, job) up to its first await
Begun(item) == [pc |-> IF item.resume THEN "poll" ELSE "post",
                attempt |-> IF item.resume THEN 0 ELSE 1,
                aborted |-> FALSE]

(***************************************************************************)
(* The end of most handlers is schedule().  By then memory is m, and the   *)
(* file has it if the handler wrote it.  A run whose first write throws    *)
(* (bad) ends there, before its try: nobody takes it out of active.        *)
(***************************************************************************)
Schedule(m, wrote, q, act, r, bad) ==
    LET go == IF running' /\ enabled' THEN Admitted(q, act) ELSE {}
        item(j) == q[Position(q, j)]
        inFile == {j \in go : \E k \in go \ bad : Position(q, j) <= Position(q, k)}
    IN  /\ bad \subseteq go
        /\ queue' = Without(q, go)
        /\ active' = act \union go
        /\ run' = [j \in Jobs |-> IF j \in go \ bad THEN Begun(item(j)) ELSE r[j]]
        /\ posted' = [j \in Jobs |-> IF j \in go \ bad /\ ~item(j).resume
                                     THEN posted[j] + 1 ELSE posted[j]]
        /\ jobs' = With(m, go, "running")
        /\ file' = IF wrote \/ go \ bad # {} THEN With(m, inFile, "running") ELSE file

\* A finally clause that leaves the free slot to the next submission.
ReturnUnscheduled(j, m, wrote, bad) ==
    /\ UNCHANGED <<service, gateway>>
    /\ Resolve({j})
    /\ active' = active \ {j} /\ run' = [run EXCEPT ![j] = AtRest]
    /\ jobs' = m /\ file' = IF wrote THEN m ELSE file
    /\ bad = {}
    /\ UNCHANGED <<queue, posted>>

\* run: the finally clause
Return(j, m, wrote, bad) ==
    /\ UNCHANGED <<service, gateway>>
    /\ Resolve({j})
    /\ Schedule(m, wrote, queue, active \ {j}, [run EXCEPT ![j] = AtRest], bad)

\* A catch clause that does not ask whether the job was canceled meanwhile.
OutcomeOfError(m, j) == IF stopping /\ m[j].remote THEN "running" ELSE "failed"
\* A catch clause that fails every job when the service stops.
OutcomeOfStop(m, j) == IF m[j].status = "canceled" THEN "canceled" ELSE "failed"

\* run: the catch clause, and what follows, after writes for the jobs S threw
Outcome(m, j) == IF m[j].status = "canceled" THEN "canceled"
                 ELSE IF stopping /\ m[j].remote THEN "running" ELSE "failed"
Caught(j, m, S) ==
    LET s == Outcome(m, j) IN
    \E lost \in SUBSET {j}, bad \in AtMostOne :
        /\ lost # {} => s # "canceled"
        /\ Spoil(S \union lost \union bad)
        /\ Return(j, With(m, {j}, s), s # "canceled" /\ lost = {}, bad)

-----------------------------------------------------------------------------
\* A run goes on at one of its awaits.  After an abort it gets nothing but that.
At(j, pc) == run[j].pc = pc /\ ~run[j].aborted
GoesTo(j, pc) == run' = [run EXCEPT ![j].pc = pc]

Succeed(j) ==
    \/ \E bad \in AtMostOne : Spoil(bad) /\ Return(j, With(jobs, {j}, "succeeded"), TRUE, bad)
    \/ Caught(j, jobs, {j})

\* onRemoteRequestId, then resumeVideo
VideoAccepted(j) ==
    LET m == [jobs EXCEPT ![j].remote = TRUE] IN
    /\ j \in Videos /\ At(j, "post") /\ gateway
    /\ \/ /\ jobs' = m /\ file' = m
          /\ GoesTo(j, "poll")
          /\ UNCHANGED <<service, queue, active, completions, waits, gateway, posted, spoiled, trouble>>
       \/ Caught(j, m, {j})

\* the result is there, as a URL or, for an image, as data
ResultReady(j) ==
    /\ At(j, IF j \in Videos THEN "poll" ELSE "post") /\ gateway
    /\ \/ /\ GoesTo(j, "download")
          /\ UNCHANGED <<store, service, queue, active, completions, waits, gateway, posted, spoiled, trouble>>
       \/ j \in Images /\ Succeed(j)

\* A loop that counts its attempts from zero and compares with <=.
OneAttemptMore(j, retryable) ==
    /\ At(j, "post") \/ At(j, "poll")
    /\ retryable => gateway
    /\ IF retryable /\ run[j].attempt \in 1 .. Attempts
       THEN \/ /\ file' = jobs
               /\ GoesTo(j, "pause")
               /\ UNCHANGED <<jobs, service, queue, active, completions, waits, gateway, posted, spoiled, trouble>>
            \/ Caught(j, jobs, {j})
       ELSE Caught(j, jobs, {})

\* executeWithAttempts: catch.  Without the core gateway fetch fails, and that
\* error is not retryable.
AttemptFails(j, retryable) ==
    /\ At(j, "post") \/ At(j, "poll")
    /\ retryable => gateway
    /\ IF retryable /\ run[j].attempt \in 1 .. Attempts - 1
       THEN \/ /\ file' = jobs
               /\ GoesTo(j, "pause")
               /\ UNCHANGED <<jobs, service, queue, active, completions, waits, gateway, posted, spoiled, trouble>>
            \/ Caught(j, jobs, {j})
       ELSE Caught(j, jobs, {})

NextAttempt(j) ==
    LET m == [jobs EXCEPT ![j] = [status |-> "running", remote |-> FALSE]] IN
    /\ At(j, "pause")
    /\ \/ /\ jobs' = m /\ file' = m
          /\ run' = [run EXCEPT ![j].pc = "post", ![j].attempt = @ + 1]
          /\ posted' = [posted EXCEPT ![j] = @ + 1]
          /\ UNCHANGED <<service, queue, active, completions, waits, gateway, spoiled, trouble>>
       \/ Caught(j, m, {j})

\* Before it fetches anything, the download looks up the host of the URL and
\* does not hear of an abort until it is done.
DownloadEnds(j) ==
    /\ run[j].pc = "download"
    /\ \/ ~run[j].aborted /\ Succeed(j)
       \/ Caught(j, jobs, {})

JobTimeout(j) ==
    /\ Live(j) /\ ~run[j].aborted
    /\ run' = [run EXCEPT ![j].aborted = TRUE]
    /\ UNCHANGED <<store, service, queue, active, completions, waits, gateway, posted, spoiled, trouble>>

AbortSeen(j) ==
    /\ run[j].aborted /\ run[j].pc # "download"
    /\ Caught(j, jobs, {})

RunStep(j) ==
    \/ VideoAccepted(j) \/ ResultReady(j) \/ NextAttempt(j)
    \/ \E retryable \in BOOLEAN : AttemptFails(j, retryable)
    \/ DownloadEnds(j) \/ JobTimeout(j) \/ AbortSeen(j)

-----------------------------------------------------------------------------
\* The MCP tools.  Only an image tool waits.
Existing(c) == {j \in Jobs : /\ jobs[j] # Absent /\ Kind(j) = Kind(c)
                             /\ Key[c] # None /\ Key[j] = Key[c]}
Await(c, j) == waits' = IF c \in Images THEN [waits EXCEPT ![c] = j] ELSE waits
Free(c) == c \in Images => waits[c] = None

SubmitAgain(c) ==
    /\ running /\ enabled /\ Free(c)
    /\ \E j \in Existing(c) : Unfinished(jobs, j) /\ j \in completions /\ Await(c, j)
    /\ UNCHANGED <<store, service, work, gateway, posted, spoiled, trouble>>

Submit(c) ==
    LET m == [jobs EXCEPT ![c] = [status |-> "queued", remote |-> FALSE]] IN
    /\ running /\ enabled /\ Free(c)
    /\ Existing(c) = {} /\ jobs[c] = Absent
    /\ UNCHANGED <<service, gateway>>
    /\ \/ \E bad \in AtMostOne :
          /\ Spoil(bad)
          /\ Schedule(m, TRUE, Append(queue, [job |-> c, resume |-> FALSE]), active, run, bad)
          /\ completions' = completions \union {c}
          /\ Await(c, c)
       \/ /\ jobs' = m /\ Spoil({c})
          /\ UNCHANGED <<file, work, waits, posted>>

\* A cancellation that gives the slot of the run away at once.
CancelFreesSlot(j) ==
    LET m == With(jobs, {j}, "canceled") IN
    /\ Unfinished(jobs, j)
    /\ queue' = Without(queue, {j})
    /\ run' = [run EXCEPT ![j].aborted = Live(j)]
    /\ jobs' = m
    /\ \/ file' = m /\ Resolve({j}) /\ Spoil({})
       \/ Spoil({j}) /\ UNCHANGED <<file, completions, waits>>
    /\ active' = active \ {j} /\ UNCHANGED <<service, gateway, posted>>

CancelJob(j) ==
    LET m == With(jobs, {j}, "canceled") IN
    /\ Unfinished(jobs, j)
    /\ queue' = Without(queue, {j})
    /\ run' = [run EXCEPT ![j].aborted = Live(j)]
    /\ jobs' = m
    /\ \/ file' = m /\ Resolve({j}) /\ Spoil({})
       \/ Spoil({j}) /\ UNCHANGED <<file, completions, waits>>
    /\ UNCHANGED <<service, active, gateway, posted>>

\* cleanup: the job finished jobRetentionDays ago
Expire(j) ==
    /\ running /\ enabled /\ Finished(jobs, j) /\ j \notin active \union Queued(queue)
    /\ jobs' = [jobs EXCEPT ![j] = Absent]
    /\ trouble < MaxTrouble /\ trouble' = trouble + 1
    /\ \/ file' = jobs' /\ UNCHANGED spoiled
       \/ spoiled' = spoiled \union {j} /\ UNCHANGED file
    /\ posted' = [posted EXCEPT ![j] = 0]
    /\ UNCHANGED <<service, work, waits, gateway>>

-----------------------------------------------------------------------------
\* recoverInterruptedJobs visits the jobs one by one, and a write that throws
\* ends it
InterruptedRuns == {j \in Jobs : jobs[j].status = "running" /\ j \notin active \union Queued(queue)}
Interrupted == {j \in Jobs : Unfinished(jobs, j) /\ j \notin active \union Queued(queue)}
Resumed(S) == [i \in 1 .. Cardinality(S) |-> [job |-> SetToSeq(S)[i], resume |-> TRUE]]
RecoverInterruptedJobs ==
    LET back == {j \in Interrupted : Resumable(jobs, j)}
        over == Interrupted \ back
    IN  \/ \E bad \in AtMostOne :
           /\ Spoil(bad)
           /\ completions' = completions \union back
           /\ Schedule(With(jobs, over, "failed"), over # {}, queue \o Resumed(back), active, run, bad)
        \/ \E j \in over : \E before \in SUBSET (Interrupted \ {j}) :
           /\ Spoil({j})
           /\ completions' = completions \union (back \intersect before)
           /\ queue' = queue \o Resumed(back \intersect before)
           /\ jobs' = With(jobs, (over \intersect before) \union {j}, "failed")
           /\ file' = IF over \intersect before # {}
                      THEN With(jobs, over \intersect before, "failed") ELSE file
           /\ UNCHANGED <<active, run, posted>>

Start ==
    /\ ~running /\ ~halting
    /\ running' = TRUE /\ stopping' = FALSE
    /\ \/ enabled' = TRUE /\ RecoverInterruptedJobs
       \/ enabled' = FALSE /\ UNCHANGED <<store, work, posted, spoiled, trouble>>
    /\ UNCHANGED <<halting, waits, gateway>>

\* updateConfig: media tools are switched on or off
SwitchOn ==
    /\ ~enabled /\ enabled' = TRUE
    /\ UNCHANGED <<running, stopping, halting, waits, gateway>>
    /\ RecoverInterruptedJobs
SwitchOff ==
    /\ trouble < MaxTrouble /\ trouble' = trouble + 1
    /\ enabled /\ enabled' = FALSE
    /\ UNCHANGED <<store, running, stopping, halting, work, waits, gateway, posted, spoiled>>

\* GatewayService.stop has ended the core gateway by then
StopBegins ==
    /\ ~halting /\ ~gateway
    /\ running' = FALSE /\ stopping' = TRUE /\ halting' = TRUE
    /\ run' = [j \in Jobs |-> [run[j] EXCEPT !.aborted = Live(j)]]
    /\ UNCHANGED <<store, enabled, queue, active, completions, waits, gateway, posted, spoiled, trouble>>

\* A run ends as soon as it sees the abort, long before the deadline of 3 s;
\* only a download, or an entry without a run, can still be there then.
\* The write for an item may throw, and then the queue stays as it is.
StopEnds ==
    LET again(S) == {j \in S : queue[Position(queue, j)].resume}
        unbegun(S) == {j \in S \ again(S) : jobs[j].status = "queued"}
        after(S) == With(With(jobs, again(S), "running"), unbegun(S), "canceled")
        wrote(S) == again(S) \union unbegun(S)
    IN  /\ halting /\ halting' = FALSE
        /\ \A j \in active : run[j].pc \in {"none", "download"}
        /\ \E i \in 0 .. Len(queue) :
             LET S == Queued(SubSeq(queue, 1, i))
                 T == Queued(SubSeq(queue, 1, i + 1))
             IN  /\ file' = IF wrote(S) # {} THEN after(S) ELSE file
                 /\ Resolve(wrote(S))
                 /\ \/ /\ i = Len(queue) /\ Spoil({})
                       /\ jobs' = after(S) /\ queue' = <<>>
                    \/ /\ i < Len(queue) /\ wrote(T) # wrote(S)
                       /\ Spoil(wrote(T) \ wrote(S))
                       /\ jobs' = after(T) /\ queue' = queue
        /\ UNCHANGED <<running, stopping, enabled, active, run, gateway, posted>>

GatewayUp == running /\ ~gateway /\ gateway' = TRUE
             /\ UNCHANGED <<store, service, work, waits, posted, spoiled, trouble>>
GatewayDown == gateway /\ gateway' = FALSE
               /\ UNCHANGED <<store, service, work, waits, posted, spoiled, trouble>>

\* A store that loads only what has still to be done.
ReloadUnfinished ==
    /\ jobs' = [j \in Jobs |-> IF Finished(file, j) THEN Absent ELSE file[j]]
    /\ running' = FALSE /\ stopping' = FALSE /\ halting' = FALSE /\ enabled' = FALSE
    /\ queue' = <<>> /\ active' = {} /\ completions' = {}
    /\ run' = [j \in Jobs |-> AtRest] /\ waits' = [c \in Images |-> None]
    /\ gateway' = FALSE
    /\ UNCHANGED <<file, posted, spoiled>>

\* the process ends and another one starts: MediaJobStore.load
Reload ==
    /\ jobs' = file
    /\ running' = FALSE /\ stopping' = FALSE /\ halting' = FALSE /\ enabled' = FALSE
    /\ queue' = <<>> /\ active' = {} /\ completions' = {}
    /\ run' = [j \in Jobs |-> AtRest] /\ waits' = [c \in Images |-> None]
    /\ gateway' = FALSE
    /\ UNCHANGED <<file, posted, spoiled>>
Quit == stopping /\ ~halting /\ Reload /\ UNCHANGED trouble
Crash == (running \/ halting) /\ trouble < MaxTrouble /\ Reload /\ trouble' = trouble + 1

Next ==
    \/ \E j \in Jobs : RunStep(j) \/ CancelJob(j) \/ Expire(j)
    \/ \E c \in Jobs : Submit(c) \/ SubmitAgain(c)
    \/ Start \/ StopBegins \/ StopEnds \/ SwitchOn \/ SwitchOff
    \/ GatewayUp \/ GatewayDown \/ Quit \/ Crash

Spec == Init /\ [][Next]_vars

(***************************************************************************)
(* The timer of a run fires, an aborted run ends, and so does the wait of  *)
(* stop().  The callers, the provider, the core gateway and whoever starts *)
(* and stops the service may do nothing.                                   *)
(***************************************************************************)
TimesOut(j) == \/ JobTimeout(j)
               \/ AbortSeen(j)
               \/ run[j].aborted /\ DownloadEnds(j)
FairSpec == Spec /\ WF_vars(StopEnds) /\ \A j \in Jobs : WF_vars(TimesOut(j))

-----------------------------------------------------------------------------
\* Never more requests at the providers at once than the settings allow, also
\* after cancellations, timeouts, restarts of the service within the process
\* and runs that outlive stop().
RunsWithinLimits ==
    \A kind \in {Images, Videos} : \A j \in kind :
        Cardinality({k \in kind : Live(k)}) <= Limit(j)

\* A request is posted by the attempts of one run and never again: a run that
\* posts has counted every post of its job, and no other job with the same
\* idempotency key has been posted, whatever is submitted again, canceled,
\* resumed, not written or interrupted by a crash (until the job expires).
PostedByOneRun ==
    \A kind \in {Images, Videos} : \A j \in kind :
        /\ posted[j] <= Attempts
        /\ Live(j) /\ run[j].attempt > 0 => posted[j] = run[j].attempt
        /\ posted[j] > 0 /\ Key[j] # None =>
             \A k \in kind \ {j} : Key[k] = Key[j] => posted[k] = 0

\* While the service works, whatever is not finished is in the queue or has a
\* run, and whoever waits for a job waits for such a one, also while the
\* service is stopped or switched off.  (After a failed write neither is so.)
NothingStranded ==
    spoiled = {} =>
        /\ running /\ enabled =>
             \A j \in Jobs : Unfinished(jobs, j) => j \in Queued(queue) \/ Live(j)
        /\ \A c \in Images : waits[c] # None =>
             /\ waits[c] \in completions
             /\ waits[c] \in Queued(queue) \/ Live(waits[c])

\* What was told to be succeeded, failed or canceled stays so: neither a late
\* result or error, nor stop, start or a crash changes it.  (Excepted are jobs
\* whose own write failed, and those a failed stop() left in the queue.)
FinishedStays ==
    [][\A j \in Jobs : Finished(jobs, j) /\ j \notin spoiled \union Queued(queue) =>
           jobs'[j].status \in {jobs[j].status, "absent"}]_vars

\* Once the provider works on a video and its id is stored, only the video's
\* own run in a working service gives it up; not stop, start or a crash.
VideoSurvivesStop ==
    [][\A j \in Videos : Resumable(jobs, j) /\ jobs'[j].status = "failed" =>
           running /\ Live(j)]_vars

\* An unfinished job of a working service comes to an end, and an image tool
\* is answered, also if the service is stopped in the meantime.
Pending(j) == \/ Unfinished(jobs, j) /\ running
              \/ \E c \in Images : waits[c] = j
EveryJobSettles ==
    \A j \in Jobs : []<>(Pending(j) => ~enabled \/ spoiled # {})
=============================================================================
