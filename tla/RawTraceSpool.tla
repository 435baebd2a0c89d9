--------------------------- MODULE RawTraceSpool ---------------------------
(***************************************************************************)
(* The spool of raw traces: RawTraceSynchronizer.  The core gateway writes *)
(* a bundle (the parts of a trace, then a manifest) into a directory of    *)
(* its own and posts the manifest, again and again until it is answered.   *)
(* The synchronizer takes the directory over: source, staging, inbox.  It  *)
(* answers when the bundle is in the inbox, and offers the bundles of the  *)
(* inbox to the request log until the writer has committed them.           *)
(*                                                                         *)
(* A handler serves one posted manifest and then offers the bundle itself. *)
(* The replayer is the loop of the timer: at first it finishes what an     *)
(* earlier process began, then each pass refreshes the index, adopts what  *)
(* was never posted, and offers what the index holds.  Both run the same   *)
(* procedures, from await to await, on the same directories; only changes  *)
(* of the index have a lock, so such a change is one step.                 *)
(*                                                                         *)
(* A directory is in one place at a time, because it moves by renaming.    *)
(***************************************************************************)
EXTENDS Integers, Sequences, FiniteSets, SequencesExt, Sublists

CONSTANTS Bundles,
          Handlers,    \* requests to the sync endpoint at the same time
          Replayer,    \* the loop of replayTimer
          None,
          MaxInbox,    \* inboxMaxBundles
          MaxAttempts, \* bundleMaxAttempts
          MaxPosts,    \* bound: posts of one bundle
          MaxTrouble   \* bound: errors of the file system and of the writer,
                       \* restarts, and changes of the settings, together

Actors == Handlers \union {Replayer}

ASSUME SpoolAssumption ==
    /\ IsFiniteSet(Bundles) /\ None \notin Bundles
    /\ Replayer \notin Handlers
    /\ {MaxInbox, MaxAttempts, MaxPosts} \subseteq Nat \ {0}
    /\ MaxTrouble \in Nat

VARIABLES
    at,        \* where the directory of a bundle is
    flushed,   \* where a power loss may put it back to
    whole,     \* are the parts as the producer wrote them?
    safe,      \* bundles whose parts are flushed to disk
    ready,     \* bundles with .ccr-ready.json
    saved,     \* .ccr-delivery.json
    dir,       \* who gave the directory the name it has, or had, in staging
    actor,     \* what each actor does, and on which bundle
    started, storageReady,
    loaded,    \* is there an inboxIndex yet?
    index,     \* inboxIndex.bundles, a Map in the order of insertion
    delivery,  \* stored.delivery of the entries
    cooling,   \* bundles whose retryStates entry lies in the future
    observed,  \* sourceObservations: a bundle and None, or its name in staging
    overdue,   \* the observations without activity for sourceBundleGraceMs
    todo,      \* directories the scan has still to look at
    pass,      \* bundles the pass has still to visit
    admission, \* of the bundle's record, see RequestLogAdmission
    recording, \* shouldRecordRequestLogs(config)
    queue,     \* updates in the request-log queue, see RequestLogQueue
    rows,      \* updates committed to the request log, in order
    hollow,    \* bundles written without their bodies
    unread,    \* history: bundles of which a part could not be read
    cleaning,  \* acknowledged updates whose directory is to be removed
    finished,  \* bundles the producer has finished
    posts,     \* how often a bundle was posted
    told,      \* history: the answer the producer got
    ended,     \* history: what was done to a bundle instead of writing it
    committed, \* history: bundles the writer has ever committed
    trouble    \* how much went wrong or was changed

disk == <<at, flushed, whole, safe, ready, saved, dir>>
memory == <<started, storageReady, loaded, index, delivery, cooling>>
scanVars == <<observed, overdue, todo, pass>>
logVars == <<admission, recording, queue, rows, hollow, unread, cleaning, committed>>
producer == <<finished, posts, told>>
vars == <<disk, actor, memory, scanVars, logVars, producer, ended, trouble>>

Places == {"nowhere", "open", "source", "staging", "inbox", "dead", "gone"}
Delivery == [attempts : 0 .. MaxAttempts, pending : BOOLEAN]
Fresh == [attempts |-> 0, pending |-> FALSE]
Resting == [pc |-> "idle", on |-> None, how |-> "none", dir |-> None, flag |-> FALSE]

\* What an actor does, on which bundle, how the bundle was found, the name of
\* its directory in staging, and what it has found out.
Work == [pc : {"idle", "claim", "prepare", "publish", "flush", "register", "take",
               "offer", "recover", "refresh", "scan", "visit"},
         on : Bundles \union {None},
         how : {"none", "post", "source", "staging", "startup"},
         dir : Actors \union {None}, flag : BOOLEAN]

TypeOK ==
    /\ at \in [Bundles -> Places] /\ flushed \in [Bundles -> Places]
    /\ whole \in [Bundles -> BOOLEAN] /\ dir \in [Bundles -> Actors \union {None}]
    /\ safe \subseteq Bundles /\ ready \subseteq Bundles
    /\ saved \in [Bundles -> Delivery] /\ delivery \in [Bundles -> Delivery]
    /\ actor \in [Actors -> Work]
    /\ {started, storageReady, loaded} \subseteq BOOLEAN
    /\ index \in Seq(Bundles) /\ IsInjective(index)
    /\ cooling \subseteq Bundles
    /\ observed \subseteq Bundles \X (Actors \union {None}) /\ overdue \subseteq observed
    /\ todo \subseteq Bundles /\ pass \subseteq Bundles
    /\ admission \in [Bundles -> {"pending", "committed", "dropped"}]
    /\ recording \in BOOLEAN
    /\ queue \in Seq([bundle : Bundles, whole : BOOLEAN])
    /\ rows \in Seq(Bundles)
    /\ UNION {hollow, unread, cleaning, finished, committed} \subseteq Bundles
    /\ posts \in [Bundles -> 0 .. MaxPosts]
    /\ told \in [Bundles -> {"nothing", "durable", "dead", "disabled"}]
    /\ ended \in [Bundles -> {"no", "dropped", "disabled", "pruned"}]
    /\ trouble \in 0 .. MaxTrouble

Init ==
    /\ at = [b \in Bundles |-> "nowhere"] /\ flushed = at
    /\ whole = [b \in Bundles |-> TRUE] /\ dir = [b \in Bundles |-> None]
    /\ safe = {} /\ ready = {}
    /\ saved = [b \in Bundles |-> Fresh] /\ delivery = saved
    /\ actor = [a \in Actors |-> Resting]
    /\ started = FALSE /\ storageReady = FALSE /\ loaded = FALSE
    /\ index = <<>> /\ cooling = {} /\ observed = {} /\ overdue = {}
    /\ todo = {} /\ pass = {}
    /\ admission = [b \in Bundles |-> "pending"] /\ recording = TRUE
    /\ queue = <<>> /\ rows = <<>> /\ hollow = {} /\ unread = {} /\ cleaning = {} /\ committed = {}
    /\ finished = {} /\ posts = [b \in Bundles |-> 0]
    /\ told = [b \in Bundles |-> "nothing"]
    /\ ended = [b \in Bundles |-> "no"]
    /\ trouble = 0

-----------------------------------------------------------------------------
(* Moves between the directories.                                          *)

\* A rename whose two directories are flushed afterwards.
MoveTo(b, place) ==
    /\ at' = [at EXCEPT ![b] = place]
    /\ flushed' = [flushed EXCEPT ![b] = place]

\* rm: nothing flushes the removal.
Rm(S) == at' = [b \in Bundles |-> IF b \in S THEN "gone" ELSE at[b]]

\* moveRawTraceBundleToDeadLetter, for the bundles of a set that are in place.
DeadLetter(S) ==
    /\ at' = [b \in Bundles |-> IF b \in S THEN "dead" ELSE at[b]]
    /\ flushed' = [b \in Bundles |-> IF b \in S THEN "dead" ELSE flushed[b]]

InInbox(b) == {b} \intersect {c \in Bundles : at[c] = "inbox"}

\* removeIndexedBundle
Unindexed(q, b) == Only(q, Bundles \ {b})

Trouble == trouble < MaxTrouble /\ trouble' = trouble + 1
NoTrouble == UNCHANGED trouble

-----------------------------------------------------------------------------
(* The producer, and what else happens around the synchronizer.            *)

\* The core gateway opens a directory and writes parts as they stream in.
Begin(b) ==
    /\ at[b] = "nowhere"
    /\ MoveTo(b, "open")
    /\ UNCHANGED <<whole, safe, ready, saved, dir, actor, memory, scanVars, logVars,
                   producer, ended, trouble>>

\* It writes the manifest last.
Finish(b) ==
    /\ at[b] = "open"
    /\ MoveTo(b, "source")
    /\ finished' = finished \union {b}
    /\ UNCHANGED <<whole, safe, ready, saved, dir, actor, memory, scanVars, logVars,
                   posts, told, ended, trouble>>

\* The record of the request is decided upon.
Decide(b) ==
    /\ admission[b] = "pending"
    /\ \E state \in {"committed", "dropped"} :
           admission' = [admission EXCEPT ![b] = state]
    /\ UNCHANGED <<disk, actor, memory, scanVars, recording, queue, rows, hollow,
                   unread, cleaning, committed, producer, ended, trouble>>

ToggleRecording ==
    /\ Trouble
    /\ recording' = ~recording
    /\ UNCHANGED <<disk, actor, memory, scanVars, admission, queue, rows, hollow,
                   unread, cleaning, committed, producer, ended>>

\* raw_trace_processed_bundles remembers the bundles that were written.
Applied(b) == IF b \in ToSet(rows) THEN rows ELSE Append(rows, b)

\* What the runtime removes: what the writer has acknowledged.
Acked(b, done) == cleaning \union (IF done THEN {b} ELSE {})

\* The writer reads the bodies, unless existsSync finds an error, and commits; a
\* bundle it has processed before it skips.  After its last attempt a command is
\* given up, its bundle kept.
Write ==
    /\ queue # <<>>
    /\ LET b == Head(queue).bundle
           bodies == Head(queue).whole /\ at[b] = "inbox"
           commits(read) == /\ rows' = Applied(b)
                            /\ hollow' = IF b \in ToSet(rows) \/ read THEN hollow
                                                                    ELSE hollow \union {b}
                            /\ cleaning' = Acked(b, TRUE)
                            /\ committed' = committed \union {b}
       IN \/ commits(bodies) /\ NoTrouble /\ UNCHANGED unread
          \/ bodies /\ commits(FALSE) /\ Trouble /\ unread' = unread \union {b}
          \/ /\ Trouble /\ cleaning' = Acked(b, FALSE)
             /\ UNCHANGED <<rows, hollow, unread, committed>>
    /\ queue' = Tail(queue)
    /\ UNCHANGED <<disk, actor, memory, scanVars, admission, recording, producer, ended>>

\* cleanupRawTraceDirectories, once the runtime has the writer's ack.
Cleanup(b) ==
    /\ b \in cleaning
    /\ Rm(InInbox(b))
    /\ cleaning' = cleaning \ {b}
    /\ UNCHANGED <<flushed, whole, safe, ready, saved, dir, actor, memory, scanVars,
                   admission, recording, queue, rows, hollow, unread, committed, producer,
                   ended, trouble>>

\* pruneRawTraceDeadLetters: beyond the limits, or after the retention time.
Prune(b) ==
    /\ at[b] = "dead"
    /\ Rm({b})
    /\ ended' = [ended EXCEPT ![b] = IF @ = "no" THEN "pruned" ELSE @]
    /\ UNCHANGED <<flushed, whole, safe, ready, saved, dir, actor, memory, scanVars,
                   logVars, producer, trouble>>

CooldownEnds(b) ==
    /\ b \in cooling
    /\ cooling' = cooling \ {b}
    /\ UNCHANGED <<disk, actor, started, storageReady, loaded, index, delivery, scanVars,
                   logVars, producer, ended, trouble>>

QuietPeriodEnds(o) ==
    /\ o \notin overdue
    /\ overdue' = overdue \union {o}
    /\ UNCHANGED <<disk, actor, memory, observed, todo, pass, logVars, producer,
                   ended, trouble>>

-----------------------------------------------------------------------------
(* handle, persistRawTraceBundle and publishStagedRawTraceBundle.          *)

Doing(pc, b, how) == [Resting EXCEPT !.pc = pc, !.on = b, !.how = how]

\* The same on a directory in staging.
DoingStaged(b, how) == [Doing("prepare", b, how) EXCEPT !.dir = dir[b]]

\* The replayer between two bundles.
AtLoop(pc) == [Resting EXCEPT !.pc = pc]
Becomes(a, work) == actor' = [actor EXCEPT ![a] = work]
Step(a, pc) == actor' = [actor EXCEPT ![a].pc = pc]

\* The directory that an actor took to staging is still there.
Mine(a) == LET b == actor[a].on IN at[b] = "staging" /\ dir[b] = actor[a].dir

\* The request is refused, or the scan notes the directory and goes on.
Noted(a) ==
    CASE actor[a].how = "source" -> {<<actor[a].on, None>>}
      [] actor[a].how = "staging" -> {<<actor[a].on, actor[a].dir>>}
      [] OTHER -> {}

Abandon(a) == Becomes(a, CASE actor[a].how = "post" -> Resting
                           [] actor[a].how = "startup" -> AtLoop("recover")
                           [] OTHER -> AtLoop("scan"))

GiveUp(a) == Abandon(a) /\ observed' = observed \union Noted(a)

\* The manifest is posted.  Without request logs the directory is removed; from
\* start() until the index is read the request is refused.
Post(h, b) ==
    /\ actor[h].pc = "idle"
    /\ b \in finished /\ told[b] = "nothing" /\ posts[b] < MaxPosts
    /\ posts' = [posts EXCEPT ![b] = @ + 1]
    /\ \/ /\ ~recording
          /\ Rm({b} \intersect {c \in Bundles : at[c] = "source"})
          /\ ended' = [ended EXCEPT ![b] = IF at[b] = "source" THEN "disabled" ELSE @]
          /\ \E answer \in {"nothing", "disabled"} : told' = [told EXCEPT ![b] = answer]
          /\ UNCHANGED actor
       \/ /\ recording /\ started /\ ~storageReady
          /\ UNCHANGED <<at, ended, told, actor>>
       \/ /\ recording /\ (started => storageReady)
          /\ Becomes(h, Doing("claim", b, "post"))
          /\ UNCHANGED <<at, ended, told>>
    /\ UNCHANGED <<flushed, whole, safe, ready, saved, dir, memory, scanVars, logVars,
                   finished, trouble>>

\* What is in the inbox already is complete; otherwise the manifest is written
\* and the directory renamed into staging, under a new name.
Claim(a) ==
    LET b == actor[a].on
        taken == /\ MoveTo(b, "staging")
                 /\ dir' = [dir EXCEPT ![b] = a]
                 /\ overdue' = overdue \ {<<b, None>>}
        kept == UNCHANGED <<at, flushed, dir, overdue>>
    IN /\ actor[a].pc = "claim"
       /\ \/ /\ at[b] = "inbox" /\ kept
             /\ Step(a, "register")
             /\ NoTrouble /\ UNCHANGED observed
          \/ /\ at[b] = "source" /\ taken
             /\ actor' = [actor EXCEPT ![a].pc = "prepare", ![a].dir = a]
             /\ NoTrouble /\ UNCHANGED observed
          \/ at[b] = "source" /\ (taken \/ kept) /\ Trouble /\ GiveUp(a)
          \/ at[b] \notin {"inbox", "source"} /\ kept /\ NoTrouble /\ GiveUp(a)
       /\ UNCHANGED <<whole, safe, ready, saved, memory, todo, pass, logVars,
                      producer, ended>>

\* A failed publication puts the directory back where the producer left it,
\* if it was taken from there.
PublishFails(a) ==
    /\ Abandon(a)
    /\ \/ /\ actor[a].how \in {"post", "source"} /\ Mine(a)
          /\ MoveTo(actor[a].on, "source")
          /\ observed' = (observed \ {<<actor[a].on, a>>}) \union Noted(a)
       \/ /\ actor[a].how \notin {"post", "source"} \/ ~Mine(a)
          /\ observed' = observed \union Noted(a)
          /\ UNCHANGED <<at, flushed>>

Published(a) ==
    /\ IF actor[a].how = "startup" THEN Becomes(a, AtLoop("recover")) ELSE Step(a, "register")
    /\ UNCHANGED observed

\* Mutant: the parts are compared with the manifest, but not flushed.
SealedUnsynced(b) == ready' = ready \union {b} /\ UNCHANGED safe

\* Parts flushed, then manifest, delivery state and ready file written.
Sealed(b) == safe' = safe \union {b} /\ ready' = ready \union {b}

\* The parts are compared with the manifest before.
Prepare(a) ==
    LET b == actor[a].on
    IN /\ actor[a].pc = "prepare"
       /\ \/ /\ Mine(a) /\ whole[b]
             /\ Sealed(b)
             /\ Step(a, "publish")
             /\ NoTrouble /\ UNCHANGED <<at, flushed, observed>>
          \/ /\ at[b] = "inbox"
             /\ Published(a)
             /\ NoTrouble /\ UNCHANGED <<at, flushed, safe, ready>>
          \/ /\ ~Mine(a) \/ ~whole[b]
             /\ PublishFails(a)
             /\ NoTrouble /\ UNCHANGED <<safe, ready>>
          \/ Trouble /\ PublishFails(a) /\ UNCHANGED <<safe, ready>>
       /\ overdue' = overdue \intersect observed'
       /\ UNCHANGED <<whole, saved, dir, memory, todo, pass, logVars,
                      producer, ended>>

\* The rename that publishes; somebody else may have won it.
Publish(a) ==
    LET b == actor[a].on
    IN /\ actor[a].pc = "publish"
       /\ \/ /\ Mine(a)
             /\ at' = [at EXCEPT ![b] = "inbox"]
             /\ Step(a, "flush")
             /\ NoTrouble /\ UNCHANGED <<flushed, observed>>
          \/ /\ at[b] = "inbox" /\ Published(a)
             /\ NoTrouble /\ UNCHANGED <<at, flushed>>
          \/ ~Mine(a) /\ at[b] # "inbox" /\ GiveUp(a) /\ NoTrouble /\ UNCHANGED <<at, flushed>>
          \/ Mine(a) /\ Trouble /\ PublishFails(a)
       /\ overdue' = overdue \intersect observed'
       /\ UNCHANGED <<whole, safe, ready, saved, dir, memory, todo, pass,
                      logVars, producer, ended>>

\* Both directories are flushed, and the bundle is measured.
Flush(a) ==
    LET b == actor[a].on
    IN /\ actor[a].pc = "flush"
       /\ \/ /\ flushed' = [flushed EXCEPT ![b] = at[b]]
             /\ IF at[b] = "inbox" THEN Published(a) ELSE GiveUp(a)
             /\ NoTrouble
          \/ Trouble /\ GiveUp(a) /\ UNCHANGED flushed
       /\ UNCHANGED <<at, whole, safe, ready, saved, dir, memory, overdue, todo, pass, logVars, producer, ended>>

\* Mutant: a bundle that is posted again gets a second entry.
IndexedTwice(q, b) == Append(q, b)

Indexed(q, b) == IF b \in ToSet(q) THEN q ELSE Append(q, b)

\* ensureInboxIndex: the index, or at first the directories of the inbox.
InboxIndexes == IF loaded THEN {index} ELSE SetToSeqs({b \in Bundles : at[b] = "inbox"})

\* registerStoredBundle: a new bundle beyond the capacity, in bundles or in
\* bytes (sizes are not modelled), goes to the dead letters; if that fails it
\* stays, and if the index cannot be read there is none yet.  A handler then
\* answers, which the producer may not hear, and goes on to offer the bundle.
Answer(b, answer) ==
    \E heard \in {told[b], IF told[b] = "nothing" THEN answer ELSE told[b]} :
        told' = [told EXCEPT ![b] = heard]

Register(a) ==
    LET b == actor[a].on
        posted == actor[a].how = "post"
        found(known) ==
            /\ loaded' = TRUE
            /\ delivery' = [c \in Bundles |-> IF c = b \/ c \in ToSet(known) \ ToSet(index)
                                             THEN saved[c] ELSE delivery[c]]
        kept == /\ IF posted THEN Becomes(a, Doing("take", b, "post")) /\ Answer(b, "durable")
                             ELSE Becomes(a, AtLoop("scan")) /\ UNCHANGED told
                /\ UNCHANGED <<at, flushed>>
    IN /\ actor[a].pc = "register"
       /\ observed' = observed \ Noted(a)
       /\ overdue' = overdue \intersect observed'
       /\ \/ \E known \in InboxIndexes :
             /\ found(known)
             /\ index' = Indexed(known, b)
             /\ (Len(index') <= MaxInbox /\ NoTrouble) \/ Trouble
             /\ kept
          \/ \E known \in InboxIndexes :
             /\ found(known)
             /\ DeadLetter(InInbox(b)) /\ NoTrouble
             /\ index' = Unindexed(known, b)
             /\ IF posted THEN Becomes(a, Resting) /\ Answer(b, "dead")
                          ELSE Becomes(a, AtLoop("scan")) /\ UNCHANGED told
          \/ /\ ~loaded /\ Trouble /\ kept
             /\ delivery' = [delivery EXCEPT ![b] = saved[b]]
             /\ UNCHANGED <<loaded, index>>
       /\ UNCHANGED <<whole, safe, ready, saved, dir, started, storageReady, cooling, todo,
                      pass, logVars, finished, posts, ended>>

-----------------------------------------------------------------------------
(* processStoredBundle: offering a bundle to the request log.              *)

Done(a) == Becomes(a, IF a = Replayer THEN AtLoop("visit") ELSE Resting)

\* The cooldown is reserved first; a bundle that had its attempts (or is too
\* old) goes to the dead letters, and without request logs it is removed.  An
\* error of reading a part is logged, and the bundle offered without the part.
Take(a, b) ==
    LET spent == delivery[b].attempts >= MaxAttempts
        forget == index' = Unindexed(index, b) /\ cooling' = cooling \ {b} /\ Done(a)
        offers(read) == Becomes(a, [Doing("offer", b, "none") EXCEPT !.flag = read])
    IN /\ \/ /\ b \in cooling
             /\ Done(a)
             /\ NoTrouble /\ UNCHANGED <<at, flushed, index, cooling, unread, ended>>
          \/ /\ b \notin cooling /\ Trouble
             /\ cooling' = cooling \union {b} /\ Done(a)
             /\ UNCHANGED <<at, flushed, index, unread, ended>>
          \/ /\ b \notin cooling /\ ((spent /\ NoTrouble) \/ (~spent /\ Trouble))
             /\ DeadLetter(InInbox(b))
             /\ forget
             /\ UNCHANGED <<unread, ended>>
          \/ /\ b \notin cooling /\ ~spent /\ ~recording
             /\ Rm(InInbox(b))
             /\ ended' = [ended EXCEPT ![b] = IF at[b] = "inbox" THEN "disabled" ELSE @]
             /\ forget
             /\ NoTrouble /\ UNCHANGED <<flushed, unread>>
          \/ /\ b \notin cooling /\ ~spent /\ recording
             /\ cooling' = cooling \union {b}
             /\ \/ offers(at[b] = "inbox") /\ NoTrouble /\ UNCHANGED unread
                \/ at[b] = "inbox" /\ offers(FALSE) /\ Trouble /\ unread' = unread \union {b}
             /\ UNCHANGED <<at, flushed, index, ended>>
       /\ UNCHANGED <<whole, safe, ready, saved, dir, started, storageReady, loaded, delivery,
                      observed, overdue, todo, admission, recording, queue, rows,
                      hollow, cleaning, committed, producer>>

Apply(h) ==
    /\ actor[h].pc = "take"
    /\ Take(h, actor[h].on)
    /\ UNCHANGED pass

\* The replayer visits the entries in turn, from a cursor on (any order, here),
\* until its time or its number of attempts is used up.
Visit ==
    /\ actor[Replayer].pc = "visit"
    /\ \E b \in pass : /\ Take(Replayer, b)
                       /\ \E rest \in {pass \ {b}, {}} : pass' = rest

\* Mutant: the directory is given free when the queue accepts the update.
AcceptedFreely(b, read) ==
    /\ queue' = Append(queue, [bundle |-> b, whole |-> read])
    /\ cleaning' = cleaning \union {b}

\* The update is in the queue; the writer will read the bodies.
Accepted(b, read) ==
    /\ queue' = Append(queue, [bundle |-> b, whole |-> read])
    /\ UNCHANGED cleaning

\* Mutant: what the queue accepts is not counted as an attempt.
RefusalsTried(d, pending) ==
    [attempts |-> IF pending /\ d.attempts < MaxAttempts THEN d.attempts + 1 ELSE d.attempts,
     pending |-> pending]

\* One attempt more, up to the bound that decides.
Tried(d, pending) ==
    [attempts |-> IF d.attempts < MaxAttempts THEN d.attempts + 1 ELSE MaxAttempts,
     pending |-> pending]

\* enqueueRawTrace answers with the admission of the record: record_dropped,
\* record_pending, accepted, or refused for the pressure on the queue.  The
\* first "pending" and every refusal are written to disk.  So is an error,
\* whatever the admission.
Offer(a) ==
    LET b == actor[a].on
        d == delivery[b]
        count(pending, persist) ==
            /\ delivery' = [delivery EXCEPT ![b] = Tried(d, pending)]
            /\ saved' = [saved EXCEPT ![b] = IF persist /\ at[b] = "inbox"
                                             THEN Tried(d, pending) ELSE @]
            /\ cooling' = cooling \union {b}
            /\ UNCHANGED <<at, index, ended>>
        Goes(answer) == admission[b] = answer /\ NoTrouble
    IN /\ actor[a].pc = "offer"
       /\ \/ /\ Goes("dropped")
             /\ Rm(InInbox(b))
             /\ ended' = [ended EXCEPT ![b] = "dropped"]
             /\ index' = Unindexed(index, b)
             /\ cooling' = cooling \ {b}
             /\ UNCHANGED <<saved, delivery, queue, cleaning>>
          \/ /\ Goes("pending")
             /\ count(TRUE, ~d.pending)
             /\ UNCHANGED <<queue, cleaning>>
          \/ /\ Goes("committed")
             /\ count(FALSE, FALSE)
             /\ Accepted(b, actor[a].flag)
          \/ /\ Goes("committed") \/ Trouble
             /\ count(FALSE, TRUE)
             /\ UNCHANGED <<queue, cleaning>>
       /\ Done(a)
       /\ UNCHANGED <<flushed, whole, safe, ready, dir, started, storageReady, loaded, scanVars,
                      admission, recording, rows, hollow, unread, committed, producer>>

-----------------------------------------------------------------------------
(* The replayer.                                                           *)

Start ==
    /\ ~started /\ actor[Replayer].pc = "idle"
    /\ started' = TRUE /\ storageReady' = FALSE
    /\ UNCHANGED <<disk, actor, loaded, index, delivery, cooling, scanVars, logVars, producer,
                   ended, trouble>>

\* scheduleStartupReplay, and reconcileStagingBundles: the directories in
\* staging with a ready file.
StartupBegins ==
    /\ actor[Replayer].pc = "idle" /\ started /\ ~storageReady
    /\ Becomes(Replayer, AtLoop("recover"))
    /\ todo' = {b \in ready : at[b] = "staging"}
    /\ UNCHANGED <<disk, memory, observed, overdue, pass, logVars, producer, ended,
                   trouble>>

Recover ==
    /\ actor[Replayer].pc = "recover"
    /\ \E b \in todo :
           /\ todo' = todo \ {b}
           /\ IF at[b] = "staging" THEN Becomes(Replayer, DoingStaged(b, "startup"))
                                   ELSE UNCHANGED actor
    /\ UNCHANGED <<disk, memory, observed, overdue, pass, logVars, producer, ended,
                   trouble>>

\* refreshInboxIndex: entries without a directory go, directories without an
\* entry come, and the oldest entries beyond the capacity (in bundles or bytes)
\* become dead letters, until one of them cannot be moved.
RefreshIndex ==
    LET present == Only(index, {b \in Bundles : at[b] = "inbox"})
        new == {b \in Bundles : at[b] = "inbox"} \ ToSet(index)
    IN \E order \in SetToSeqs(new) :
           LET all == present \o order
           IN /\ loaded' = TRUE
              /\ delivery' = [b \in Bundles |-> IF b \in new THEN saved[b] ELSE delivery[b]]
              /\ \E excess \in 0 .. Len(all) :
                     /\ (Len(all) - excess <= MaxInbox /\ NoTrouble) \/ (all # <<>> /\ Trouble)
                     /\ index' = SubSeq(all, excess + 1, Len(all))
                     /\ DeadLetter({all[i] : i \in 1 .. excess})

FinishStartup ==
    /\ actor[Replayer].pc = "recover" /\ todo = {}
    /\ RefreshIndex
    /\ storageReady' = TRUE
    /\ Becomes(Replayer, AtLoop("refresh"))
    /\ UNCHANGED <<whole, safe, ready, saved, dir, started, cooling, scanVars, logVars,
                   producer, ended>>

PassBegins ==
    \/ actor[Replayer].pc = "refresh"
    \/ (actor[Replayer].pc = "idle" /\ started /\ storageReady)

\* replayStoredBundles, when the directories were looked at lately.
Replay ==
    /\ PassBegins
    /\ RefreshIndex
    /\ pass' = ToSet(index')
    /\ Becomes(Replayer, AtLoop("visit"))
    /\ UNCHANGED <<whole, safe, ready, saved, dir, started, storageReady, cooling, observed,
                   overdue, todo, logVars, producer, ended>>

\* And when it is time to look at them: reconcileSourceBundles.
ReplayWithScan ==
    /\ PassBegins
    /\ RefreshIndex
    /\ todo' = {b \in Bundles : at[b] \in {"open", "source", "staging"}}
    /\ Becomes(Replayer, AtLoop("scan"))
    /\ UNCHANGED <<whole, safe, ready, saved, dir, started, storageReady, cooling, observed,
                   overdue, pass, logVars, producer, ended>>

\* Mutant: a directory in staging without a ready file is not observed.
IncompleteSource(b) == at[b] = "open"

Incomplete(b) == at[b] = "open" \/ (at[b] = "staging" /\ b \notin ready)

\* A directory with a manifest is adopted, one in staging with a ready file
\* published; the others are observed.
Scan ==
    /\ actor[Replayer].pc = "scan"
    /\ \E b \in todo :
           /\ todo' = todo \ {b}
           /\ \/ /\ at[b] = "source"
                 /\ Becomes(Replayer, Doing("claim", b, "source"))
                 /\ UNCHANGED observed
              \/ /\ at[b] = "staging" /\ b \in ready
                 /\ Becomes(Replayer, DoingStaged(b, "staging"))
                 /\ UNCHANGED observed
              \/ /\ Incomplete(b)
                 /\ observed' = observed \union {<<b, IF at[b] = "open" THEN None ELSE dir[b]>>}
                 /\ UNCHANGED actor
              \/ /\ at[b] # "source" /\ ~(at[b] = "staging" /\ b \in ready)
                 /\ ~Incomplete(b)
                 /\ UNCHANGED <<actor, observed>>
    /\ UNCHANGED <<disk, memory, overdue, pass, logVars, producer, ended, trouble>>

\* Is the observed directory still there?
InPlace(o) ==
    IF o[2] = None THEN at[o[1]] \in {"open", "source"}
                ELSE at[o[1]] = "staging" /\ dir[o[1]] = o[2]

\* expireIncompleteSources: what was quiet for its time is published, if it is
\* a whole bundle in staging, or else becomes a dead letter.  The capacity is
\* not looked at.
Expire ==
    LET seen == {o \in observed : InPlace(o)}
        late == seen \intersect overdue
        staged == {o[1] : o \in {p \in late : p[2] # None}}
    IN /\ actor[Replayer].pc = "scan" /\ todo = {}
       /\ \E good \in SUBSET {b \in staged : whole[b]} :
              LET bad == {o[1] : o \in late} \ good
              IN /\ IF \A b \in staged \intersect bad : ~whole[b] THEN NoTrouble ELSE Trouble
                 /\ at' = [b \in Bundles |-> IF b \in good THEN "inbox"
                                             ELSE IF b \in bad THEN "dead" ELSE at[b]]
                 /\ flushed' = [b \in Bundles |-> IF b \in good \union bad THEN at'[b]
                                                  ELSE flushed[b]]
                 /\ safe' = safe \union good /\ ready' = ready \union good
                 /\ \E order \in SetToSeqs(good \ ToSet(index)) : index' = index \o order
                 /\ delivery' = [b \in Bundles |-> IF b \in good THEN saved[b] ELSE delivery[b]]
       /\ observed' = seen \ late /\ overdue' = {}
       /\ pass' = ToSet(index')
       /\ Becomes(Replayer, AtLoop("visit"))
       /\ UNCHANGED <<whole, saved, dir, started, storageReady, loaded, cooling, todo, logVars,
                      producer, ended>>

EndPass ==
    /\ actor[Replayer].pc = "visit" /\ pass = {}
    /\ Becomes(Replayer, Resting)
    /\ cooling' = cooling \intersect ToSet(index)
    /\ UNCHANGED <<disk, started, storageReady, loaded, index, delivery, scanVars, logVars,
                   producer, ended, trouble>>

\* stop() clears the timer and waits for what runs; Start waits for the replayer
\* only, because a handler may take a request after stop().
Stop ==
    /\ started /\ Trouble
    /\ started' = FALSE
    /\ UNCHANGED <<disk, actor, storageReady, loaded, index, delivery, cooling, scanVars, logVars,
                   producer, ended>>

\* The process ends, or the machine: what is not flushed may be lost, the last
\* commits included (the database runs with synchronous = NORMAL).
Crash ==
    /\ Trouble
    /\ \E back \in SUBSET {b \in Bundles : flushed[b] # at[b]} :
           at' = [b \in Bundles |-> IF b \in back THEN flushed[b] ELSE at[b]]
    /\ flushed' = at'
    /\ \E torn \in SUBSET {b \in Bundles \ safe : at[b] \notin {"nowhere", "gone"}} :
           whole' = [b \in Bundles |-> whole[b] /\ b \notin torn]
    /\ \E n \in 0 .. Len(rows) : rows' = SubSeq(rows, 1, n)
    /\ hollow' = hollow \intersect ToSet(rows')
    /\ actor' = [a \in Actors |-> Resting]
    /\ started' = FALSE /\ storageReady' = FALSE /\ loaded' = FALSE
    /\ index' = <<>> /\ cooling' = {} /\ observed' = {} /\ overdue' = {}
    /\ delivery' = [b \in Bundles |-> Fresh]
    /\ todo' = {} /\ pass' = {}
    /\ queue' = <<>> /\ cleaning' = {}
    /\ UNCHANGED <<safe, ready, saved, dir, admission, recording, unread, committed,
                   producer, ended>>

Procedure(a) == \/ Claim(a) \/ Prepare(a) \/ Publish(a) \/ Flush(a) \/ Register(a)
                \/ Offer(a)

ReplayLoop == \/ Start \/ StartupBegins \/ Recover \/ FinishStartup
              \/ Replay \/ ReplayWithScan \/ Scan \/ Expire \/ Visit \/ EndPass

Next ==
    \/ \E b \in Bundles : \/ Begin(b) \/ Finish(b) \/ Decide(b) \/ Cleanup(b)
                          \/ Prune(b) \/ CooldownEnds(b)
    \/ ToggleRecording \/ Write
    \/ \E o \in observed : QuietPeriodEnds(o)
    \/ \E h \in Handlers : Apply(h) \/ \E b \in Bundles : Post(h, b)
    \/ \E a \in Actors : Procedure(a)
    \/ ReplayLoop \/ Stop \/ Crash

Spec == Init /\ [][Next]_vars

\* The replayer goes on, with its timers, now and then a pass looks at the
\* directories, and an offer ends, for which stop() waits.  The producer, the
\* publication by a handler, the writer and the decision upon the record may
\* all be stuck.
FairSpec ==
    /\ Spec /\ \A h \in Handlers : WF_vars(Apply(h) \/ Offer(h))
    /\ WF_vars(Procedure(Replayer)) /\ WF_vars(ReplayLoop) /\ SF_vars(ReplayWithScan)
    /\ WF_vars(\E b \in Bundles : CooldownEnds(b))
    /\ WF_vars(\E o \in observed : QuietPeriodEnds(o))

-----------------------------------------------------------------------------
(* Properties.                                                             *)

\* The bundle needs no keeping any more: the writer has committed it, its
\* record was turned away, request logs are off, or its time as a dead letter
\* is over.
Settled(b) == b \in committed \/ ended[b] # "no"

\* Until a bundle is settled its directory is somewhere, acknowledged or not.
\* What the producer was told is durable is even whole, and in the inbox, among
\* the dead letters, or, after a power loss, in staging with the ready file that
\* lets the startup publish it.
AckedIsKept ==
    \A b \in Bundles : ~Settled(b) =>
        /\ at[b] # "gone"
        /\ told[b] = "durable" =>
             /\ whole[b]
             /\ at[b] \in {"inbox", "dead"} \/ (at[b] = "staging" /\ b \in ready)

\* A bundle is written without its bodies only if its directory was moved to
\* the dead letters, or removed because request logs were switched off, while
\* its update was waiting for the writer, or if reading a part failed: not
\* because somebody has cleaned up too early.  (Bodies that the settings or the
\* pressure on the queue suppress are not meant.)
BodiesLostForAReason ==
    \A b \in hollow : at[b] = "dead" \/ ended[b] \in {"pruned", "disabled"} \/ b \in unread

\* A bundle the producer has finished, posted or not, is settled or becomes a
\* dead letter, unless a power loss tore its parts.
FinishedIsSettled ==
    \A b \in Bundles : []<>(b \in finished => Settled(b) \/ at[b] = "dead" \/ ~whole[b])

\* No bundle stays in the inbox: what the writer never acknowledges, because it
\* is stuck or a restart has lost the update or the acknowledgment, is offered
\* again until its attempts are used up.
InboxDrains == \A b \in Bundles : []<>(at[b] # "inbox")

\* "isolates incomplete source bundles": so does a torn one.
TornIsIsolated ==
    \A b \in Bundles : []<>(b \in finished => Settled(b) \/ at[b] = "dead")
=============================================================================
