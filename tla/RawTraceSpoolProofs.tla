------------------------ MODULE RawTraceSpoolProofs ------------------------
(***************************************************************************)
(* Proofs about RawTraceSpool: what was acknowledged is kept, and a bundle *)
(* is written without its bodies only for a reason.                        *)
(*                                                                         *)
(* The invariant says, of every bundle, where its directory may be and     *)
(* where a power loss may put it back to; of every actor, what it may rely *)
(* on at each await, whatever the others did meanwhile; and of every list  *)
(* of bundles still to be offered, that each is in the inbox or accounted  *)
(* for.  Calm(b) is what every step but a crash does for a bundle, and     *)
(* why an actor that did not move may still rely on what it relied on.     *)
(***************************************************************************)
EXTENDS RawTraceSpool, OrderLemmas, SequenceTheorems, TLAPS

-----------------------------------------------------------------------------
(* The invariant.                                                          *)

\* The bodies may be lost: the directory left the inbox for a reason that is not
\* "committed", or a part was not read.
Lost(b) == at[b] = "dead" \/ ended[b] \in {"pruned", "disabled"} \/ b \in unread

\* If the bodies are not in the inbox, this is why.
Accounted(b) == b \in ToSet(rows) \/ admission[b] = "dropped" \/ Lost(b)

Present(b) == at[b] = "inbox" \/ Accounted(b)

BundleOK(b) ==
    /\ at[b] \notin {"inbox", "gone"} => flushed[b] = at[b]
    /\ at[b] = "inbox" => flushed[b] \in {"staging", "inbox"}
    /\ at[b] = "gone" => Settled(b)
    /\ at[b] = "inbox" \/ flushed[b] = "inbox" => b \in ready
    /\ b \in ready => b \in safe /\ whole[b]
    /\ told[b] = "durable" =>
         Settled(b) \/ (b \in ready /\ at[b] \in {"staging", "inbox", "dead"})
    /\ ended[b] = "dropped" => admission[b] = "dropped"
    /\ b \in cleaning => b \in committed /\ b \in ToSet(rows)
    /\ b \in hollow => admission[b] = "committed" /\ Lost(b)

\* The steps of an actor that are about a bundle.
Busy == {"claim", "prepare", "publish", "flush", "register", "take", "offer"}

ActorOK(a) ==
    LET b == actor[a].on
        pc == actor[a].pc
    IN  /\ pc \in Busy => b \in Bundles
        /\ pc = "publish" => b \in ready
        /\ pc \in {"flush", "register"} =>
             Settled(b) \/ (b \in ready /\ at[b] \in {"inbox", "dead"})
        /\ pc \in {"prepare", "publish"} /\ actor[a].how \in {"post", "source"}
             /\ at[b] = "staging" => Settled(b) \/ told[b] # "durable"
        /\ pc \in {"flush", "register", "take", "offer"} => Present(b)
        /\ pc = "offer" /\ ~actor[a].flag => Accounted(b)

QueuedOK(update) ==
    /\ admission[update.bundle] = "committed"
    /\ Present(update.bundle)
    /\ ~update.whole => Accounted(update.bundle)

ListsOK ==
    /\ \A b \in ToSet(index) : Present(b)
    /\ \A b \in pass : Present(b)
    /\ \A i \in DOMAIN queue : QueuedOK(queue[i])

SpoolInv ==
    /\ TypeOK
    /\ \A b \in Bundles : BundleOK(b)
    /\ \A a \in Actors : ActorOK(a)
    /\ ListsOK

\* What a step, unless it is a crash, leaves true of a bundle.
Calm(b) ==
    /\ b \in ready => b \in ready'
    /\ Settled(b) => Settled(b)'
    /\ at[b] \in {"inbox", "dead"} => at'[b] \in {"inbox", "dead"} \/ Settled(b)'
    /\ at'[b] = "staging" /\ told'[b] = "durable" =>
         Settled(b)' \/ (at[b] = "staging" /\ told[b] = "durable")
    /\ Present(b) => Present(b)'
    /\ Accounted(b) => Accounted(b)'
    /\ admission[b] = "committed" => admission'[b] = "committed"

-----------------------------------------------------------------------------
(* The type invariant in parts.                                            *)

DiskTypes ==
    /\ at \in [Bundles -> Places] /\ flushed \in [Bundles -> Places]
    /\ whole \in [Bundles -> BOOLEAN] /\ dir \in [Bundles -> Actors \union {None}]
    /\ safe \subseteq Bundles /\ ready \subseteq Bundles
    /\ saved \in [Bundles -> Delivery]
ActorTypes == actor \in [Actors -> Work]
MemoryTypes ==
    /\ {started, storageReady, loaded} \subseteq BOOLEAN
    /\ index \in Seq(Bundles) /\ IsInjective(index)
    /\ delivery \in [Bundles -> Delivery] /\ cooling \subseteq Bundles
ScanTypes ==
    /\ observed \subseteq Bundles \X (Actors \union {None}) /\ overdue \subseteq observed
    /\ todo \subseteq Bundles /\ pass \subseteq Bundles
LogTypes ==
    /\ admission \in [Bundles -> {"pending", "committed", "dropped"}]
    /\ recording \in BOOLEAN
    /\ queue \in Seq([bundle : Bundles, whole : BOOLEAN])
    /\ rows \in Seq(Bundles)
    /\ hollow \subseteq Bundles /\ unread \subseteq Bundles
    /\ cleaning \subseteq Bundles /\ committed \subseteq Bundles
ProducerTypes ==
    /\ finished \subseteq Bundles
    /\ posts \in [Bundles -> 0 .. MaxPosts]
    /\ told \in [Bundles -> {"nothing", "durable", "dead", "disabled"}]
EndedTypes == ended \in [Bundles -> {"no", "dropped", "disabled", "pruned"}]
TroubleTypes == trouble \in 0 .. MaxTrouble

LEMMA TypeParts ==
    TypeOK <=> /\ DiskTypes /\ ActorTypes /\ MemoryTypes /\ ScanTypes
               /\ LogTypes /\ ProducerTypes /\ EndedTypes /\ TroubleTypes
<1>1. UNION {hollow, unread, cleaning, finished, committed} \subseteq Bundles
        <=> /\ unread \subseteq Bundles
            /\ hollow \subseteq Bundles /\ cleaning \subseteq Bundles
            /\ finished \subseteq Bundles /\ committed \subseteq Bundles
  OBVIOUS
<1> QED BY <1>1 DEF TypeOK, DiskTypes, ActorTypes, MemoryTypes, ScanTypes, LogTypes,
                    ProducerTypes, EndedTypes, TroubleTypes

\* Only the parts that a step touches are to be looked at.
LEMMA TypeStep ==
    ASSUME TypeOK,
           UNCHANGED disk \/ DiskTypes', UNCHANGED actor \/ ActorTypes',
           UNCHANGED memory \/ MemoryTypes', UNCHANGED scanVars \/ ScanTypes',
           UNCHANGED logVars \/ LogTypes', UNCHANGED producer \/ ProducerTypes',
           UNCHANGED ended \/ EndedTypes', Trouble \/ NoTrouble
    PROVE  TypeOK'
<1>1. DiskTypes /\ UNCHANGED disk => DiskTypes'
  BY DEF DiskTypes, disk
<1>2. ActorTypes /\ UNCHANGED actor => ActorTypes'
  BY DEF ActorTypes
<1>3. MemoryTypes /\ UNCHANGED memory => MemoryTypes'
  BY DEF MemoryTypes, memory
<1>4. ScanTypes /\ UNCHANGED scanVars => ScanTypes'
  BY DEF ScanTypes, scanVars
<1>5. LogTypes /\ UNCHANGED logVars => LogTypes'
  BY DEF LogTypes, logVars
<1>6. ProducerTypes /\ UNCHANGED producer => ProducerTypes'
  BY DEF ProducerTypes, producer
<1>7. EndedTypes /\ UNCHANGED ended => EndedTypes'
  BY DEF EndedTypes
<1>8. TroubleTypes /\ (Trouble \/ NoTrouble) => TroubleTypes'
  BY SpoolAssumption DEF TroubleTypes, Trouble, NoTrouble
<1>9. /\ DiskTypes' /\ ActorTypes' /\ MemoryTypes' /\ ScanTypes'
      /\ LogTypes' /\ ProducerTypes' /\ EndedTypes' /\ TroubleTypes'
  BY <1>1, <1>2, <1>3, <1>4, <1>5, <1>6, <1>7, <1>8, TypeParts
<1>10. UNION {hollow', unread', cleaning', finished', committed'} \subseteq Bundles
         <=> /\ unread' \subseteq Bundles
             /\ hollow' \subseteq Bundles /\ cleaning' \subseteq Bundles
             /\ finished' \subseteq Bundles /\ committed' \subseteq Bundles
  OBVIOUS
<1> QED BY <1>9, <1>10 DEF TypeOK, DiskTypes, ActorTypes, MemoryTypes, ScanTypes, LogTypes,
                           ProducerTypes, EndedTypes, TroubleTypes

-----------------------------------------------------------------------------
(* What becomes of an actor.                                               *)

LEMMA WorkFields ==
    ASSUME NEW w \in Work
    PROVE  /\ w.pc \in {"idle", "claim", "prepare", "publish", "flush", "register", "take",
                        "offer", "recover", "refresh", "scan", "visit"}
           /\ w.on \in Bundles \union {None}
           /\ w.how \in {"none", "post", "source", "staging", "startup"}
           /\ w.dir \in Actors \union {None} /\ w.flag \in BOOLEAN
BY DEF Work

\* The work that the procedures give to an actor.
LEMMA Works ==
    /\ Resting \in Work /\ Resting.pc = "idle"
    /\ \A pc \in {"recover", "refresh", "scan", "visit"} : AtLoop(pc) \in Work /\ AtLoop(pc).pc = pc
    /\ \A b \in Bundles : \A pc \in Busy : \A how \in {"none", "post", "source", "staging", "startup"} :
           LET w == Doing(pc, b, how)
           IN  /\ w \in Work /\ w.pc = pc /\ w.on = b /\ w.how = how /\ w.dir = None /\ ~w.flag
<1>1. Resting \in Work /\ Resting.pc = "idle"
  BY DEF Work, Resting
<1>2. \A pc \in {"recover", "refresh", "scan", "visit"} : AtLoop(pc) \in Work /\ AtLoop(pc).pc = pc
  BY DEF Work, Resting, AtLoop
<1>3. ASSUME NEW b \in Bundles, NEW pc \in Busy,
             NEW how \in {"none", "post", "source", "staging", "startup"}
      PROVE  LET w == Doing(pc, b, how)
             IN  /\ w \in Work /\ w.pc = pc /\ w.on = b /\ w.how = how /\ w.dir = None /\ ~w.flag
  <2>1. pc \in {"idle", "claim", "prepare", "publish", "flush", "register", "take",
                "offer", "recover", "refresh", "scan", "visit"}
    BY DEF Busy
  <2>2. Doing(pc, b, how) \in Work
    BY <2>1 DEF Doing, Resting, Work
  <2> QED BY <2>2 DEF Doing, Resting
<1> QED BY <1>1, <1>2, <1>3

\* A new piece of work is given.
LEMMA Becoming ==
    ASSUME ActorTypes, NEW a \in Actors, NEW w \in Work, Becomes(a, w)
    PROVE  /\ ActorTypes' /\ actor'[a] = w
           /\ \A x \in Actors \ {a} : actor'[x] = actor[x]
BY DEF ActorTypes, Becomes

\* Only the step of the procedure changes.
LEMMA Stepping ==
    ASSUME ActorTypes, NEW a \in Actors, NEW pc \in Busy, Step(a, pc)
    PROVE  /\ ActorTypes' /\ actor'[a].pc = pc /\ actor'[a].on = actor[a].on
           /\ actor'[a].how = actor[a].how /\ actor'[a].dir = actor[a].dir
           /\ actor'[a].flag = actor[a].flag
           /\ \A x \in Actors \ {a} : actor'[x] = actor[x]
<1>1. actor[a] \in Work
  BY DEF ActorTypes
<1>2. actor' = [actor EXCEPT ![a] = [actor[a] EXCEPT !.pc = pc]]
  BY DEF Step
<1>3. [actor[a] EXCEPT !.pc = pc] \in Work
  BY <1>1 DEF Work, Busy
<1>4. ActorTypes' /\ \A x \in Actors \ {a} : actor'[x] = actor[x]
  BY <1>2, <1>3 DEF ActorTypes
<1>5. actor'[a] = [actor[a] EXCEPT !.pc = pc]
  BY <1>2 DEF ActorTypes
<1> QED BY <1>1, <1>4, <1>5 DEF Work

LEMMA Quitting ==
    ASSUME ActorTypes, NEW a \in Actors, Abandon(a)
    PROVE  /\ ActorTypes' /\ actor'[a].pc \notin Busy
           /\ \A x \in Actors \ {a} : actor'[x] = actor[x]
<1> DEFINE w == CASE actor[a].how = "post" -> Resting
                  [] actor[a].how = "startup" -> AtLoop("recover")
                  [] OTHER -> AtLoop("scan")
<1>1. w = Resting \/ w = AtLoop("recover") \/ w = AtLoop("scan")
  OBVIOUS
<1>2. w \in Work /\ w.pc \notin Busy
  BY <1>1, Works DEF Busy
<1>3. Becomes(a, w)
  BY DEF Abandon
<1> HIDE DEF w
<1> QED BY <1>2, <1>3, Becoming

\* An offer is over.
LEMMA Finishing ==
    ASSUME ActorTypes, NEW a \in Actors, Done(a)
    PROVE  /\ ActorTypes' /\ actor'[a].pc \notin Busy
           /\ \A x \in Actors \ {a} : actor'[x] = actor[x]
<1> DEFINE w == IF a = Replayer THEN AtLoop("visit") ELSE Resting
<1>1. w = Resting \/ w = AtLoop("visit")
  OBVIOUS
<1>2. w \in Work /\ w.pc \notin Busy
  BY <1>1, Works DEF Busy
<1>3. Becomes(a, w)
  BY DEF Done
<1> HIDE DEF w
<1> QED BY <1>2, <1>3, Becoming

\* An actor that is between two bundles relies on nothing.
LEMMA Unengaged ==
    ASSUME NEW a, actor'[a].pc \notin Busy
    PROVE  ActorOK(a)'
BY DEF ActorOK, Busy

\* What the scan may note about a directory.
LEMMA NotedTypes ==
    ASSUME ActorTypes, NEW a \in Actors, actor[a].on \in Bundles
    PROVE  Noted(a) \subseteq Bundles \X (Actors \union {None})
<1>1. actor[a].dir \in Actors \union {None}
  BY WorkFields DEF ActorTypes
<1> DEFINE b == actor[a].on
           d == actor[a].dir
<1>2. /\ {<<b, None>>} \subseteq Bundles \X (Actors \union {None})
      /\ {<<b, d>>} \subseteq Bundles \X (Actors \union {None})
  BY <1>1
<1>3. Noted(a) = {<<b, None>>} \/ Noted(a) = {<<b, d>>} \/ Noted(a) = {}
  BY DEF Noted
<1> QED BY <1>2, <1>3

-----------------------------------------------------------------------------
(* What a step leaves alone.                                               *)

\* A bundle that a step did not touch, but for the place of its directory.
Stays(b) ==
    /\ whole'[b] = whole[b]
    /\ b \in ready' <=> b \in ready
    /\ b \in safe => b \in safe'
    /\ told'[b] = "durable" => told[b] = "durable"
    /\ ended'[b] = ended[b]
    /\ b \in committed => b \in committed'
    /\ b \in ToSet(rows) => b \in ToSet(rows')
    /\ admission'[b] = admission[b]
    /\ b \in cleaning' => b \in cleaning
    /\ b \in hollow' => b \in hollow
    /\ b \in unread => b \in unread'

Same(b) == at'[b] = at[b] /\ flushed'[b] = flushed[b] /\ Stays(b)

LEMMA SameIsCalm ==
    ASSUME NEW b, BundleOK(b), Same(b)
    PROVE  BundleOK(b)' /\ Calm(b)
<1>1. /\ Settled(b) => Settled(b)'
      /\ Lost(b) => Lost(b)'
      /\ Accounted(b) => Accounted(b)'
      /\ Present(b) => Present(b)'
  BY DEF Same, Stays, Settled, Lost, Accounted, Present
<1>2. Calm(b)
  BY <1>1 DEF Same, Stays, Calm
<1>3. BundleOK(b)'
  BY <1>1 DEF Same, Stays, BundleOK
<1> QED BY <1>2, <1>3

\* An actor that did not move may rely on what it relied on.
LEMMA CalmKeepsActor ==
    ASSUME NEW a \in Actors, ActorOK(a), actor'[a] = actor[a], \A b \in Bundles : Calm(b)
    PROVE  ActorOK(a)'
<1> SUFFICES ASSUME actor[a].pc \in Busy PROVE ActorOK(a)'
  BY Unengaged
<1> DEFINE b == actor[a].on
<1>1. b \in Bundles /\ Calm(b) /\ actor'[a].on = b
  BY DEF ActorOK
<1>2. actor'[a].pc = actor[a].pc /\ actor'[a].how = actor[a].how /\ actor'[a].flag = actor[a].flag
  OBVIOUS
<1> HIDE DEF b
<1> QED BY <1>1, <1>2 DEF ActorOK, Calm, b

\* From the parts to the whole: of the bundles and the actors that a step
\* touched, and of what it put into the lists, something is to be shown.
LEMMA Together ==
    ASSUME SpoolInv, TypeOK',
           \A b \in Bundles : BundleOK(b)' /\ Calm(b),
           \A a \in Actors : ActorOK(a)' \/ actor'[a] = actor[a],
           \A b \in ToSet(index') : b \in ToSet(index) \/ Present(b)',
           \A b \in pass' : b \in pass \/ Present(b)',
           \A i \in DOMAIN queue' :
               (\E j \in DOMAIN queue : queue'[i] = queue[j]) \/ QueuedOK(queue[i])'
    PROVE  SpoolInv'
<1>1. \A a \in Actors : ActorOK(a)'
  BY CalmKeepsActor DEF SpoolInv
<1>2. ToSet(index) \subseteq Bundles /\ pass \subseteq Bundles
  BY TypeParts, ElementOfSeq DEF SpoolInv, MemoryTypes, ScanTypes, ToSet
<1>3. \A b \in ToSet(index') : Present(b)'
  BY <1>2 DEF SpoolInv, ListsOK, Calm
<1>4. \A b \in pass' : Present(b)'
  BY <1>2 DEF SpoolInv, ListsOK, Calm
<1>5. ASSUME NEW i \in DOMAIN queue' PROVE QueuedOK(queue[i])'
  <2>1. (\E j \in DOMAIN queue : queue'[i] = queue[j]) \/ QueuedOK(queue[i])'
    BY <1>5
  <2>2. ASSUME NEW j \in DOMAIN queue, queue'[i] = queue[j] PROVE QueuedOK(queue[i])'
    <3>1. queue \in Seq([bundle : Bundles, whole : BOOLEAN])
      BY TypeParts DEF SpoolInv, LogTypes
    <3>2. PICK u \in [bundle : Bundles, whole : BOOLEAN] : u = queue[j]
      BY <3>1, ElementOfSeq, LenProperties
    <3>3. u.bundle \in Bundles /\ QueuedOK(u)
      BY <3>2 DEF SpoolInv, ListsOK
    <3>4. PICK b \in Bundles : b = u.bundle
      BY <3>3
    <3>5. /\ admission[b] = "committed" /\ Present(b)
          /\ ~u.whole => Accounted(b)
      BY <3>3, <3>4 DEF QueuedOK
    <3>6. /\ admission'[b] = "committed" /\ Present(b)'
          /\ ~u.whole => Accounted(b)'
      BY <3>5 DEF Calm
    <3>7. queue'[i] = u
      BY <2>2, <3>2
    <3> QED BY <3>4, <3>6, <3>7 DEF QueuedOK
  <2> QED BY <2>1, <2>2
<1> QED BY <1>1, <1>3, <1>4, <1>5 DEF SpoolInv, ListsOK

\* The same for a step that touches neither the lists nor an actor.
LEMMA Quietly ==
    ASSUME SpoolInv, TypeOK', \A b \in Bundles : BundleOK(b)' /\ Calm(b),
           UNCHANGED <<actor, index, pass, queue, rows>>
    PROVE  SpoolInv'
BY Together DEF SpoolInv, ListsOK

\* The same for a step of one actor that touches no list.
LEMMA QuietlyBy ==
    ASSUME SpoolInv, TypeOK', \A b \in Bundles : BundleOK(b)' /\ Calm(b),
           UNCHANGED <<index, pass, queue, rows>>,
           NEW a \in Actors, ActorOK(a)', \A x \in Actors \ {a} : actor'[x] = actor[x]
    PROVE  SpoolInv'
BY Together

\* A step that touches no bundle.
LEMMA NoBundleTouched ==
    ASSUME SpoolInv, UNCHANGED <<at, flushed, whole, safe, ready, told, ended, committed, rows,
                                 admission, cleaning, hollow, unread>>
    PROVE  \A b \in Bundles : BundleOK(b)' /\ Calm(b)
<1>1. \A b \in Bundles : Same(b)
  BY DEF Same, Stays
<1> QED BY <1>1, SameIsCalm DEF SpoolInv

-----------------------------------------------------------------------------
(* What the moves of a directory do.                                       *)

LEMMA Moving ==
    ASSUME DiskTypes, NEW b \in Bundles, NEW place \in Places, MoveTo(b, place)
    PROVE  /\ at' \in [Bundles -> Places] /\ flushed' \in [Bundles -> Places]
           /\ at'[b] = place /\ flushed'[b] = place
           /\ \A c \in Bundles \ {b} : at'[c] = at[c] /\ flushed'[c] = flushed[c]
BY DEF DiskTypes, MoveTo

LEMMA Removing ==
    ASSUME DiskTypes, NEW S, Rm(S)
    PROVE  /\ at' \in [Bundles -> Places]
           /\ \A c \in Bundles : at'[c] = IF c \in S THEN "gone" ELSE at[c]
BY DEF DiskTypes, Rm, Places

LEMMA Burying ==
    ASSUME DiskTypes, NEW S, DeadLetter(S)
    PROVE  /\ at' \in [Bundles -> Places] /\ flushed' \in [Bundles -> Places]
           /\ \A c \in Bundles : /\ at'[c] = IF c \in S THEN "dead" ELSE at[c]
                                 /\ flushed'[c] = IF c \in S THEN "dead" ELSE flushed[c]
BY DEF DiskTypes, DeadLetter, Places

\* A move between the places where nothing is promised yet.
LEMMA Relocated ==
    ASSUME NEW b, BundleOK(b), Stays(b), at[b] \in {"nowhere", "open", "source", "staging"},
           told[b] = "durable" => Settled(b),
           at'[b] \in {"open", "source", "staging"}, flushed'[b] = at'[b]
    PROVE  BundleOK(b)' /\ Calm(b)
<1>1. /\ Settled(b) => Settled(b)'
      /\ Lost(b) => Lost(b)'
      /\ Accounted(b) => Accounted(b)'
      /\ Present(b) => Present(b)'
  BY DEF Stays, Settled, Lost, Accounted, Present
<1>2. Calm(b)
  BY <1>1 DEF Stays, Calm
<1>3. BundleOK(b)'
  BY <1>1 DEF Stays, BundleOK
<1> QED BY <1>2, <1>3

\* A move to the dead letters.
LEMMA Buried ==
    ASSUME NEW b, BundleOK(b), Stays(b), at[b] \notin {"nowhere", "gone"},
           at'[b] = "dead", flushed'[b] = "dead"
    PROVE  BundleOK(b)' /\ Calm(b)
<1>1. /\ Settled(b) => Settled(b)'
      /\ Lost(b)' /\ Accounted(b)' /\ Present(b)'
  BY DEF Stays, Settled, Lost, Accounted, Present
<1>2. Calm(b)
  BY <1>1 DEF Stays, Calm
<1>3. BundleOK(b)'
  BY <1>1 DEF Stays, BundleOK
<1> QED BY <1>2, <1>3

\* A removal, with its reason.
LEMMA Removed ==
    ASSUME NEW b, BundleOK(b), at'[b] = "gone", flushed'[b] = flushed[b], whole'[b] = whole[b],
           b \in ready' <=> b \in ready, b \in safe => b \in safe', 
           told'[b] = "durable" => told[b] = "durable",
           Settled(b) => Settled(b)', Settled(b)',
           Present(b) => Accounted(b)', Lost(b) /\ admission[b] = "committed" => Lost(b)',
           admission'[b] = admission[b], ended'[b] = "dropped" => admission[b] = "dropped",
           b \in ToSet(rows) => b \in ToSet(rows'), b \in committed => b \in committed',
           b \in cleaning' => b \in cleaning, b \in hollow' => b \in hollow
    PROVE  BundleOK(b)' /\ Calm(b)
<1>1. Accounted(b) => Accounted(b)'
  BY DEF Present
<1>2. Calm(b)
  BY <1>1 DEF Calm, Present
<1>3. BundleOK(b)'
  BY DEF BundleOK
<1> QED BY <1>2, <1>3

-----------------------------------------------------------------------------
(* Lists that hold a bundle at most once.                                  *)

\* One more, that was not there.
LEMMA AddedOnce ==
    ASSUME NEW T, NEW s \in Seq(T), IsInjective(s), NEW e \in T, e \notin ToSet(s)
    PROVE  /\ Append(s, e) \in Seq(T) /\ IsInjective(Append(s, e))
           /\ ToSet(Append(s, e)) = ToSet(s) \union {e}
<1> DEFINE t == Append(s, e)
<1>1. /\ t \in Seq(T) /\ Len(t) = Len(s) + 1 /\ Len(s) \in Nat
      /\ DOMAIN s = 1 .. Len(s) /\ DOMAIN t = 1 .. Len(s) + 1
      /\ \A i \in 1 .. Len(s) : t[i] = s[i]
      /\ t[Len(s) + 1] = e
  BY AppendProperties, LenProperties
<1> HIDE DEF t
<1>2. \A i \in 1 .. Len(s) : s[i] # e
  BY <1>1 DEF ToSet
<1>3. IsInjective(t)
  BY <1>1, <1>2 DEF IsInjective
<1>4. ToSet(t) = ToSet(s) \union {e}
  <2>1. \A i \in DOMAIN t : i \in DOMAIN s \/ i = Len(s) + 1
    BY <1>1
  <2>2. \A i \in DOMAIN s : i \in DOMAIN t
    BY <1>1
  <2>3. Len(s) + 1 \in DOMAIN t
    BY <1>1
  <2> QED BY <1>1, <2>1, <2>2, <2>3 DEF ToSet
<1> QED BY <1>1, <1>3, <1>4 DEF t

\* A piece of a list.
LEMMA CutOut ==
    ASSUME NEW T, NEW s \in Seq(T), IsInjective(s), NEW m \in 1 .. Len(s) + 1, NEW n \in 0 .. Len(s)
    PROVE  /\ SubSeq(s, m, n) \in Seq(T) /\ IsInjective(SubSeq(s, m, n))
           /\ ToSet(SubSeq(s, m, n)) \subseteq ToSet(s)
           /\ \A i \in m .. n : s[i] \in ToSet(SubSeq(s, m, n))
<1> DEFINE t == SubSeq(s, m, n)
           k == IF m <= n THEN n - m + 1 ELSE 0
<1>0. Len(s) \in Nat /\ DOMAIN s = 1 .. Len(s) /\ \A i \in 1 .. Len(s) : s[i] \in T
  BY LenProperties, ElementOfSeq
<1>1. k \in Nat /\ \A i \in 1 .. k : m + i - 1 \in 1 .. Len(s)
  BY <1>0
<1>2. t = [i \in 1 .. k |-> s[m + i - 1]]
  BY <1>0, <1>1
<1>3. DOMAIN t = 1 .. k /\ \A i \in 1 .. k : t[i] = s[m + i - 1]
  BY <1>2
<1>4. t \in Seq(T)
  <2>1. t \in [1 .. k -> T]
    BY <1>0, <1>1, <1>2
  <2> QED BY <1>1, <2>1, IsASeq
<1>8. \A i \in m .. n : i - m + 1 \in 1 .. k /\ m + (i - m + 1) - 1 = i
  BY <1>0
<1> HIDE DEF t, k
<1>5. IsInjective(t)
  <2> SUFFICES ASSUME NEW i \in 1 .. k, NEW j \in 1 .. k, t[i] = t[j] PROVE i = j
    BY <1>3 DEF IsInjective
  <2>1. m + i - 1 = m + j - 1
    BY <1>0, <1>1, <1>3 DEF IsInjective
  <2> QED BY <1>1, <2>1
<1>6. ToSet(t) \subseteq ToSet(s)
  BY <1>0, <1>1, <1>3 DEF ToSet
<1>7. \A i \in m .. n : s[i] \in ToSet(t)
  BY <1>3, <1>8 DEF ToSet
<1> QED BY <1>4, <1>5, <1>6, <1>7 DEF t

\* Two lists with nothing in common.
LEMMA Joined ==
    ASSUME NEW T, NEW s \in Seq(T), IsInjective(s), NEW t \in Seq(T), IsInjective(t),
           ToSet(s) \intersect ToSet(t) = {}
    PROVE  /\ s \o t \in Seq(T) /\ IsInjective(s \o t)
           /\ ToSet(s \o t) = ToSet(s) \union ToSet(t)
<1> DEFINE u == s \o t
           m == Len(s)
           n == Len(t)
<1>0. /\ m \in Nat /\ n \in Nat /\ DOMAIN s = 1 .. m /\ DOMAIN t = 1 .. n
      /\ u \in Seq(T) /\ Len(u) = m + n
      /\ \A i \in 1 .. m + n : u[i] = IF i <= m THEN s[i] ELSE t[i - m]
  BY LenProperties, ConcatProperties
<1>1. DOMAIN u = 1 .. m + n
  BY <1>0, LenProperties
<1> HIDE DEF u, m, n
<1>2. \A i \in 1 .. m : i \in 1 .. m + n /\ u[i] = s[i]
  BY <1>0
<1>3. \A i \in 1 .. n : i + m \in 1 .. m + n /\ u[i + m] = t[i]
  BY <1>0
<1>4. \A i \in 1 .. m : \A j \in 1 .. n : s[i] # t[j]
  BY <1>0 DEF ToSet
<1>5. \A i \in 1 .. m + n : i \in 1 .. m \/ (i - m \in 1 .. n /\ u[i] = t[i - m])
  BY <1>0
<1>6. ToSet(u) = ToSet(s) \union ToSet(t)
  <2>1. ASSUME NEW i \in 1 .. m + n PROVE u[i] \in ToSet(s) \union ToSet(t)
    BY <1>0, <1>2, <1>5 DEF ToSet
  <2>2. ASSUME NEW i \in 1 .. m PROVE s[i] \in ToSet(u)
    BY <1>1, <1>2 DEF ToSet
  <2>3. ASSUME NEW i \in 1 .. n PROVE t[i] \in ToSet(u)
    BY <1>1, <1>3 DEF ToSet
  <2>4. ToSet(u) \subseteq ToSet(s) \union ToSet(t)
    BY <1>1, <2>1 DEF ToSet
  <2>5. ToSet(s) \subseteq ToSet(u)
    BY <1>0, <2>2 DEF ToSet
  <2>6. ToSet(t) \subseteq ToSet(u)
    BY <1>0, <2>3 DEF ToSet
  <2> QED BY <2>4, <2>5, <2>6
<1>7. IsInjective(u)
  <2> SUFFICES ASSUME NEW i \in 1 .. m + n, NEW j \in 1 .. m + n, u[i] = u[j] PROVE i = j
    BY <1>1 DEF IsInjective
  <2>1. CASE i \in 1 .. m /\ j \in 1 .. m
    <3>1. s[i] = s[j]
      BY <1>2, <2>1
    <3> QED BY <1>0, <2>1, <3>1 DEF IsInjective
  <2>2. CASE i \notin 1 .. m /\ j \notin 1 .. m
    <3>1. t[i - m] = t[j - m] /\ i - m \in 1 .. n /\ j - m \in 1 .. n
      BY <1>5, <2>2
    <3>2. i - m = j - m
      BY <1>0, <3>1 DEF IsInjective
    <3> QED BY <1>0, <3>2
  <2>3. CASE i \in 1 .. m /\ j \notin 1 .. m
    BY <1>2, <1>4, <1>5, <2>3
  <2>4. CASE i \notin 1 .. m /\ j \in 1 .. m
    BY <1>2, <1>4, <1>5, <2>4
  <2> QED BY <2>1, <2>2, <2>3, <2>4
<1> QED BY <1>0, <1>6, <1>7 DEF u

\* An order of a set of bundles.
LEMMA Ordering ==
    ASSUME NEW S, S \subseteq Bundles, NEW order \in SetToSeqs(S)
    PROVE  order \in Seq(Bundles) /\ IsInjective(order) /\ ToSet(order) \subseteq S
<1>1. IsFiniteSet(S)
  BY SpoolAssumption, FS_Subset
<1>2. PICK n \in Nat : n = Cardinality(S)
  BY <1>1, FS_CardinalityType
<1>3. order \in [1 .. n -> S] /\ \A i, j \in 1 .. n : i # j => order[i] # order[j]
  BY <1>2 DEF SetToSeqs
<1>4. order \in Seq(Bundles)
  <2>1. order \in [1 .. n -> Bundles]
    BY <1>3
  <2> QED BY <1>2, <2>1, IsASeq
<1>5. IsInjective(order)
  BY <1>3 DEF IsInjective
<1> QED BY <1>3, <1>4, <1>5 DEF ToSet

\* What is written, and what is entered in the index.
LEMMA AppliedRows ==
    ASSUME rows \in Seq(Bundles), NEW b \in Bundles
    PROVE  /\ Applied(b) \in Seq(Bundles)
           /\ ToSet(Applied(b)) = ToSet(rows) \union {b}
<1>1. Append(rows, b) \in Seq(Bundles) /\ DOMAIN rows = 1 .. Len(rows) /\ Len(rows) \in Nat
  BY AppendProperties, LenProperties
<1>2. /\ DOMAIN Append(rows, b) = 1 .. Len(rows) + 1
      /\ \A i \in 1 .. Len(rows) : Append(rows, b)[i] = rows[i]
      /\ Append(rows, b)[Len(rows) + 1] = b
  BY AppendProperties, LenProperties
<1>3. ToSet(Append(rows, b)) = ToSet(rows) \union {b}
  <2>1. \A i \in 1 .. Len(rows) + 1 : i \in 1 .. Len(rows) \/ i = Len(rows) + 1
    BY <1>1
  <2>2. \A i \in 1 .. Len(rows) : i \in 1 .. Len(rows) + 1
    BY <1>1
  <2>3. Len(rows) + 1 \in 1 .. Len(rows) + 1
    BY <1>1
  <2> QED BY <1>1, <1>2, <2>1, <2>2, <2>3 DEF ToSet
<1> QED BY <1>1, <1>3 DEF Applied

LEMMA IndexedEntries ==
    ASSUME NEW q \in Seq(Bundles), IsInjective(q), NEW b \in Bundles
    PROVE  /\ Indexed(q, b) \in Seq(Bundles) /\ IsInjective(Indexed(q, b))
           /\ ToSet(Indexed(q, b)) = ToSet(q) \union {b}
BY AddedOnce DEF Indexed

LEMMA UnindexedEntries ==
    ASSUME NEW q \in Seq(Bundles), IsInjective(q), NEW b
    PROVE  /\ Unindexed(q, b) \in Seq(Bundles) /\ IsInjective(Unindexed(q, b))
           /\ ToSet(Unindexed(q, b)) \subseteq ToSet(q)
<1> DEFINE t == Only(q, Bundles \ {b})
<1>1. t \in Seq(Bundles)
  BY OnlyKeeps
<1>2. IsInjective(t)
  BY OnlyKeeps
<1>3. \A k \in DOMAIN t : \E i \in DOMAIN q : t[k] = q[i]
  BY OnlyKeeps
<1> QED BY <1>1, <1>2, <1>3 DEF Unindexed, ToSet

-----------------------------------------------------------------------------
(* The producer, and what else happens around the synchronizer.            *)

LEMMA BeginStep ==
    ASSUME SpoolInv, NEW b \in Bundles, Begin(b) \/ Finish(b)
    PROVE  SpoolInv'
<1>1. DiskTypes /\ BundleOK(b) /\ TypeOK
  BY TypeParts DEF SpoolInv
<1>2. PICK place \in {"open", "source"} : MoveTo(b, place) /\ at[b] \in {"nowhere", "open"}
  BY DEF Begin, Finish
<1>3. UNCHANGED <<whole, safe, ready, saved, dir, actor, memory, scanVars, logVars, posts, told,
                  ended, trouble>>
  BY DEF Begin, Finish, producer
<1>4. finished' \subseteq Bundles
  BY <1>1 DEF Begin, Finish, producer, TypeOK
<1>5. /\ at' \in [Bundles -> Places] /\ flushed' \in [Bundles -> Places]
      /\ at'[b] = place /\ flushed'[b] = place
      /\ \A c \in Bundles \ {b} : at'[c] = at[c] /\ flushed'[c] = flushed[c]
  BY <1>1, <1>2, Moving DEF Places
<1>6. TypeOK'
  <2>1. DiskTypes'
    BY <1>1, <1>3, <1>5 DEF DiskTypes
  <2>2. ProducerTypes'
    BY <1>1, <1>3, <1>4, TypeParts DEF ProducerTypes
  <2> QED BY <1>1, <1>3, <2>1, <2>2, TypeStep DEF NoTrouble
<1>7. \A c \in Bundles : Stays(c)
  BY <1>3 DEF Stays, logVars
<1>8. BundleOK(b)' /\ Calm(b)
  BY <1>1, <1>2, <1>5, <1>7, Relocated DEF BundleOK
<1>9. \A c \in Bundles : BundleOK(c)' /\ Calm(c)
  BY <1>5, <1>7, <1>8, SameIsCalm DEF Same, SpoolInv
<1> QED BY <1>3, <1>6, <1>9, Quietly DEF memory, scanVars, logVars

LEMMA DecideStep ==
    ASSUME SpoolInv, NEW b \in Bundles, Decide(b)
    PROVE  SpoolInv'
<1>1. TypeOK /\ BundleOK(b)
  BY DEF SpoolInv
<1>2. UNCHANGED <<disk, actor, memory, scanVars, recording, queue, rows, hollow, unread,
                  cleaning, committed, producer, ended, trouble>> /\ admission[b] = "pending"
  BY DEF Decide
<1>3. PICK state \in {"committed", "dropped"} : admission' = [admission EXCEPT ![b] = state]
  BY DEF Decide
<1>4. /\ admission' \in [Bundles -> {"pending", "committed", "dropped"}]
      /\ \A c \in Bundles \ {b} : admission'[c] = admission[c]
  BY <1>1, <1>3 DEF TypeOK
<1>5. TypeOK'
  <2>1. LogTypes'
    BY <1>1, <1>2, <1>4, TypeParts DEF LogTypes
  <2> QED BY <1>1, <1>2, <2>1, TypeStep DEF NoTrouble
<1>6. BundleOK(b)' /\ Calm(b)
  <2>1. /\ Settled(b) <=> Settled(b)'
        /\ Lost(b) <=> Lost(b)'
        /\ Accounted(b) => Accounted(b)'
        /\ Present(b) => Present(b)'
    BY <1>2 DEF Settled, Lost, Accounted, Present, disk
  <2>2. Calm(b)
    BY <1>2, <2>1 DEF Calm, disk, producer
  <2>3. BundleOK(b)'
    BY <1>1, <1>2, <2>1 DEF BundleOK, disk, producer
  <2> QED BY <2>2, <2>3
<1>7. \A c \in Bundles \ {b} : Same(c)
  BY <1>2, <1>4 DEF Same, Stays, disk, producer
<1>8. \A c \in Bundles : BundleOK(c)' /\ Calm(c)
  BY <1>6, <1>7, SameIsCalm DEF SpoolInv
<1> QED BY <1>2, <1>5, <1>8, Quietly DEF memory, scanVars

LEMMA IdleSteps ==
    ASSUME SpoolInv,
           \/ ToggleRecording \/ Stop \/ Start
           \/ \E b \in Bundles : CooldownEnds(b)
           \/ \E o \in observed : QuietPeriodEnds(o)
    PROVE  SpoolInv'
<1>1. TypeOK
  BY DEF SpoolInv
<1>2. CASE ToggleRecording
  <2>1. TypeOK'
    <3>1. LogTypes'
      BY <1>1, <1>2, TypeParts DEF LogTypes, ToggleRecording
    <3> QED BY <1>1, <1>2, <3>1, TypeStep DEF ToggleRecording
  <2>2. \A b \in Bundles : BundleOK(b)' /\ Calm(b)
    BY <1>2, NoBundleTouched DEF ToggleRecording, disk, producer
  <2> QED BY <1>2, <2>1, <2>2, Quietly DEF ToggleRecording, memory, scanVars
<1>3. CASE Stop \/ Start
  <2>1. TypeOK'
    <3>1. MemoryTypes'
      BY <1>1, <1>3, TypeParts DEF MemoryTypes, Stop, Start
    <3> QED BY <1>1, <1>3, <3>1, TypeStep DEF Stop, Start, NoTrouble
  <2>2. \A b \in Bundles : BundleOK(b)' /\ Calm(b)
    BY <1>3, NoBundleTouched DEF Stop, Start, disk, producer, logVars
  <2> QED BY <1>3, <2>1, <2>2, Quietly DEF Stop, Start, scanVars, logVars
<1>4. CASE \E b \in Bundles : CooldownEnds(b)
  <2>1. TypeOK'
    <3>1. MemoryTypes'
      BY <1>1, <1>4, TypeParts DEF MemoryTypes, CooldownEnds
    <3> QED BY <1>1, <1>4, <3>1, TypeStep DEF CooldownEnds, NoTrouble
  <2>2. \A b \in Bundles : BundleOK(b)' /\ Calm(b)
    BY <1>4, NoBundleTouched DEF CooldownEnds, disk, producer, logVars
  <2> QED BY <1>4, <2>1, <2>2, Quietly DEF CooldownEnds, scanVars, logVars
<1>5. CASE \E o \in observed : QuietPeriodEnds(o)
  <2>1. TypeOK'
    <3>1. ScanTypes'
      BY <1>1, <1>5, TypeParts DEF ScanTypes, QuietPeriodEnds
    <3> QED BY <1>1, <1>5, <3>1, TypeStep DEF QuietPeriodEnds, NoTrouble
  <2>2. \A b \in Bundles : BundleOK(b)' /\ Calm(b)
    BY <1>5, NoBundleTouched DEF QuietPeriodEnds, disk, producer, logVars
  <2> QED BY <1>5, <2>1, <2>2, Quietly DEF QuietPeriodEnds, memory, logVars
<1> QED BY <1>2, <1>3, <1>4, <1>5

LEMMA CleanupStep ==
    ASSUME SpoolInv, NEW b \in Bundles, Cleanup(b)
    PROVE  SpoolInv'
<1>1. DiskTypes /\ LogTypes /\ TypeOK /\ BundleOK(b)
  BY TypeParts DEF SpoolInv
<1>2. /\ b \in cleaning /\ cleaning' = cleaning \ {b}
      /\ UNCHANGED <<flushed, whole, safe, ready, saved, dir, actor, memory, scanVars,
                     admission, recording, queue, rows, hollow, unread, committed, producer,
                     ended, trouble>>
      /\ Rm({b} \intersect {c \in Bundles : at[c] = "inbox"})
  BY DEF Cleanup, InInbox
<1>3. /\ at' \in [Bundles -> Places]
      /\ \A c \in Bundles \ {b} : at'[c] = at[c]
      /\ at'[b] = at[b] \/ (at'[b] = "gone" /\ at[b] = "inbox")
  BY <1>1, <1>2, Removing
<1>4. TypeOK'
  <2>1. DiskTypes'
    BY <1>1, <1>2, <1>3 DEF DiskTypes
  <2>2. LogTypes'
    BY <1>1, <1>2 DEF LogTypes
  <2> QED BY <1>1, <1>2, <2>1, <2>2, TypeStep DEF NoTrouble
<1>5. \A c \in Bundles : Stays(c)
  BY <1>2 DEF Stays, producer
<1>6. CASE at'[b] = "gone" /\ at[b] = "inbox"
  <2>1. b \in committed /\ b \in ToSet(rows)
    BY <1>1, <1>2 DEF BundleOK
  <2>2. Settled(b)' /\ Accounted(b)'
    BY <1>2, <2>1 DEF Settled, Accounted
  <2>3. Lost(b) => Lost(b)'
    BY <1>2, <1>6 DEF Lost
  <2>4. BundleOK(b)' /\ Calm(b)
    BY <1>1, <1>2, <1>6, <2>2, <2>3, Removed DEF producer, BundleOK
  <2> QED BY <1>2, <1>3, <1>4, <1>5, <2>4, SameIsCalm, Quietly DEF Same, SpoolInv, memory, scanVars
<1>7. CASE at'[b] = at[b]
  BY <1>2, <1>3, <1>4, <1>5, <1>7, SameIsCalm, Quietly DEF Same, SpoolInv, memory, scanVars
<1> QED BY <1>3, <1>6, <1>7

LEMMA PruneStep ==
    ASSUME SpoolInv, NEW b \in Bundles, Prune(b)
    PROVE  SpoolInv'
<1>1. DiskTypes /\ EndedTypes /\ TypeOK /\ BundleOK(b)
  BY TypeParts DEF SpoolInv
<1>2. /\ at[b] = "dead" /\ Rm({b})
      /\ ended' = [ended EXCEPT ![b] = IF ended[b] = "no" THEN "pruned" ELSE ended[b]]
      /\ UNCHANGED <<flushed, whole, safe, ready, saved, dir, actor, memory, scanVars,
                     logVars, producer, trouble>>
  BY DEF Prune
<1>3. /\ at' \in [Bundles -> Places] /\ at'[b] = "gone"
      /\ \A c \in Bundles \ {b} : at'[c] = at[c]
  BY <1>1, <1>2, Removing
<1>4. /\ EndedTypes' /\ ended'[b] = IF ended[b] = "no" THEN "pruned" ELSE ended[b]
      /\ \A c \in Bundles \ {b} : ended'[c] = ended[c]
  BY <1>1, <1>2 DEF EndedTypes
<1>5. TypeOK'
  <2>1. DiskTypes'
    BY <1>1, <1>2, <1>3 DEF DiskTypes
  <2> QED BY <1>1, <1>2, <1>4, <2>1, TypeStep DEF NoTrouble
<1>6. \A c \in Bundles \ {b} : Same(c)
  BY <1>2, <1>3, <1>4 DEF Same, Stays, producer, logVars
<1>7. BundleOK(b)' /\ Calm(b)
  <2>1. Settled(b)' /\ (Settled(b) => Settled(b)')
    BY <1>4 DEF Settled
  <2>2. ended[b] \in {"no", "dropped", "disabled", "pruned"}
    BY <1>1 DEF EndedTypes
  <2>3. ended[b] = "dropped" => admission[b] = "dropped"
    BY <1>1 DEF BundleOK
  <2>4. /\ Lost(b) /\ admission[b] = "committed" => Lost(b)'
        /\ Present(b) => Accounted(b)'
    BY <1>2, <1>4, <2>2, <2>3 DEF Present, Lost, Accounted, logVars
  <2>5. ended'[b] = "dropped" => admission[b] = "dropped"
    BY <1>4, <2>3
  <2> QED BY <1>1, <1>2, <1>3, <2>1, <2>4, <2>5, Removed DEF logVars, producer
<1> QED BY <1>2, <1>5, <1>6, <1>7, SameIsCalm, Quietly DEF SpoolInv, memory, scanVars, logVars

LEMMA WriteStep ==
    ASSUME SpoolInv, Write
    PROVE  SpoolInv'
<1>1. LogTypes /\ TypeOK
  BY TypeParts DEF SpoolInv
<1>2. /\ Head(queue) = queue[1] /\ 1 \in DOMAIN queue
      /\ Head(queue) \in [bundle : Bundles, whole : BOOLEAN]
      /\ Tail(queue) \in Seq([bundle : Bundles, whole : BOOLEAN])
      /\ \A i \in DOMAIN Tail(queue) : \E j \in DOMAIN queue : Tail(queue)[i] = queue[j]
  <2>0. queue \in Seq([bundle : Bundles, whole : BOOLEAN]) /\ queue # <<>>
    BY <1>1 DEF Write, LogTypes
  <2>1. Len(queue) \in Nat /\ DOMAIN queue = 1 .. Len(queue) /\ Len(queue) # 0
    BY <2>0, LenProperties, EmptySeq
  <2>2. /\ Head(queue) = queue[1] /\ Tail(queue) \in Seq([bundle : Bundles, whole : BOOLEAN])
        /\ Len(Tail(queue)) = Len(queue) - 1
        /\ \A i \in 1 .. Len(Tail(queue)) : Tail(queue)[i] = queue[i + 1]
    BY <2>0, HeadTailProperties
  <2>3. DOMAIN Tail(queue) = 1 .. Len(queue) - 1
    BY <2>2, LenProperties
  <2>4. \A i \in 1 .. Len(queue) - 1 : i + 1 \in 1 .. Len(queue)
    BY <2>1
  <2>5. 1 \in 1 .. Len(queue)
    BY <2>1
  <2>6. queue[1] \in [bundle : Bundles, whole : BOOLEAN]
    BY <2>0, <2>5, ElementOfSeq
  <2>7. \A i \in DOMAIN Tail(queue) : \E j \in DOMAIN queue : Tail(queue)[i] = queue[j]
    BY <2>1, <2>2, <2>3, <2>4
  <2> QED BY <2>1, <2>2, <2>5, <2>6, <2>7
<1>3. PICK b \in Bundles : b = Head(queue).bundle
  BY <1>2
<1>a. BundleOK(b) /\ QueuedOK(Head(queue))
  BY <1>2 DEF SpoolInv, ListsOK
<1>4. /\ queue' = Tail(queue)
      /\ UNCHANGED <<disk, actor, memory, scanVars, admission, recording, producer, ended>>
  BY DEF Write
<1>5. /\ Trouble \/ NoTrouble
      /\ unread' = unread \/ unread' = unread \union {b}
      /\ \/ UNCHANGED <<rows, hollow, unread, cleaning, committed>>
         \/ /\ rows' = Applied(b) /\ cleaning' = cleaning \union {b}
            /\ committed' = committed \union {b}
            /\ \/ hollow' = hollow
               \/ /\ hollow' = hollow \union {b} /\ b \notin ToSet(rows)
                  /\ ~Head(queue).whole \/ at[b] # "inbox" \/ b \in unread'
  <2>1. Acked(b, TRUE) = cleaning \union {b} /\ Acked(b, FALSE) = cleaning
    BY DEF Acked
  <2> QED BY <1>3, <2>1 DEF Write
<1>b. PICK done \in BOOLEAN : done <=> rows' = Applied(b) /\ cleaning' = cleaning \union {b}
                                      /\ committed' = committed \union {b}
  OBVIOUS
<1>6. /\ rows' \in Seq(Bundles)
      /\ ToSet(rows) \subseteq ToSet(rows') /\ (done => b \in ToSet(rows'))
      /\ ToSet(rows') \subseteq ToSet(rows) \union {b}
  BY <1>1, <1>3, <1>5, <1>b, AppliedRows DEF LogTypes
<1>7. TypeOK'
  <2>1. LogTypes'
    BY <1>1, <1>2, <1>3, <1>4, <1>5, <1>6 DEF LogTypes
  <2> QED BY <1>1, <1>4, <1>5, <2>1, TypeStep
<1>8. \A c \in Bundles \ {b} : Same(c)
  BY <1>4, <1>5, <1>6 DEF Same, Stays, disk, producer
<1>9. BundleOK(b)' /\ Calm(b)
  <2>1. CASE ~done
    <3>1. Same(b)
      BY <1>4, <1>5, <1>b, <2>1 DEF Same, Stays, disk, producer
    <3> QED BY <1>a, <3>1, SameIsCalm
  <2>2. CASE done
    <3>1. /\ at'[b] = at[b] /\ flushed'[b] = flushed[b] /\ whole'[b] = whole[b]
          /\ ready' = ready /\ safe' = safe /\ told' = told /\ ended' = ended
          /\ admission' = admission
      BY <1>4 DEF disk, producer
    <3>2. Settled(b)' /\ b \in ToSet(rows') /\ b \in committed' /\ Accounted(b)' /\ Present(b)'
      BY <1>5, <1>6, <1>b, <2>2 DEF Settled, Accounted, Present
    <3>3. Lost(b) => Lost(b)'
      BY <1>5, <3>1 DEF Lost
    <3>4. b \in hollow' => b \in hollow \/ (admission[b] = "committed" /\ Lost(b)')
      <4>1. admission[b] = "committed" /\ Present(b) /\ (~Head(queue).whole => Accounted(b))
        BY <1>3, <1>a DEF QueuedOK
      <4>2. b \in unread' => Lost(b)'
        BY DEF Lost
      <4> QED BY <1>5, <2>2, <3>3, <4>1, <4>2 DEF Present, Accounted
    <3>5. Calm(b)
      BY <3>1, <3>2 DEF Calm
    <3>6. BundleOK(b)'
      BY <1>a, <3>1, <3>2, <3>3, <3>4 DEF BundleOK
    <3> QED BY <3>5, <3>6
  <2> QED BY <2>1, <2>2
<1>10. \A c \in Bundles : BundleOK(c)' /\ Calm(c)
  BY <1>8, <1>9, SameIsCalm DEF SpoolInv
<1>11. \A i \in DOMAIN queue' : \E j \in DOMAIN queue : queue'[i] = queue[j]
  BY <1>2, <1>4
<1> QED BY <1>4, <1>6, <1>7, <1>10, <1>11, Together DEF memory, scanVars

-----------------------------------------------------------------------------
(* handle, persistRawTraceBundle and publishStagedRawTraceBundle.          *)

LEMMA PostStep ==
    ASSUME SpoolInv, NEW h \in Handlers, NEW b \in Bundles, Post(h, b)
    PROVE  SpoolInv'
<1>1. TypeOK /\ DiskTypes /\ ProducerTypes /\ EndedTypes /\ ActorTypes /\ BundleOK(b) /\ h \in Actors
  BY TypeParts DEF SpoolInv, Actors
<1>2. /\ told[b] = "nothing" /\ posts[b] < MaxPosts
      /\ posts' = [posts EXCEPT ![b] = posts[b] + 1]
      /\ UNCHANGED <<flushed, whole, safe, ready, saved, dir, memory, scanVars, logVars,
                     finished, trouble>>
  BY DEF Post
<1>3. posts' \in [Bundles -> 0 .. MaxPosts]
  <2>1. MaxPosts \in Nat /\ posts[b] \in 0 .. MaxPosts
    BY <1>1, SpoolAssumption DEF ProducerTypes
  <2>2. posts[b] + 1 \in 0 .. MaxPosts
    BY <1>2, <2>1
  <2> QED BY <1>1, <1>2, <2>2 DEF ProducerTypes
<1>4. ASSUME UNCHANGED <<at, ended, told>> PROVE \A c \in Bundles : BundleOK(c)' /\ Calm(c)
  BY <1>2, <1>4, NoBundleTouched DEF logVars
<1>5. ASSUME UNCHANGED <<at, ended, told>>, ActorTypes' \/ UNCHANGED actor PROVE TypeOK'
  <2>1. DiskTypes' /\ ProducerTypes'
    BY <1>1, <1>2, <1>3, <1>5 DEF DiskTypes, ProducerTypes
  <2> QED BY <1>1, <1>2, <1>5, <2>1, TypeStep DEF NoTrouble
<1>6. ASSUME Rm({b} \intersect {c \in Bundles : at[c] = "source"}),
             ended' = [ended EXCEPT ![b] = IF at[b] = "source" THEN "disabled" ELSE ended[b]],
             NEW answer \in {"nothing", "disabled"}, told' = [told EXCEPT ![b] = answer],
             UNCHANGED actor
      PROVE  SpoolInv'
  <2>1. /\ at' \in [Bundles -> Places]
        /\ at'[b] = IF at[b] = "source" THEN "gone" ELSE at[b]
        /\ \A c \in Bundles \ {b} : at'[c] = at[c]
    BY <1>1, <1>6, Removing
  <2>2. /\ EndedTypes' /\ ended'[b] = IF at[b] = "source" THEN "disabled" ELSE ended[b]
        /\ \A c \in Bundles \ {b} : ended'[c] = ended[c]
    BY <1>1, <1>6 DEF EndedTypes
  <2>3. /\ told' \in [Bundles -> {"nothing", "durable", "dead", "disabled"}]
        /\ told'[b] # "durable"
        /\ \A c \in Bundles \ {b} : told'[c] = told[c]
    BY <1>1, <1>6 DEF ProducerTypes
  <2>4. TypeOK'
    <3>1. DiskTypes'
      BY <1>1, <1>2, <2>1 DEF DiskTypes
    <3>2. ProducerTypes'
      BY <1>1, <1>2, <1>3, <2>3 DEF ProducerTypes
    <3> QED BY <1>1, <1>2, <1>6, <2>2, <3>1, <3>2, TypeStep DEF NoTrouble
  <2>5. \A c \in Bundles \ {b} : Same(c)
    BY <1>2, <2>1, <2>2, <2>3 DEF Same, Stays, logVars
  <2>6. BundleOK(b)' /\ Calm(b)
    <3>1. CASE at[b] = "source"
      <4>1. Settled(b)' /\ Lost(b)' /\ Accounted(b)'
        BY <2>2, <3>1 DEF Settled, Lost, Accounted
      <4> QED BY <1>1, <1>2, <2>1, <2>2, <2>3, <3>1, <4>1, Removed DEF logVars
    <3>2. CASE at[b] # "source"
      <4>1. Same(b)
        BY <1>2, <2>1, <2>2, <2>3, <3>2 DEF Same, Stays, logVars
      <4> QED BY <1>1, <4>1, SameIsCalm
    <3> QED BY <3>1, <3>2
  <2>7. \A c \in Bundles : BundleOK(c)' /\ Calm(c)
    BY <2>5, <2>6, SameIsCalm DEF SpoolInv
  <2> QED BY <1>2, <1>6, <2>4, <2>7, Quietly DEF memory, scanVars, logVars
<1>7. ASSUME UNCHANGED <<at, ended, told, actor>> PROVE SpoolInv'
  BY <1>2, <1>4, <1>5, <1>7, Quietly DEF memory, scanVars, logVars
<1>8. ASSUME Becomes(h, Doing("claim", b, "post")), UNCHANGED <<at, ended, told>> PROVE SpoolInv'
  <2>1. LET w == Doing("claim", b, "post")
        IN  w \in Work /\ w.pc = "claim" /\ w.on = b
    BY Works DEF Busy
  <2>2. /\ ActorTypes' /\ actor'[h].pc = "claim" /\ actor'[h].on = b
        /\ \A x \in Actors \ {h} : actor'[x] = actor[x]
    BY <1>1, <1>8, <2>1, Becoming
  <2>3. ActorOK(h)'
    BY <2>2 DEF ActorOK, Busy
  <2>4. TypeOK'
    BY <1>5, <1>8, <2>2
  <2>5. \A c \in Bundles : BundleOK(c)' /\ Calm(c)
    BY <1>4, <1>8
  <2> QED BY <1>1, <1>2, <2>2, <2>3, <2>4, <2>5, QuietlyBy DEF memory, scanVars, logVars
<1> QED BY <1>6, <1>7, <1>8 DEF Post

\* What an actor that gives up leaves in the notes of the scan.
LEMMA Noting ==
    ASSUME ActorTypes, ScanTypes, NEW a \in Actors, actor[a].on \in Bundles,
           observed' \subseteq observed \union Noted(a)
    PROVE  observed' \subseteq Bundles \X (Actors \union {None})
BY NotedTypes DEF ScanTypes

LEMMA ClaimStep ==
    ASSUME SpoolInv, NEW a \in Actors, Claim(a)
    PROVE  SpoolInv'
<1>1. TypeOK /\ DiskTypes /\ ActorTypes /\ ScanTypes /\ ActorOK(a)
  BY TypeParts DEF SpoolInv
<1>2. /\ actor[a].pc = "claim"
      /\ UNCHANGED <<whole, safe, ready, saved, memory, todo, pass, logVars, producer, ended>>
  BY DEF Claim
<1>3. PICK b \in Bundles : b = actor[a].on
  BY <1>1, <1>2 DEF ActorOK, Busy
<1>4. BundleOK(b)
  BY DEF SpoolInv
<1> DEFINE taken == /\ MoveTo(b, "staging")
                    /\ dir' = [dir EXCEPT ![b] = a]
                    /\ overdue' = overdue \ {<<b, None>>}
           kept == UNCHANGED <<at, flushed, dir, overdue>>
<1>5. \A c \in Bundles : at'[c] = at[c] => (flushed'[c] = flushed[c] => Same(c))
  BY <1>2 DEF Same, Stays, producer, logVars
<1>6. ASSUME kept PROVE DiskTypes' /\ \A c \in Bundles : BundleOK(c)' /\ Calm(c)
  BY <1>1, <1>2, <1>5, <1>6, SameIsCalm DEF DiskTypes, SpoolInv
<1>7. ASSUME taken, at[b] = "source"
      PROVE  /\ DiskTypes' /\ at'[b] = "staging"
             /\ \A c \in Bundles : BundleOK(c)' /\ Calm(c)
  <2>1. /\ at' \in [Bundles -> Places] /\ flushed' \in [Bundles -> Places]
        /\ at'[b] = "staging" /\ flushed'[b] = "staging"
        /\ \A c \in Bundles \ {b} : at'[c] = at[c] /\ flushed'[c] = flushed[c]
    BY <1>1, <1>7, Moving DEF Places
  <2>2. DiskTypes'
    BY <1>1, <1>2, <1>7, <2>1 DEF DiskTypes
  <2>3. Stays(b)
    BY <1>2 DEF Stays, producer, logVars
  <2>4. told[b] = "durable" => Settled(b)
    BY <1>4, <1>7 DEF BundleOK
  <2>5. BundleOK(b)' /\ Calm(b)
    BY <1>4, <1>7, <2>1, <2>3, <2>4, Relocated
  <2> QED BY <1>5, <2>1, <2>2, <2>5, SameIsCalm DEF SpoolInv
<1>8. ASSUME DiskTypes', ActorTypes', kept \/ taken, ScanTypes', Trouble \/ NoTrouble
      PROVE  TypeOK'
  BY <1>1, <1>2, <1>8, TypeStep
<1>9. ASSUME kept \/ taken PROVE overdue' \subseteq overdue
  BY <1>9
<1>10. CASE at[b] = "inbox" /\ kept /\ Step(a, "register") /\ NoTrouble /\ UNCHANGED observed
  <2>1. /\ ActorTypes' /\ actor'[a].pc = "register" /\ actor'[a].on = b
        /\ \A x \in Actors \ {a} : actor'[x] = actor[x]
    BY <1>1, <1>3, <1>10, Stepping DEF Busy
  <2>2. ActorOK(a)'
    <3>1. b \in ready' /\ at'[b] = "inbox"
      BY <1>2, <1>4, <1>10 DEF BundleOK
    <3> QED BY <2>1, <3>1 DEF ActorOK, Busy, Present
  <2>3. ScanTypes'
    BY <1>1, <1>2, <1>10 DEF ScanTypes
  <2>4. TypeOK' /\ \A c \in Bundles : BundleOK(c)' /\ Calm(c)
    BY <1>6, <1>8, <1>10, <2>1, <2>3
  <2> QED BY <1>2, <2>1, <2>2, <2>4, QuietlyBy DEF memory, logVars
<1>11. CASE /\ at[b] = "source" /\ taken /\ NoTrouble /\ UNCHANGED observed
            /\ actor' = [actor EXCEPT ![a].pc = "prepare", ![a].dir = a]
  <2>1. /\ ActorTypes' /\ actor'[a].pc = "prepare" /\ actor'[a].on = b
        /\ \A x \in Actors \ {a} : actor'[x] = actor[x]
    <3>1. actor[a] \in Work
      BY <1>1 DEF ActorTypes
    <3>2. actor' = [actor EXCEPT ![a] = [actor[a] EXCEPT !.pc = "prepare", !.dir = a]]
      BY <1>11
    <3>3. /\ [actor[a] EXCEPT !.pc = "prepare", !.dir = a] \in Work
          /\ [actor[a] EXCEPT !.pc = "prepare", !.dir = a].pc = "prepare"
          /\ [actor[a] EXCEPT !.pc = "prepare", !.dir = a].on = b
      BY <1>3, <3>1 DEF Work
    <3> QED BY <1>1, <3>2, <3>3 DEF ActorTypes
  <2>2. ActorOK(a)'
    <3>1. told[b] = "durable" => Settled(b)
      BY <1>4, <1>11 DEF BundleOK
    <3>2. told'[b] = "durable" => Settled(b)'
      BY <1>2, <3>1 DEF Settled, producer, logVars
    <3> QED BY <2>1, <3>2 DEF ActorOK, Busy
  <2>3. ScanTypes'
    BY <1>1, <1>2, <1>9, <1>11 DEF ScanTypes
  <2>4. TypeOK' /\ \A c \in Bundles : BundleOK(c)' /\ Calm(c)
    BY <1>7, <1>8, <1>11, <2>1, <2>3
  <2> QED BY <1>2, <2>1, <2>2, <2>4, QuietlyBy DEF memory, logVars
<1>12. CASE /\ (at[b] = "source" /\ taken) \/ kept
            /\ Trouble \/ NoTrouble
            /\ GiveUp(a)
  <2>1. /\ ActorTypes' /\ actor'[a].pc \notin Busy
        /\ \A x \in Actors \ {a} : actor'[x] = actor[x]
    BY <1>1, <1>12, Quitting DEF GiveUp
  <2>2. ActorOK(a)'
    BY <2>1, Unengaged
  <2>3. ScanTypes'
    <3>1. observed' = observed \union Noted(a)
      BY <1>12 DEF GiveUp
    <3>2. observed' \subseteq Bundles \X (Actors \union {None})
      BY <1>1, <1>3, <3>1, Noting
    <3> QED BY <1>1, <1>2, <1>9, <1>12, <3>1, <3>2 DEF ScanTypes
  <2>4. TypeOK' /\ \A c \in Bundles : BundleOK(c)' /\ Calm(c)
    BY <1>6, <1>7, <1>8, <1>12, <2>1, <2>3
  <2> QED BY <1>2, <2>1, <2>2, <2>4, QuietlyBy DEF memory, logVars
<1> QED BY <1>3, <1>10, <1>11, <1>12 DEF Claim

\* A directory that was published, by whomever, is taken over.
LEMMA TakenOver ==
    ASSUME ActorTypes, NEW a \in Actors, NEW b \in Bundles, actor[a].on = b,
           at'[b] = "inbox", b \in ready', Published(a)
    PROVE  /\ ActorTypes' /\ ActorOK(a)'
           /\ \A x \in Actors \ {a} : actor'[x] = actor[x]
<1>1. CASE Becomes(a, AtLoop("recover"))
  <2>1. AtLoop("recover") \in Work /\ AtLoop("recover").pc \notin Busy
    BY Works DEF Busy
  <2>2. /\ ActorTypes' /\ actor'[a].pc \notin Busy
        /\ \A x \in Actors \ {a} : actor'[x] = actor[x]
    BY <1>1, <2>1, Becoming
  <2> QED BY <2>2, Unengaged
<1>2. CASE Step(a, "register")
  <2>1. /\ ActorTypes' /\ actor'[a].pc = "register" /\ actor'[a].on = b
        /\ \A x \in Actors \ {a} : actor'[x] = actor[x]
    BY <1>2, Stepping DEF Busy
  <2> QED BY <2>1 DEF ActorOK, Busy, Present
<1> QED BY <1>1, <1>2 DEF Published

\* Whoever fails to publish puts back what it took from the producer.
LEMMA PublishFailsStep ==
    ASSUME SpoolInv, NEW a \in Actors, actor[a].pc \in {"prepare", "publish"}, PublishFails(a),
           overdue' = overdue \intersect observed', Trouble \/ NoTrouble,
           UNCHANGED <<whole, safe, ready, saved, dir, memory, todo, pass, logVars, producer, ended>>
    PROVE  SpoolInv'
<1>1. TypeOK /\ DiskTypes /\ ActorTypes /\ ScanTypes /\ ActorOK(a)
  BY TypeParts DEF SpoolInv
<1>2. PICK b \in Bundles : b = actor[a].on
  BY <1>1 DEF ActorOK, Busy
<1>3. BundleOK(b)
  BY DEF SpoolInv
<1>4. /\ ActorTypes' /\ actor'[a].pc \notin Busy
      /\ \A x \in Actors \ {a} : actor'[x] = actor[x]
  BY <1>1, Quitting DEF PublishFails
<1>5. ActorOK(a)'
  BY <1>4, Unengaged
<1>6. ScanTypes'
  <2>1. observed' \subseteq observed \union Noted(a)
    BY DEF PublishFails
  <2>2. observed' \subseteq Bundles \X (Actors \union {None})
    BY <1>1, <1>2, <2>1, Noting
  <2> QED BY <1>1, <2>2 DEF ScanTypes
<1>7. \A c \in Bundles : Stays(c)
  BY DEF Stays, producer, logVars
<1>8. DiskTypes' /\ \A c \in Bundles : BundleOK(c)' /\ Calm(c)
  <2>1. CASE actor[a].how \in {"post", "source"} /\ Mine(a) /\ MoveTo(actor[a].on, "source")
    <3>1. /\ at' \in [Bundles -> Places] /\ flushed' \in [Bundles -> Places]
          /\ at'[b] = "source" /\ flushed'[b] = "source"
          /\ \A c \in Bundles \ {b} : at'[c] = at[c] /\ flushed'[c] = flushed[c]
      BY <1>1, <1>2, <2>1, Moving DEF Places
    <3>2. at[b] = "staging" /\ (told[b] = "durable" => Settled(b))
      BY <1>1, <1>2, <2>1 DEF Mine, ActorOK
    <3>3. BundleOK(b)' /\ Calm(b)
      BY <1>3, <1>7, <3>1, <3>2, Relocated
    <3>4. DiskTypes'
      BY <1>1, <3>1 DEF DiskTypes
    <3> QED BY <1>7, <3>1, <3>3, <3>4, SameIsCalm DEF Same, SpoolInv
  <2>2. CASE UNCHANGED <<at, flushed>>
    <3>1. DiskTypes'
      BY <1>1, <2>2 DEF DiskTypes
    <3> QED BY <1>7, <2>2, <3>1, SameIsCalm DEF Same, SpoolInv
  <2> QED BY <2>1, <2>2 DEF PublishFails
<1>9. TypeOK'
  BY <1>1, <1>4, <1>6, <1>8, TypeStep
<1> QED BY <1>4, <1>5, <1>8, <1>9, QuietlyBy DEF memory, logVars

LEMMA PrepareStep ==
    ASSUME SpoolInv, NEW a \in Actors, Prepare(a)
    PROVE  SpoolInv'
<1>1. TypeOK /\ DiskTypes /\ ActorTypes /\ ScanTypes /\ ActorOK(a)
  BY TypeParts DEF SpoolInv
<1>2. /\ actor[a].pc = "prepare" /\ overdue' = overdue \intersect observed'
      /\ UNCHANGED <<whole, saved, dir, memory, todo, pass, logVars, producer, ended>>
  BY DEF Prepare
<1>3. PICK b \in Bundles : b = actor[a].on
  BY <1>1, <1>2 DEF ActorOK, Busy
<1>4. BundleOK(b)
  BY DEF SpoolInv
<1>5. CASE /\ Mine(a) /\ whole[b] /\ Sealed(b) /\ Step(a, "publish")
           /\ NoTrouble /\ UNCHANGED <<at, flushed, observed>>
  <2>1. /\ ActorTypes' /\ actor'[a].pc = "publish" /\ actor'[a].on = b
        /\ actor'[a].how = actor[a].how
        /\ \A x \in Actors \ {a} : actor'[x] = actor[x]
    BY <1>1, <1>3, <1>5, Stepping DEF Busy
  <2>2. b \in safe' /\ b \in ready' /\ safe' \subseteq Bundles /\ ready' \subseteq Bundles
    BY <1>1, <1>5 DEF Sealed, DiskTypes
  <2>3. \A c \in Bundles \ {b} : Same(c)
    BY <1>2, <1>5 DEF Same, Stays, Sealed, producer, logVars
  <2>4. BundleOK(b)' /\ Calm(b)
    <3>1. /\ Settled(b)' <=> Settled(b)
          /\ Lost(b)' <=> Lost(b)
          /\ Accounted(b)' <=> Accounted(b)
          /\ Present(b)' <=> Present(b)
      BY <1>2, <1>5 DEF Settled, Lost, Accounted, Present, logVars
    <3>2. Calm(b)
      BY <1>2, <1>5, <2>2, <3>1 DEF Calm, producer, logVars
    <3>3. BundleOK(b)'
      BY <1>2, <1>4, <1>5, <2>2, <3>1 DEF BundleOK, producer, logVars
    <3> QED BY <3>2, <3>3
  <2>5. ActorOK(a)'
    <3>1. /\ Settled(b)' <=> Settled(b)
          /\ told' = told /\ at' = at
      BY <1>2, <1>5 DEF Settled, logVars, producer
    <3> QED BY <1>1, <1>2, <1>3, <2>1, <2>2, <3>1 DEF ActorOK, Busy
  <2>6. TypeOK'
    <3>1. DiskTypes'
      BY <1>1, <1>2, <1>5, <2>2 DEF DiskTypes
    <3>2. ScanTypes'
      BY <1>1, <1>2, <1>5 DEF ScanTypes
    <3> QED BY <1>1, <1>2, <1>5, <2>1, <3>1, <3>2, TypeStep
  <2> QED BY <1>2, <2>1, <2>3, <2>4, <2>5, <2>6, SameIsCalm, QuietlyBy DEF SpoolInv, memory, logVars
<1>6. CASE /\ at[b] = "inbox" /\ Published(a)
           /\ NoTrouble /\ UNCHANGED <<at, flushed, safe, ready>>
  <2>1. /\ ActorTypes' /\ ActorOK(a)'
        /\ \A x \in Actors \ {a} : actor'[x] = actor[x]
    BY <1>1, <1>3, <1>4, <1>6, TakenOver DEF BundleOK
  <2>2. \A c \in Bundles : BundleOK(c)' /\ Calm(c)
    BY <1>2, <1>6, NoBundleTouched DEF producer, logVars
  <2>3. TypeOK'
    <3>1. DiskTypes'
      BY <1>1, <1>2, <1>6 DEF DiskTypes
    <3>2. ScanTypes'
      BY <1>1, <1>2, <1>6 DEF ScanTypes, Published
    <3> QED BY <1>1, <1>2, <1>6, <2>1, <3>1, <3>2, TypeStep
  <2> QED BY <1>2, <2>1, <2>2, <2>3, QuietlyBy DEF memory, logVars
<1>7. CASE PublishFails(a) /\ (Trouble \/ NoTrouble) /\ UNCHANGED <<safe, ready>>
  BY <1>2, <1>7, PublishFailsStep
<1> QED BY <1>3, <1>5, <1>6, <1>7 DEF Prepare

LEMMA PublishStep ==
    ASSUME SpoolInv, NEW a \in Actors, Publish(a)
    PROVE  SpoolInv'
<1>1. TypeOK /\ DiskTypes /\ ActorTypes /\ ScanTypes /\ ActorOK(a)
  BY TypeParts DEF SpoolInv
<1>2. /\ actor[a].pc = "publish" /\ overdue' = overdue \intersect observed'
      /\ UNCHANGED <<whole, safe, ready, saved, dir, memory, todo, pass, logVars, producer, ended>>
  BY DEF Publish
<1>3. PICK b \in Bundles : b = actor[a].on
  BY <1>1, <1>2 DEF ActorOK, Busy
<1>4. BundleOK(b) /\ b \in ready /\ b \in safe /\ whole[b]
  BY <1>1, <1>2, <1>3 DEF SpoolInv, ActorOK, BundleOK
<1>5. CASE /\ Mine(a) /\ at' = [at EXCEPT ![b] = "inbox"] /\ Step(a, "flush")
           /\ NoTrouble /\ UNCHANGED <<flushed, observed>>
  <2>1. /\ ActorTypes' /\ actor'[a].pc = "flush" /\ actor'[a].on = b
        /\ \A x \in Actors \ {a} : actor'[x] = actor[x]
    BY <1>1, <1>3, <1>5, Stepping DEF Busy
  <2>2. /\ at' \in [Bundles -> Places] /\ at'[b] = "inbox" /\ at[b] = "staging"
        /\ \A c \in Bundles \ {b} : at'[c] = at[c]
    BY <1>1, <1>3, <1>5 DEF DiskTypes, Places, Mine
  <2>3. \A c \in Bundles : Stays(c)
    BY <1>2, <1>5 DEF Stays, producer, logVars
  <2>4. BundleOK(b)' /\ Calm(b)
    <3>1. /\ Settled(b)' <=> Settled(b)
          /\ Lost(b)' <=> Lost(b)
          /\ Accounted(b)' <=> Accounted(b)
          /\ Present(b)'
      BY <1>2, <2>2 DEF Settled, Lost, Accounted, Present, logVars
    <3>2. Calm(b)
      BY <1>2, <2>2, <3>1 DEF Calm, producer, logVars
    <3>3. flushed'[b] = "staging"
      BY <1>4, <1>5, <2>2 DEF BundleOK
    <3>4. BundleOK(b)'
      BY <1>2, <1>4, <1>5, <2>2, <3>1, <3>3 DEF BundleOK, producer, logVars
    <3> QED BY <3>2, <3>4
  <2>5. ActorOK(a)'
    BY <1>2, <1>4, <2>1, <2>2 DEF ActorOK, Busy, Present
  <2>6. TypeOK'
    <3>1. DiskTypes'
      BY <1>1, <1>2, <1>5, <2>2 DEF DiskTypes
    <3>2. ScanTypes'
      BY <1>1, <1>2, <1>5 DEF ScanTypes
    <3> QED BY <1>1, <1>2, <1>5, <2>1, <3>1, <3>2, TypeStep
  <2>7. \A c \in Bundles : BundleOK(c)' /\ Calm(c)
    BY <1>5, <2>2, <2>3, <2>4, SameIsCalm DEF Same, SpoolInv
  <2> QED BY <1>2, <2>1, <2>5, <2>6, <2>7, QuietlyBy DEF memory, logVars
<1>6. CASE /\ (at[b] = "inbox" /\ Published(a)) \/ GiveUp(a)
           /\ NoTrouble /\ UNCHANGED <<at, flushed>>
  <2>1. /\ ActorTypes' /\ ActorOK(a)'
        /\ \A x \in Actors \ {a} : actor'[x] = actor[x]
    <3>1. CASE at[b] = "inbox" /\ Published(a)
      BY <1>1, <1>2, <1>3, <1>4, <1>6, <3>1, TakenOver
    <3>2. CASE GiveUp(a)
      BY <1>1, <3>2, Quitting, Unengaged DEF GiveUp
    <3> QED BY <1>6, <3>1, <3>2
  <2>2. \A c \in Bundles : BundleOK(c)' /\ Calm(c)
    BY <1>2, <1>6, NoBundleTouched DEF producer, logVars
  <2>3. TypeOK'
    <3>1. DiskTypes'
      BY <1>1, <1>2, <1>6 DEF DiskTypes
    <3>2. observed' \subseteq observed \union Noted(a)
      BY <1>6 DEF Published, GiveUp
    <3>3. observed' \subseteq Bundles \X (Actors \union {None})
      BY <1>1, <1>3, <3>2, Noting
    <3>4. ScanTypes'
      BY <1>1, <1>2, <3>3 DEF ScanTypes
    <3> QED BY <1>1, <1>2, <1>6, <2>1, <3>1, <3>4, TypeStep
  <2> QED BY <1>2, <2>1, <2>2, <2>3, QuietlyBy DEF memory, logVars
<1>7. CASE Trouble /\ PublishFails(a)
  BY <1>2, <1>7, PublishFailsStep
<1> QED BY <1>3, <1>5, <1>6, <1>7 DEF Publish

LEMMA FlushStep ==
    ASSUME SpoolInv, NEW a \in Actors, Flush(a)
    PROVE  SpoolInv'
<1>1. TypeOK /\ DiskTypes /\ ActorTypes /\ ScanTypes /\ ActorOK(a)
  BY TypeParts DEF SpoolInv
<1>2. /\ actor[a].pc = "flush"
      /\ UNCHANGED <<at, whole, safe, ready, saved, dir, memory, overdue, todo, pass, logVars,
                     producer, ended>>
  BY DEF Flush
<1>3. PICK b \in Bundles : b = actor[a].on
  BY <1>1, <1>2 DEF ActorOK, Busy
<1>4. BundleOK(b)
  BY DEF SpoolInv
<1>5. /\ Trouble \/ NoTrouble
      /\ flushed' = [flushed EXCEPT ![b] = at[b]] \/ flushed' = flushed
      /\ (at[b] = "inbox" /\ Published(a)) \/ GiveUp(a)
  BY <1>3 DEF Flush
<1>6. /\ flushed' \in [Bundles -> Places] /\ flushed'[b] \in {at[b], flushed[b]}
      /\ \A c \in Bundles \ {b} : flushed'[c] = flushed[c]
  BY <1>1, <1>5 DEF DiskTypes
<1>7. /\ ActorTypes' /\ ActorOK(a)'
      /\ \A x \in Actors \ {a} : actor'[x] = actor[x]
  <2>1. CASE at[b] = "inbox" /\ Published(a)
    BY <1>1, <1>2, <1>3, <1>4, <2>1, TakenOver DEF BundleOK
  <2>2. CASE GiveUp(a)
    BY <1>1, <2>2, Quitting, Unengaged DEF GiveUp
  <2> QED BY <1>5, <2>1, <2>2
<1>8. \A c \in Bundles : BundleOK(c)' /\ Calm(c)
  <2>1. \A c \in Bundles \ {b} : Same(c)
    BY <1>2, <1>6 DEF Same, Stays, producer, logVars
  <2>2. /\ Settled(b)' <=> Settled(b)
        /\ Lost(b)' <=> Lost(b)
        /\ Accounted(b)' <=> Accounted(b)
        /\ Present(b)' <=> Present(b)
    BY <1>2 DEF Settled, Lost, Accounted, Present, logVars
  <2>3. Calm(b)
    BY <1>2, <2>2 DEF Calm, producer, logVars
  <2>4. BundleOK(b)'
    BY <1>2, <1>4, <1>6, <2>2 DEF BundleOK, producer, logVars
  <2> QED BY <2>1, <2>3, <2>4, SameIsCalm DEF SpoolInv
<1>9. TypeOK'
  <2>1. DiskTypes'
    BY <1>1, <1>2, <1>6 DEF DiskTypes
  <2>2. observed' = observed \/ observed' = observed \union Noted(a)
    BY <1>5 DEF Published, GiveUp
  <2>3. observed' \subseteq Bundles \X (Actors \union {None})
    BY <1>1, <1>3, <2>2, Noting
  <2>4. ScanTypes'
    BY <1>1, <1>2, <2>2, <2>3 DEF ScanTypes
  <2> QED BY <1>1, <1>2, <1>5, <1>7, <2>1, <2>4, TypeStep
<1> QED BY <1>2, <1>7, <1>8, <1>9, QuietlyBy DEF memory, logVars

\* The bundles of a set that are in the inbox become dead letters.
LEMMA BuryInbox ==
    ASSUME SpoolInv, NEW S, \A c \in S : c \in Bundles => at[c] = "inbox", DeadLetter(S),
           \A c \in Bundles : Stays(c)
    PROVE  \A c \in Bundles : BundleOK(c)' /\ Calm(c)
<1>1. DiskTypes
  BY TypeParts DEF SpoolInv
<1>2. \A c \in Bundles : /\ at'[c] = IF c \in S THEN "dead" ELSE at[c]
                         /\ flushed'[c] = IF c \in S THEN "dead" ELSE flushed[c]
  BY <1>1, Burying
<1>3. ASSUME NEW c \in Bundles, c \in S PROVE BundleOK(c)' /\ Calm(c)
  <2>1. BundleOK(c) /\ at[c] = "inbox" /\ Stays(c)
    BY <1>3 DEF SpoolInv
  <2> QED BY <1>2, <1>3, <2>1, Buried
<1>4. ASSUME NEW c \in Bundles, c \notin S PROVE BundleOK(c)' /\ Calm(c)
  <2>1. BundleOK(c) /\ Same(c)
    BY <1>2, <1>4 DEF SpoolInv, Same
  <2> QED BY <2>1, SameIsCalm
<1> QED BY <1>3, <1>4

LEMMA AnswerTypes ==
    ASSUME ProducerTypes, NEW b \in Bundles, NEW answer \in {"durable", "dead"}, Answer(b, answer),
           UNCHANGED <<finished, posts>>
    PROVE  /\ ProducerTypes' /\ told'[b] \in {told[b], answer}
           /\ \A c \in Bundles \ {b} : told'[c] = told[c]
<1>1. PICK heard \in {told[b], IF told[b] = "nothing" THEN answer ELSE told[b]} :
          told' = [told EXCEPT ![b] = heard]
  BY DEF Answer
<1>2. heard \in {told[b], answer} /\ heard \in {"nothing", "durable", "dead", "disabled"}
  BY <1>1 DEF ProducerTypes
<1> QED BY <1>1, <1>2 DEF ProducerTypes

\* The index that a registration finds, or builds from the inbox.
LEMMA FoundIndex ==
    ASSUME MemoryTypes, ListsOK, NEW known \in InboxIndexes
    PROVE  /\ known \in Seq(Bundles) /\ IsInjective(known)
           /\ \A c \in ToSet(known) : Present(c)
<1> DEFINE inbox == {c \in Bundles : at[c] = "inbox"}
<1>1. CASE known = index
  BY <1>1 DEF MemoryTypes, ListsOK
<1>2. CASE known \in SetToSeqs(inbox)
  <2>1. inbox \subseteq Bundles /\ \A c \in inbox : Present(c)
    BY DEF Present
  <2> HIDE DEF inbox
  <2>2. known \in Seq(Bundles) /\ IsInjective(known) /\ ToSet(known) \subseteq inbox
    BY <1>2, <2>1, Ordering
  <2> QED BY <2>1, <2>2
<1> QED BY <1>1, <1>2 DEF InboxIndexes

LEMMA RegisterStep ==
    ASSUME SpoolInv, NEW a \in Actors, Register(a)
    PROVE  SpoolInv'
<1>1. /\ TypeOK /\ DiskTypes /\ ActorTypes /\ ScanTypes /\ MemoryTypes /\ ProducerTypes
      /\ ActorOK(a) /\ ListsOK
  BY TypeParts DEF SpoolInv
<1>2. /\ actor[a].pc = "register"
      /\ observed' = observed \ Noted(a) /\ overdue' = overdue \intersect observed'
      /\ UNCHANGED <<whole, safe, ready, saved, dir, started, storageReady, cooling, todo,
                     pass, logVars, finished, posts, ended>>
  BY DEF Register
<1>3. PICK b \in Bundles : b = actor[a].on
  BY <1>1, <1>2 DEF ActorOK, Busy
<1>4. /\ BundleOK(b) /\ Present(b)
      /\ Settled(b) \/ (b \in ready /\ at[b] \in {"inbox", "dead"})
  BY <1>1, <1>2, <1>3 DEF SpoolInv, ActorOK
<1>5. ScanTypes'
  BY <1>1, <1>2 DEF ScanTypes
<1>6. /\ Trouble \/ NoTrouble
      /\ loaded' \in {loaded, TRUE}
      /\ delivery' \in [Bundles -> Delivery]
  <2>1. saved \in [Bundles -> Delivery] /\ delivery \in [Bundles -> Delivery]
    BY <1>1 DEF DiskTypes, MemoryTypes
  <2>2. ASSUME NEW S, delivery' = [c \in Bundles |-> IF c \in S THEN saved[c] ELSE delivery[c]]
        PROVE  delivery' \in [Bundles -> Delivery]
    BY <2>1, <2>2
  <2>3. ASSUME NEW known \in InboxIndexes,
               delivery' = [c \in Bundles |-> IF c = b \/ c \in ToSet(known) \ ToSet(index)
                                              THEN saved[c] ELSE delivery[c]]
        PROVE  delivery' \in [Bundles -> Delivery]
    BY <2>1, <2>3
  <2>4. ASSUME delivery' = [delivery EXCEPT ![b] = saved[b]]
        PROVE  delivery' \in [Bundles -> Delivery]
    BY <2>1, <2>4
  <2> QED BY <1>3, <2>3, <2>4 DEF Register
<1> DEFINE kept == /\ \/ Becomes(a, Doing("take", b, "post")) /\ Answer(b, "durable")
                      \/ Becomes(a, AtLoop("scan")) /\ UNCHANGED told
                   /\ UNCHANGED <<at, flushed>>
           buried == /\ \/ Becomes(a, Resting) /\ Answer(b, "dead")
                        \/ Becomes(a, AtLoop("scan")) /\ UNCHANGED told
                     /\ DeadLetter(InInbox(b))
<1>7. \/ kept /\ \/ \E known \in InboxIndexes : index' = Indexed(known, b)
                 \/ UNCHANGED index
      \/ buried /\ \E known \in InboxIndexes : index' = Unindexed(known, b)
  BY <1>3 DEF Register
<1>8. ASSUME UNCHANGED told PROVE ProducerTypes'
  BY <1>1, <1>2, <1>8 DEF ProducerTypes
<1>a. /\ index' \in Seq(Bundles) /\ IsInjective(index')
      /\ \A c \in ToSet(index') : Present(c)
  <2>1. CASE UNCHANGED index
    BY <1>1, <2>1 DEF MemoryTypes, ListsOK
  <2>2. ASSUME NEW known \in InboxIndexes, index' = Indexed(known, b) \/ index' = Unindexed(known, b)
        PROVE  /\ index' \in Seq(Bundles) /\ IsInjective(index')
               /\ \A c \in ToSet(index') : Present(c)
    <3>1. /\ known \in Seq(Bundles) /\ IsInjective(known)
          /\ \A c \in ToSet(known) : Present(c)
      BY <1>1, FoundIndex
    <3>2. /\ index' \in Seq(Bundles) /\ IsInjective(index')
          /\ ToSet(index') \subseteq ToSet(known) \union {b}
      BY <2>2, <3>1, IndexedEntries, UnindexedEntries
    <3> QED BY <1>4, <3>1, <3>2
  <2> QED BY <1>7, <2>1, <2>2
<1>9. ASSUME DiskTypes', ActorTypes', ProducerTypes'
      PROVE  TypeOK'
  <2>1. MemoryTypes'
    BY <1>1, <1>2, <1>6, <1>a DEF MemoryTypes
  <2> QED BY <1>1, <1>2, <1>5, <1>6, <1>9, <2>1, TypeStep
<1>10. pass' = pass /\ queue' = queue
  BY <1>1, <1>2 DEF logVars
<1>b. ASSUME \A c \in Bundles : Calm(c) PROVE \A c \in ToSet(index') : Present(c)'
  <2>1. ToSet(index') \subseteq Bundles
    BY <1>a, LenProperties, ElementOfSeq DEF ToSet
  <2> QED BY <1>a, <1>b, <2>1 DEF Calm
<1>11. CASE /\ Becomes(a, Doing("take", b, "post")) /\ Answer(b, "durable")
            /\ UNCHANGED <<at, flushed>>
  <2>1. LET w == Doing("take", b, "post")
        IN  w \in Work /\ w.pc = "take" /\ w.on = b
    BY Works DEF Busy
  <2>2. /\ ActorTypes' /\ actor'[a].pc = "take" /\ actor'[a].on = b
        /\ \A x \in Actors \ {a} : actor'[x] = actor[x]
    BY <1>1, <1>11, <2>1, Becoming
  <2>3. /\ ProducerTypes' /\ told'[b] \in {told[b], "durable"}
        /\ \A c \in Bundles \ {b} : told'[c] = told[c]
    BY <1>1, <1>2, <1>11, AnswerTypes
  <2>4. /\ Settled(b)' <=> Settled(b)
        /\ Lost(b)' <=> Lost(b)
        /\ Accounted(b)' <=> Accounted(b)
        /\ Present(b)' <=> Present(b)
    BY <1>2, <1>11 DEF Settled, Lost, Accounted, Present, logVars
  <2>5. Calm(b)
    BY <1>2, <1>4, <1>11, <2>3, <2>4 DEF Calm, logVars
  <2>6. BundleOK(b)'
    BY <1>2, <1>4, <1>11, <2>3, <2>4 DEF BundleOK, logVars
  <2>7. \A c \in Bundles \ {b} : Same(c)
    BY <1>2, <1>11, <2>3 DEF Same, Stays, logVars
  <2>8. \A c \in Bundles : BundleOK(c)' /\ Calm(c)
    BY <2>5, <2>6, <2>7, SameIsCalm DEF SpoolInv
  <2>9. ActorOK(a)'
    BY <1>4, <2>2, <2>4 DEF ActorOK, Busy
  <2>10. TypeOK'
    <3>1. DiskTypes'
      BY <1>1, <1>2, <1>11 DEF DiskTypes
    <3> QED BY <1>9, <2>2, <2>3, <3>1
  <2> QED BY <1>10, <1>b, <2>2, <2>8, <2>9, <2>10, Together
<1>12. CASE /\ Becomes(a, AtLoop("scan")) /\ UNCHANGED told
            /\ UNCHANGED <<at, flushed>>
  <2>1. AtLoop("scan") \in Work /\ AtLoop("scan").pc \notin Busy
    BY Works DEF Busy
  <2>2. /\ ActorTypes' /\ ActorOK(a)'
        /\ \A x \in Actors \ {a} : actor'[x] = actor[x]
    BY <1>1, <1>12, <2>1, Becoming, Unengaged
  <2>3. \A c \in Bundles : BundleOK(c)' /\ Calm(c)
    BY <1>2, <1>12, NoBundleTouched DEF logVars
  <2>4. TypeOK'
    <3>1. DiskTypes'
      BY <1>1, <1>2, <1>12 DEF DiskTypes
    <3> QED BY <1>8, <1>9, <1>12, <2>2, <3>1
  <2> QED BY <1>10, <1>b, <2>2, <2>3, <2>4, Together
<1>13. CASE buried
  <2>1. /\ Resting \in Work /\ Resting.pc \notin Busy
        /\ AtLoop("scan") \in Work /\ AtLoop("scan").pc \notin Busy
    BY Works DEF Busy
  <2>2. /\ ActorTypes' /\ ActorOK(a)'
        /\ \A x \in Actors \ {a} : actor'[x] = actor[x]
    BY <1>1, <1>13, <2>1, Becoming, Unengaged
  <2>3. ProducerTypes' /\ \A c \in Bundles : told'[c] = "durable" => told[c] = "durable"
    <3>1. CASE Answer(b, "dead")
      BY <1>1, <1>2, <3>1, AnswerTypes
    <3>2. CASE UNCHANGED told
      BY <1>8, <3>2
    <3> QED BY <1>13, <3>1, <3>2
  <2>4. \A c \in Bundles : Stays(c)
    BY <1>2, <2>3 DEF Stays, logVars
  <2>5. \A c \in Bundles : BundleOK(c)' /\ Calm(c)
    BY <1>13, <2>4, BuryInbox DEF InInbox
  <2>6. TypeOK'
    <3>1. DiskTypes'
      BY <1>1, <1>2, <1>13, Burying DEF DiskTypes
    <3> QED BY <1>9, <2>2, <2>3, <3>1
  <2> QED BY <1>10, <1>b, <2>2, <2>5, <2>6, Together
<1> QED BY <1>7, <1>11, <1>12, <1>13

-----------------------------------------------------------------------------
(* processStoredBundle.                                                    *)

\* A bundle is taken up by a handler or, from the pass, by the replayer.
LEMMA TakeStep ==
    ASSUME SpoolInv, NEW a \in Actors, NEW b \in Bundles, Present(b), Take(a, b),
           pass' \subseteq pass
    PROVE  SpoolInv'
<1>1. /\ TypeOK /\ DiskTypes /\ ActorTypes /\ ScanTypes /\ MemoryTypes /\ EndedTypes
      /\ BundleOK(b) /\ ListsOK
  BY TypeParts DEF SpoolInv
<1>2. /\ UNCHANGED <<whole, safe, ready, saved, dir, started, storageReady, loaded, delivery,
                     observed, overdue, todo, admission, recording, queue, rows, hollow,
                     cleaning, committed, producer>>
      /\ unread' = unread \/ unread' = unread \union {b}
  BY DEF Take
<1>3. ScanTypes'
  BY <1>1, <1>2 DEF ScanTypes
<1>4. ASSUME index' \in Seq(Bundles), IsInjective(index'), cooling' \subseteq Bundles,
             DiskTypes', ActorTypes', EndedTypes', Trouble \/ NoTrouble
      PROVE  TypeOK'
  <2>1. MemoryTypes'
    BY <1>1, <1>2, <1>4 DEF MemoryTypes
  <2>2. LogTypes'
    BY <1>1, <1>2, TypeParts DEF LogTypes
  <2> QED BY <1>1, <1>2, <1>3, <1>4, <2>1, <2>2, TypeStep
<1>5. queue' = queue
  BY <1>2
<1>6. ASSUME Done(a)
      PROVE  /\ ActorTypes' /\ ActorOK(a)'
             /\ \A x \in Actors \ {a} : actor'[x] = actor[x]
  BY <1>1, <1>6, Finishing, Unengaged
<1>7. ASSUME UNCHANGED <<at, flushed, ended>>
      PROVE  /\ DiskTypes' /\ EndedTypes'
             /\ \A c \in Bundles : BundleOK(c)' /\ Calm(c)
  <2>1. DiskTypes' /\ EndedTypes'
    BY <1>1, <1>2, <1>7 DEF DiskTypes, EndedTypes
  <2>2. \A c \in Bundles : Same(c)
    BY <1>2, <1>7 DEF Same, Stays, producer
  <2> QED BY <2>1, <2>2, SameIsCalm DEF SpoolInv
<1>8. ASSUME index' = Unindexed(index, b)
      PROVE  /\ index' \in Seq(Bundles) /\ IsInjective(index')
             /\ ToSet(index') \subseteq ToSet(index)
  BY <1>1, <1>8, UnindexedEntries DEF MemoryTypes
<1>9. ASSUME UNCHANGED index PROVE index' \in Seq(Bundles) /\ IsInjective(index')
  BY <1>1, <1>9 DEF MemoryTypes
<1>10. ASSUME cooling' \subseteq cooling \union {b} PROVE cooling' \subseteq Bundles
  BY <1>1, <1>10 DEF MemoryTypes
<1>11. CASE /\ Done(a) /\ cooling' \subseteq cooling \union {b}
            /\ Trouble \/ NoTrouble
            /\ UNCHANGED <<at, flushed, index, ended>>
  <2>1. TypeOK'
    BY <1>4, <1>6, <1>7, <1>9, <1>10, <1>11
  <2> QED BY <1>5, <1>6, <1>7, <1>11, <2>1, Together
<1>12. CASE /\ DeadLetter(InInbox(b)) /\ index' = Unindexed(index, b) /\ cooling' = cooling \ {b}
            /\ Done(a) /\ UNCHANGED ended /\ (Trouble \/ NoTrouble)
  <2>1. \A c \in Bundles : Stays(c)
    BY <1>2, <1>12 DEF Stays, producer
  <2>2. \A c \in Bundles : BundleOK(c)' /\ Calm(c)
    BY <1>12, <2>1, BuryInbox DEF InInbox
  <2>3. DiskTypes' /\ EndedTypes'
    BY <1>1, <1>2, <1>12, Burying DEF DiskTypes, EndedTypes
  <2>4. TypeOK'
    BY <1>4, <1>6, <1>8, <1>10, <1>12, <2>3
  <2> QED BY <1>5, <1>6, <1>8, <1>12, <2>2, <2>4, Together
<1>13. CASE /\ Rm(InInbox(b)) /\ index' = Unindexed(index, b) /\ cooling' = cooling \ {b} /\ Done(a)
            /\ ended' = [ended EXCEPT ![b] = IF at[b] = "inbox" THEN "disabled" ELSE ended[b]]
            /\ NoTrouble /\ UNCHANGED flushed
  <2>1. /\ at' \in [Bundles -> Places]
        /\ at'[b] = IF at[b] = "inbox" THEN "gone" ELSE at[b]
        /\ \A c \in Bundles \ {b} : at'[c] = at[c]
    BY <1>1, <1>13, Removing DEF InInbox
  <2>2. /\ EndedTypes' /\ ended'[b] = IF at[b] = "inbox" THEN "disabled" ELSE ended[b]
        /\ \A c \in Bundles \ {b} : ended'[c] = ended[c]
    BY <1>1, <1>13 DEF EndedTypes
  <2>3. \A c \in Bundles \ {b} : Same(c)
    BY <1>2, <1>13, <2>1, <2>2 DEF Same, Stays, producer
  <2>4. BundleOK(b)' /\ Calm(b)
    <3>1. CASE at[b] = "inbox"
      <4>1. Settled(b)' /\ Lost(b)' /\ Accounted(b)'
        BY <2>2, <3>1 DEF Settled, Lost, Accounted
      <4> QED BY <1>1, <1>2, <1>13, <2>1, <2>2, <3>1, <4>1, Removed DEF producer
    <3>2. CASE at[b] # "inbox"
      <4>1. Same(b)
        BY <1>2, <1>13, <2>1, <2>2, <3>2 DEF Same, Stays, producer
      <4> QED BY <1>1, <4>1, SameIsCalm
    <3> QED BY <3>1, <3>2
  <2>5. \A c \in Bundles : BundleOK(c)' /\ Calm(c)
    BY <2>3, <2>4, SameIsCalm DEF SpoolInv
  <2>6. DiskTypes'
    BY <1>1, <1>2, <1>13, <2>1 DEF DiskTypes
  <2>7. TypeOK'
    BY <1>4, <1>6, <1>8, <1>10, <1>13, <2>2, <2>6
  <2> QED BY <1>5, <1>6, <1>8, <1>13, <2>5, <2>7, Together
<1>14. CASE \E read \in BOOLEAN :
              /\ cooling' = cooling \union {b}
              /\ Becomes(a, [Doing("offer", b, "none") EXCEPT !.flag = read])
              /\ ~read => at[b] # "inbox" \/ b \in unread'
              /\ Trouble \/ NoTrouble
              /\ UNCHANGED <<at, flushed, index, ended>>
  <2>0. PICK read \in BOOLEAN :
              /\ Becomes(a, [Doing("offer", b, "none") EXCEPT !.flag = read])
              /\ ~read => at[b] # "inbox" \/ b \in unread'
    BY <1>14
  <2> DEFINE w == [Doing("offer", b, "none") EXCEPT !.flag = read]
  <2>1. w \in Work /\ w.pc = "offer" /\ w.on = b /\ w.flag = read
    <3>1. LET v == Doing("offer", b, "none") IN v \in Work /\ v.pc = "offer" /\ v.on = b
      BY Works DEF Busy
    <3> QED BY <3>1 DEF Work
  <2> HIDE DEF w
  <2>2. /\ ActorTypes' /\ actor'[a] = w
        /\ \A x \in Actors \ {a} : actor'[x] = actor[x]
    BY <1>1, <2>0, <2>1, Becoming DEF w
  <2>3. Present(b)' /\ (~read => Accounted(b)')
    <3>1. Present(b)' /\ (Accounted(b) => Accounted(b)')
      BY <1>7, <1>14 DEF Calm
    <3>2. b \in unread' => Accounted(b)'
      BY DEF Accounted, Lost
    <3> QED BY <2>0, <3>1, <3>2 DEF Present
  <2>4. ActorOK(a)'
    BY <2>1, <2>2, <2>3 DEF ActorOK, Busy
  <2>5. TypeOK'
    BY <1>4, <1>7, <1>9, <1>10, <1>14, <2>2
  <2> QED BY <1>5, <1>7, <1>14, <2>2, <2>4, <2>5, Together
<1>15. (at[b] = "inbox") \in BOOLEAN
  OBVIOUS
<1> QED BY <1>11, <1>12, <1>13, <1>14, <1>15 DEF Take

LEMMA ApplyStep ==
    ASSUME SpoolInv, \/ \E h \in Handlers : Apply(h)
                     \/ Visit
    PROVE  SpoolInv'
<1>1. CASE \E h \in Handlers : Apply(h)
  <2>1. PICK h \in Handlers : Apply(h)
    BY <1>1
  <2>2. PICK a \in Actors : a = h
    BY DEF Actors
  <2>3. ActorOK(a) /\ actor[a].pc = "take" /\ Take(a, actor[a].on) /\ pass' = pass
    BY <2>1, <2>2 DEF Apply, SpoolInv
  <2>4. actor[a].on \in Bundles /\ Present(actor[a].on)
    BY <2>3 DEF ActorOK, Busy
  <2> QED BY <2>3, <2>4, TakeStep
<1>2. CASE Visit
  <2>1. PICK b \in pass : Take(Replayer, b) /\ \E rest \in {pass \ {b}, {}} : pass' = rest
    BY <1>2 DEF Visit
  <2>2. b \in Bundles /\ Present(b)
    BY TypeParts DEF SpoolInv, ListsOK, ScanTypes
  <2>3. pass' \subseteq pass /\ Replayer \in Actors
    BY <2>1 DEF Actors
  <2> QED BY <2>1, <2>2, <2>3, TakeStep
<1> QED BY <1>1, <1>2

LEMMA TriedTypes ==
    ASSUME NEW d \in Delivery, NEW pending \in BOOLEAN
    PROVE  Tried(d, pending) \in Delivery
<1>1. MaxAttempts \in Nat /\ d.attempts \in 0 .. MaxAttempts
  BY SpoolAssumption DEF Delivery
<1>2. (IF d.attempts < MaxAttempts THEN d.attempts + 1 ELSE MaxAttempts) \in 0 .. MaxAttempts
  BY <1>1
<1> QED BY <1>2 DEF Delivery, Tried

LEMMA OfferStep ==
    ASSUME SpoolInv, NEW a \in Actors, Offer(a)
    PROVE  SpoolInv'
<1>1. /\ TypeOK /\ DiskTypes /\ ActorTypes /\ MemoryTypes /\ LogTypes /\ EndedTypes
      /\ ActorOK(a) /\ ListsOK
  BY TypeParts DEF SpoolInv
<1>2. /\ actor[a].pc = "offer" /\ Done(a)
      /\ UNCHANGED <<flushed, whole, safe, ready, dir, started, storageReady, loaded, scanVars,
                     admission, recording, rows, hollow, unread, committed, producer>>
  BY DEF Offer
<1>3. PICK b \in Bundles : b = actor[a].on
  BY <1>1, <1>2 DEF ActorOK, Busy
<1>4. BundleOK(b) /\ Present(b) /\ (~actor[a].flag => Accounted(b)) /\ actor[a].flag \in BOOLEAN
  BY <1>1, <1>2, <1>3, WorkFields DEF SpoolInv, ActorOK, ActorTypes
<1>5. /\ ActorTypes' /\ ActorOK(a)'
      /\ \A x \in Actors \ {a} : actor'[x] = actor[x]
  BY <1>1, <1>2, Finishing, Unengaged
<1>6. pass' = pass
  BY <1>2 DEF scanVars
<1>7. CASE /\ admission[b] = "dropped" /\ NoTrouble
           /\ Rm(InInbox(b)) /\ ended' = [ended EXCEPT ![b] = "dropped"]
           /\ index' = Unindexed(index, b) /\ cooling' = cooling \ {b}
           /\ UNCHANGED <<saved, delivery, queue, cleaning>>
  <2>1. /\ at' \in [Bundles -> Places]
        /\ at'[b] = IF at[b] = "inbox" THEN "gone" ELSE at[b]
        /\ \A c \in Bundles \ {b} : at'[c] = at[c]
    BY <1>1, <1>7, Removing DEF InInbox
  <2>2. /\ EndedTypes' /\ ended'[b] = "dropped"
        /\ \A c \in Bundles \ {b} : ended'[c] = ended[c]
    BY <1>1, <1>7 DEF EndedTypes
  <2>3. \A c \in Bundles \ {b} : Same(c)
    BY <1>2, <1>7, <2>1, <2>2 DEF Same, Stays, producer
  <2>4. BundleOK(b)' /\ Calm(b)
    <3>1. Settled(b)' /\ Accounted(b)' /\ Present(b)'
      BY <1>2, <1>7, <2>2 DEF Settled, Accounted, Present
    <3>2. Calm(b)
      BY <1>2, <2>1, <3>1 DEF Calm, producer
    <3>3. BundleOK(b)'
      BY <1>2, <1>4, <1>7, <2>1, <2>2, <3>1 DEF BundleOK, producer
    <3> QED BY <3>2, <3>3
  <2>5. \A c \in Bundles : BundleOK(c)' /\ Calm(c)
    BY <2>3, <2>4, SameIsCalm DEF SpoolInv
  <2>6. /\ index' \in Seq(Bundles) /\ IsInjective(index')
        /\ ToSet(index') \subseteq ToSet(index)
    BY <1>1, <1>7, UnindexedEntries DEF MemoryTypes
  <2>7. TypeOK'
    <3>1. DiskTypes'
      BY <1>1, <1>2, <1>7, <2>1 DEF DiskTypes
    <3>2. MemoryTypes'
      BY <1>1, <1>2, <1>7, <2>6 DEF MemoryTypes
    <3> QED BY <1>1, <1>2, <1>5, <1>7, <2>2, <3>1, <3>2, TypeStep DEF logVars
  <2> QED BY <1>5, <1>6, <1>7, <2>5, <2>6, <2>7, Together
<1>8. ASSUME NEW t \in Delivery, delivery' = [delivery EXCEPT ![b] = t],
             saved' \in {[saved EXCEPT ![b] = t], saved}, cooling' = cooling \union {b},
             UNCHANGED <<at, index, ended, cleaning>>, Trouble \/ NoTrouble
      PROVE  /\ \A c \in Bundles : BundleOK(c)' /\ Calm(c)
             /\ LogTypes' => TypeOK'
  <2>1. \A c \in Bundles : BundleOK(c)' /\ Calm(c)
    BY <1>2, <1>8, NoBundleTouched DEF producer
  <2>2. ASSUME LogTypes' PROVE TypeOK'
    <3>1. saved' \in [Bundles -> Delivery]
      BY <1>1, <1>8 DEF DiskTypes
    <3>2. DiskTypes'
      BY <1>1, <1>2, <1>8, <3>1 DEF DiskTypes
    <3>3. MemoryTypes'
      BY <1>1, <1>2, <1>8 DEF MemoryTypes
    <3> QED BY <1>1, <1>2, <1>5, <1>8, <2>2, <3>2, <3>3, TypeStep
  <2> QED BY <2>1, <2>2
<1>9. CASE \E t \in Delivery :
              /\ delivery' = [delivery EXCEPT ![b] = t]
              /\ saved' \in {[saved EXCEPT ![b] = t], saved}
              /\ cooling' = cooling \union {b}
              /\ UNCHANGED <<at, index, ended, cleaning, queue>>
              /\ Trouble \/ NoTrouble
  <2>1. LogTypes'
    BY <1>1, <1>2, <1>9 DEF LogTypes
  <2>2. TypeOK' /\ \A c \in Bundles : BundleOK(c)' /\ Calm(c)
    BY <1>8, <1>9, <2>1
  <2> QED BY <1>2, <1>5, <1>6, <1>9, <2>2, QuietlyBy
<1>10. CASE \E t \in Delivery :
              /\ admission[b] = "committed"
              /\ delivery' = [delivery EXCEPT ![b] = t]
              /\ saved' \in {[saved EXCEPT ![b] = t], saved}
              /\ cooling' = cooling \union {b}
              /\ UNCHANGED <<at, index, ended, cleaning>>
              /\ queue' = Append(queue, [bundle |-> b, whole |-> actor[a].flag])
              /\ NoTrouble
  <2> DEFINE u == [bundle |-> b, whole |-> actor[a].flag]
  <2>1. u \in [bundle : Bundles, whole : BOOLEAN] /\ u.bundle = b /\ u.whole = actor[a].flag
    BY <1>4
  <2> HIDE DEF u
  <2>2. queue' = Append(queue, u)
    BY <1>10 DEF u
  <2>3. queue \in Seq([bundle : Bundles, whole : BOOLEAN])
    BY <1>1 DEF LogTypes
  <2>4. /\ queue' \in Seq([bundle : Bundles, whole : BOOLEAN])
        /\ Len(queue') = Len(queue) + 1 /\ Len(queue) \in Nat
        /\ \A i \in 1 .. Len(queue) : queue'[i] = queue[i]
        /\ queue'[Len(queue) + 1] = u
    BY <2>1, <2>2, <2>3, AppendProperties, LenProperties
  <2>5. DOMAIN queue' = 1 .. Len(queue) + 1 /\ DOMAIN queue = 1 .. Len(queue)
    BY <2>3, <2>4, LenProperties
  <2>6. LogTypes'
    BY <1>1, <1>2, <1>10, <2>4 DEF LogTypes
  <2>7. TypeOK' /\ \A c \in Bundles : BundleOK(c)' /\ Calm(c)
    BY <1>8, <1>10, <2>6
  <2>8. admission'[b] = "committed" /\ Present(b)' /\ (~u.whole => Accounted(b)')
    BY <1>2, <1>4, <1>10, <2>1, <2>7 DEF Calm
  <2>9. ASSUME NEW i \in DOMAIN queue'
        PROVE  (\E j \in DOMAIN queue : queue'[i] = queue[j]) \/ QueuedOK(queue[i])'
    <3>1. CASE i \in 1 .. Len(queue)
      BY <2>4, <2>5, <3>1
    <3>2. CASE i = Len(queue) + 1
      BY <2>1, <2>4, <2>8, <3>2 DEF QueuedOK
    <3> QED BY <2>4, <2>5, <3>1, <3>2
  <2> QED BY <1>5, <1>6, <1>10, <2>7, <2>9, Together
<1> QED
  <2> DEFINE d == delivery[b]
             count(pending, persist) ==
                 /\ delivery' = [delivery EXCEPT ![b] = Tried(d, pending)]
                 /\ saved' = [saved EXCEPT ![b] = IF persist /\ at[b] = "inbox"
                                                  THEN Tried(d, pending) ELSE saved[b]]
                 /\ cooling' = cooling \union {b}
                 /\ UNCHANGED <<at, index, ended>>
  <2>1. d \in Delivery
    BY <1>1 DEF MemoryTypes
  <2>2. \A pending \in BOOLEAN : Tried(d, pending) \in Delivery
    BY <2>1, TriedTypes
  <2> HIDE DEF d
  <2>3. ASSUME NEW pending \in BOOLEAN, NEW persist \in BOOLEAN, count(pending, persist)
        PROVE  \E t \in Delivery :
                  /\ delivery' = [delivery EXCEPT ![b] = t]
                  /\ saved' \in {[saved EXCEPT ![b] = t], saved}
                  /\ cooling' = cooling \union {b}
                  /\ UNCHANGED <<at, index, ended>>
    <3>1. [saved EXCEPT ![b] = saved[b]] = saved
      BY <1>1 DEF DiskTypes
    <3> QED BY <2>2, <2>3, <3>1
  <2>4. \/ /\ admission[b] = "dropped" /\ NoTrouble
           /\ Rm(InInbox(b)) /\ ended' = [ended EXCEPT ![b] = "dropped"]
           /\ index' = Unindexed(index, b) /\ cooling' = cooling \ {b}
           /\ UNCHANGED <<saved, delivery, queue, cleaning>>
        \/ /\ admission[b] = "pending" /\ NoTrouble
           /\ count(TRUE, ~d.pending)
           /\ UNCHANGED <<queue, cleaning>>
        \/ /\ admission[b] = "committed" /\ NoTrouble
           /\ count(FALSE, FALSE)
           /\ Accepted(b, actor[a].flag)
        \/ /\ (admission[b] = "committed" /\ NoTrouble) \/ Trouble
           /\ count(FALSE, TRUE)
           /\ UNCHANGED <<queue, cleaning>>
    BY <1>3 DEF Offer, d
  <2>5. (~d.pending) \in BOOLEAN
    BY <2>1 DEF Delivery
  <2> HIDE DEF count
  <2>6. CASE /\ admission[b] = "pending" /\ NoTrouble
             /\ count(TRUE, ~d.pending)
             /\ UNCHANGED <<queue, cleaning>>
    BY <1>9, <2>3, <2>5, <2>6
  <2>7. CASE /\ admission[b] = "committed" /\ NoTrouble
             /\ count(FALSE, FALSE)
             /\ Accepted(b, actor[a].flag)
    BY <1>10, <2>3, <2>7 DEF Accepted
  <2>8. CASE /\ (admission[b] = "committed" /\ NoTrouble) \/ Trouble
             /\ count(FALSE, TRUE)
             /\ UNCHANGED <<queue, cleaning>>
    BY <1>9, <2>3, <2>8
  <2> QED BY <1>7, <2>4, <2>6, <2>7, <2>8

-----------------------------------------------------------------------------
(* The replayer.                                                           *)

\* The replayer between two bundles.
LEMMA ReplayerAtLoop ==
    ASSUME ActorTypes, NEW w \in {Resting} \union {AtLoop(pc) : pc \in {"recover", "refresh", "scan", "visit"}},
           Becomes(Replayer, w)
    PROVE  /\ ActorTypes' /\ ActorOK(Replayer)' /\ Replayer \in Actors
           /\ \A x \in Actors \ {Replayer} : actor'[x] = actor[x]
<1>1. w \in Work /\ w.pc \notin Busy /\ Replayer \in Actors
  BY Works DEF Busy, Actors
<1>2. /\ ActorTypes' /\ actor'[Replayer].pc \notin Busy
      /\ \A x \in Actors \ {Replayer} : actor'[x] = actor[x]
  BY <1>1, Becoming
<1> QED BY <1>1, <1>2, Unengaged

\* The replayer takes up a directory that is in staging.
LEMMA ReplayerPrepares ==
    ASSUME ActorTypes, DiskTypes, NEW b \in Bundles, NEW how \in {"startup", "staging"},
           Becomes(Replayer, DoingStaged(b, how))
    PROVE  /\ ActorTypes' /\ ActorOK(Replayer)' /\ Replayer \in Actors
           /\ \A x \in Actors \ {Replayer} : actor'[x] = actor[x]
<1> DEFINE v == Doing("prepare", b, how)
           w == [v EXCEPT !.dir = dir[b]]
<1>1. v \in Work /\ v.pc = "prepare" /\ v.on = b /\ v.how = how
  BY Works DEF Busy
<1>2. dir[b] \in Actors \union {None}
  BY DEF DiskTypes
<1> HIDE DEF v
<1>3. w \in Work /\ w.pc = "prepare" /\ w.on = b /\ w.how = how
  BY <1>1, <1>2 DEF Work
<1>4. Becomes(Replayer, w) /\ Replayer \in Actors
  BY DEF DoingStaged, v, Actors
<1> HIDE DEF w
<1>5. /\ ActorTypes' /\ actor'[Replayer] = w
      /\ \A x \in Actors \ {Replayer} : actor'[x] = actor[x]
  BY <1>3, <1>4, Becoming
<1>6. ActorOK(Replayer)'
  BY <1>3, <1>5 DEF ActorOK, Busy
<1> QED BY <1>4, <1>5, <1>6

LEMMA StartupSteps ==
    ASSUME SpoolInv, StartupBegins \/ Recover \/ Scan
    PROVE  SpoolInv'
<1>1. TypeOK /\ DiskTypes /\ ActorTypes /\ ScanTypes
  BY TypeParts DEF SpoolInv
<1>2. /\ UNCHANGED <<disk, memory, overdue, pass, logVars, producer, ended, trouble>>
      /\ todo' \subseteq Bundles
  <2>1. \A b \in ready : b \in Bundles
    BY <1>1 DEF DiskTypes
  <2> QED BY <1>1, <2>1 DEF StartupBegins, Recover, Scan, ScanTypes
<1>3. \A b \in Bundles : BundleOK(b)' /\ Calm(b)
  BY <1>2, NoBundleTouched DEF disk, producer, logVars
<1>4. observed \subseteq observed' /\ observed' \subseteq Bundles \X (Actors \union {None})
  <2>1. CASE UNCHANGED observed
    BY <1>1, <2>1 DEF ScanTypes
  <2>2. CASE \E b \in todo :
                 observed' = observed \union {<<b, IF at[b] = "open" THEN None ELSE dir[b]>>}
    <3>1. PICK b \in todo :
                 observed' = observed \union {<<b, IF at[b] = "open" THEN None ELSE dir[b]>>}
      BY <2>2
    <3>2. b \in Bundles /\ (IF at[b] = "open" THEN None ELSE dir[b]) \in Actors \union {None}
      BY <1>1 DEF ScanTypes, DiskTypes
    <3> QED BY <1>1, <3>1, <3>2 DEF ScanTypes
  <2> QED BY <2>1, <2>2 DEF StartupBegins, Recover, Scan
<1>5. ScanTypes'
  BY <1>1, <1>2, <1>4 DEF ScanTypes
<1>6. ASSUME ActorTypes', Replayer \in Actors, ActorOK(Replayer)',
             \A x \in Actors \ {Replayer} : actor'[x] = actor[x]
      PROVE  SpoolInv'
  <2>1. TypeOK'
    BY <1>1, <1>2, <1>5, <1>6, TypeStep DEF NoTrouble
  <2> QED BY <1>2, <1>3, <1>6, <2>1, QuietlyBy DEF memory, logVars
<1>7. CASE UNCHANGED actor
  <2>1. TypeOK'
    BY <1>1, <1>2, <1>5, <1>7, TypeStep DEF NoTrouble
  <2> QED BY <1>2, <1>3, <1>7, <2>1, Quietly DEF memory, logVars
<1>8. CASE Becomes(Replayer, AtLoop("recover"))
  BY <1>1, <1>6, <1>8, ReplayerAtLoop
<1>9. CASE \E b \in todo : \E how \in {"startup", "staging"} : Becomes(Replayer, DoingStaged(b, how))
  <2>1. PICK b \in Bundles, how \in {"startup", "staging"} : Becomes(Replayer, DoingStaged(b, how))
    BY <1>1, <1>9 DEF ScanTypes
  <2> QED BY <1>1, <1>6, <2>1, ReplayerPrepares
<1>10. CASE \E b \in todo : Becomes(Replayer, Doing("claim", b, "source"))
  <2>1. PICK b \in Bundles : Becomes(Replayer, Doing("claim", b, "source"))
    BY <1>1, <1>10 DEF ScanTypes
  <2>2. LET w == Doing("claim", b, "source")
        IN  w \in Work /\ w.pc = "claim" /\ w.on = b
    BY Works DEF Busy
  <2>3. Replayer \in Actors
    BY DEF Actors
  <2>4. /\ ActorTypes' /\ actor'[Replayer].pc = "claim" /\ actor'[Replayer].on = b
        /\ \A x \in Actors \ {Replayer} : actor'[x] = actor[x]
    BY <1>1, <2>1, <2>2, <2>3, Becoming
  <2>5. ActorOK(Replayer)'
    BY <2>4 DEF ActorOK, Busy
  <2> QED BY <1>6, <2>3, <2>4, <2>5
<1> QED BY <1>7, <1>8, <1>9, <1>10 DEF StartupBegins, Recover, Scan

\* What refreshInboxIndex leaves in the index is in the inbox, or has just
\* been moved to the dead letters.
LEMMA Refreshing ==
    ASSUME SpoolInv, RefreshIndex,
           UNCHANGED <<whole, safe, ready, saved, dir, logVars, producer, ended>>
    PROVE  /\ DiskTypes' /\ index' \in Seq(Bundles) /\ IsInjective(index')
           /\ delivery' \in [Bundles -> Delivery]
           /\ Trouble \/ NoTrouble
           /\ \A b \in Bundles : BundleOK(b)' /\ Calm(b)
           /\ \A b \in ToSet(index') : Present(b)'
<1>1. DiskTypes /\ MemoryTypes
  BY TypeParts DEF SpoolInv
<1> DEFINE inbox == {b \in Bundles : at[b] = "inbox"}
           present == Only(index, inbox)
           new == inbox \ ToSet(index)
<1>2. /\ present \in Seq(Bundles) /\ IsInjective(present)
      /\ ToSet(present) \subseteq inbox /\ ToSet(present) \subseteq ToSet(index)
  <2>1. index \in Seq(Bundles) /\ IsInjective(index)
    BY <1>1 DEF MemoryTypes
  <2> HIDE DEF inbox
  <2>2. present \in Seq(Bundles)
    BY <2>1, OnlyKeeps
  <2>3. IsInjective(present)
    BY <2>1, OnlyKeeps
  <2>4. \A k \in DOMAIN present : present[k] \in inbox /\ \E i \in DOMAIN index : present[k] = index[i]
    BY <2>1, OnlyKeeps
  <2> QED BY <2>2, <2>3, <2>4 DEF ToSet
<1>3. PICK order \in SetToSeqs(new) :
          LET all == present \o order
          IN /\ delivery' = [b \in Bundles |-> IF b \in new THEN saved[b] ELSE delivery[b]]
             /\ \E excess \in 0 .. Len(all) :
                    /\ (Len(all) - excess <= MaxInbox /\ NoTrouble) \/ (all # <<>> /\ Trouble)
                    /\ index' = SubSeq(all, excess + 1, Len(all))
                    /\ DeadLetter({all[i] : i \in 1 .. excess})
  BY DEF RefreshIndex
<1> DEFINE all == present \o order
<1>4. PICK excess \in 0 .. Len(all) :
          /\ Trouble \/ NoTrouble
          /\ index' = SubSeq(all, excess + 1, Len(all))
          /\ DeadLetter({all[i] : i \in 1 .. excess})
  BY <1>3
<1>5. delivery' \in [Bundles -> Delivery]
  BY <1>1, <1>3 DEF DiskTypes, MemoryTypes
<1>6. /\ all \in Seq(Bundles) /\ IsInjective(all) /\ ToSet(all) \subseteq inbox
  <2>1. new \subseteq Bundles
    OBVIOUS
  <2>2. order \in Seq(Bundles) /\ IsInjective(order) /\ ToSet(order) \subseteq new
    BY <2>1, Ordering
  <2>3. ToSet(present) \intersect ToSet(order) = {}
    BY <1>2, <2>2
  <2>4. /\ all \in Seq(Bundles) /\ IsInjective(all)
        /\ ToSet(all) = ToSet(present) \union ToSet(order)
    <3> HIDE DEF present
    <3> QED BY <1>2, <2>2, <2>3, Joined
  <2> QED BY <1>2, <2>2, <2>4
<1> HIDE DEF all, present, new
<1>7. Len(all) \in Nat /\ DOMAIN all = 1 .. Len(all) /\ \A i \in 1 .. Len(all) : all[i] \in inbox
  <2>1. Len(all) \in Nat /\ DOMAIN all = 1 .. Len(all)
    BY <1>6, LenProperties
  <2> QED BY <1>6, <2>1 DEF ToSet
<1>8. excess + 1 \in 1 .. Len(all) + 1 /\ Len(all) \in 0 .. Len(all)
  BY <1>7
<1>9. /\ index' \in Seq(Bundles) /\ IsInjective(index') /\ ToSet(index') \subseteq inbox
  BY <1>4, <1>6, <1>8, CutOut
<1>10. \A b \in Bundles : Stays(b)
  BY DEF Stays, producer, logVars
<1>11. \A b \in {all[i] : i \in 1 .. excess} : b \in Bundles => at[b] = "inbox"
  <2>1. \A i \in 1 .. excess : i \in 1 .. Len(all)
    BY <1>7
  <2> QED BY <1>7, <2>1
<1>12. \A b \in Bundles : BundleOK(b)' /\ Calm(b)
  BY <1>4, <1>10, <1>11, BuryInbox
<1>13. \A b \in ToSet(index') : Present(b)'
  BY <1>9, <1>12 DEF Calm, Present
<1>14. DiskTypes'
  BY <1>1, <1>4, Burying DEF DiskTypes
<1> QED BY <1>4, <1>5, <1>9, <1>12, <1>13, <1>14

LEMMA RefreshSteps ==
    ASSUME SpoolInv, FinishStartup \/ Replay \/ ReplayWithScan
    PROVE  SpoolInv'
<1>1. /\ TypeOK /\ DiskTypes /\ ActorTypes /\ ScanTypes /\ MemoryTypes /\ ListsOK
  BY TypeParts DEF SpoolInv
<1>2. /\ RefreshIndex
      /\ UNCHANGED <<whole, safe, ready, saved, dir, started, cooling, observed, overdue, logVars,
                     producer, ended>>
      /\ storageReady' \in {storageReady, TRUE}
  BY DEF FinishStartup, Replay, ReplayWithScan, scanVars
<1>3. /\ DiskTypes' /\ index' \in Seq(Bundles) /\ IsInjective(index')
      /\ delivery' \in [Bundles -> Delivery]
      /\ Trouble \/ NoTrouble
      /\ \A b \in Bundles : BundleOK(b)' /\ Calm(b)
      /\ \A b \in ToSet(index') : Present(b)'
  BY <1>2, Refreshing
<1>4. \E pc \in {"recover", "refresh", "scan", "visit"} : Becomes(Replayer, AtLoop(pc))
  BY DEF FinishStartup, Replay, ReplayWithScan
<1>5. /\ ActorTypes' /\ ActorOK(Replayer)' /\ Replayer \in Actors
      /\ \A x \in Actors \ {Replayer} : actor'[x] = actor[x]
  BY <1>1, <1>4, ReplayerAtLoop
<1>6. /\ todo' \subseteq Bundles
      /\ pass' = pass \/ pass' = ToSet(index')
  BY <1>1 DEF FinishStartup, Replay, ReplayWithScan, scanVars, ScanTypes
<1>7. ToSet(index') \subseteq Bundles
  BY <1>3, LenProperties, ElementOfSeq DEF ToSet
<1>8. TypeOK'
  <2>1. loaded' = TRUE
    BY <1>2 DEF RefreshIndex
  <2>2. MemoryTypes'
    BY <1>1, <1>2, <1>3, <2>1 DEF MemoryTypes
  <2>3. ScanTypes'
    BY <1>1, <1>2, <1>6, <1>7 DEF ScanTypes
  <2> QED BY <1>1, <1>2, <1>3, <1>5, <2>2, <2>3, TypeStep
<1>9. queue' = queue
  BY <1>2 DEF logVars
<1>10. \A b \in pass' : b \in pass \/ Present(b)'
  BY <1>3, <1>6
<1> QED BY <1>3, <1>5, <1>8, <1>9, <1>10, Together

LEMMA ExpireStep ==
    ASSUME SpoolInv, Expire
    PROVE  SpoolInv'
<1>1. /\ TypeOK /\ DiskTypes /\ ActorTypes /\ ScanTypes /\ MemoryTypes /\ ListsOK
  BY TypeParts DEF SpoolInv
<1> DEFINE seen == {o \in observed : InPlace(o)}
           late == seen \intersect overdue
           staged == {o[1] : o \in {p \in late : p[2] # None}}
<1>2. PICK good \in SUBSET {b \in staged : whole[b]} :
          LET bad == {o[1] : o \in late} \ good
          IN /\ IF \A b \in staged \intersect bad : ~whole[b] THEN NoTrouble ELSE Trouble
             /\ at' = [b \in Bundles |-> IF b \in good THEN "inbox"
                                         ELSE IF b \in bad THEN "dead" ELSE at[b]]
             /\ flushed' = [b \in Bundles |-> IF b \in good \union bad THEN at'[b]
                                              ELSE flushed[b]]
             /\ safe' = safe \union good /\ ready' = ready \union good
             /\ \E order \in SetToSeqs(good \ ToSet(index)) : index' = index \o order
             /\ delivery' = [b \in Bundles |-> IF b \in good THEN saved[b] ELSE delivery[b]]
  BY DEF Expire
<1>3. /\ observed' = seen \ late /\ overdue' = {} /\ pass' = ToSet(index')
      /\ Becomes(Replayer, AtLoop("visit"))
      /\ UNCHANGED <<whole, saved, dir, started, storageReady, loaded, cooling, todo, logVars,
                     producer, ended>>
  BY DEF Expire
<1> DEFINE bad == {o[1] : o \in late} \ good
<1>4. \A b \in good : b \in Bundles /\ at[b] = "staging" /\ whole[b]
  <2>1. ASSUME NEW o \in late, o[2] # None PROVE o[1] \in Bundles /\ at[o[1]] = "staging"
    BY <1>1, <2>1 DEF ScanTypes, InPlace
  <2> QED BY <2>1
<1>5. \A b \in bad : b \in Bundles /\ at[b] \in {"open", "source", "staging"}
  <2>1. ASSUME NEW o \in late PROVE o[1] \in Bundles /\ at[o[1]] \in {"open", "source", "staging"}
    BY <1>1 DEF ScanTypes, InPlace
  <2> QED BY <2>1
<1>6. observed' \subseteq Bundles \X (Actors \union {None})
  BY <1>1, <1>3 DEF ScanTypes
<1> HIDE DEF bad, staged, late, seen
<1>7. Trouble \/ NoTrouble
  BY <1>2
<1>8. /\ at' \in [Bundles -> Places] /\ flushed' \in [Bundles -> Places]
      /\ \A b \in Bundles : at'[b] = IF b \in good THEN "inbox"
                                     ELSE IF b \in bad THEN "dead" ELSE at[b]
      /\ \A b \in Bundles : flushed'[b] = IF b \in good \union bad THEN at'[b] ELSE flushed[b]
  <2>1. at' = [b \in Bundles |-> IF b \in good THEN "inbox"
                                 ELSE IF b \in bad THEN "dead" ELSE at[b]]
    BY <1>2 DEF bad
  <2>2. flushed' = [b \in Bundles |-> IF b \in good \union bad THEN at'[b] ELSE flushed[b]]
    BY <1>2 DEF bad
  <2>3. at' \in [Bundles -> Places]
    BY <1>1, <2>1 DEF DiskTypes, Places
  <2>4. flushed' \in [Bundles -> Places]
    BY <1>1, <2>2, <2>3 DEF DiskTypes
  <2> QED BY <2>1, <2>2, <2>3, <2>4
<1>9. safe' = safe \union good /\ ready' = ready \union good
  BY <1>2
<1>10. \A b \in Bundles : BundleOK(b)' /\ Calm(b)
  <2>1. ASSUME NEW b \in Bundles, b \in good PROVE BundleOK(b)' /\ Calm(b)
    <3>1. /\ at[b] = "staging" /\ at'[b] = "inbox" /\ flushed'[b] = "inbox"
          /\ whole'[b] /\ b \in safe' /\ b \in ready'
          /\ told' = told /\ ended' = ended /\ admission' = admission
          /\ cleaning' = cleaning /\ hollow' = hollow /\ rows' = rows /\ committed' = committed
          /\ unread' = unread
      BY <1>3, <1>4, <1>8, <1>9, <2>1 DEF logVars, producer
    <3>2. /\ Settled(b)' <=> Settled(b)
          /\ Lost(b)' <=> Lost(b)
          /\ Accounted(b)' <=> Accounted(b)
          /\ Present(b)'
      BY <3>1 DEF Settled, Lost, Accounted, Present
    <3>3. Calm(b)
      BY <3>1, <3>2 DEF Calm
    <3>4. BundleOK(b)
      BY DEF SpoolInv
    <3>5. BundleOK(b)'
      BY <3>1, <3>2, <3>4 DEF BundleOK
    <3> QED BY <3>3, <3>5
  <2>2. ASSUME NEW b \in Bundles, b \notin good PROVE BundleOK(b)' /\ Calm(b)
    <3>1. Stays(b) /\ BundleOK(b)
      BY <1>3, <1>9, <2>2 DEF SpoolInv, Stays, logVars, producer
    <3>2. CASE b \in bad
      <4>1. at'[b] = "dead" /\ flushed'[b] = "dead" /\ at[b] \notin {"nowhere", "gone"}
        BY <1>5, <1>8, <2>2, <3>2
      <4> QED BY <3>1, <4>1, Buried
    <3>3. CASE b \notin bad
      <4>1. Same(b)
        BY <1>8, <2>2, <3>1, <3>3 DEF Same
      <4> QED BY <3>1, <4>1, SameIsCalm
    <3> QED BY <3>2, <3>3
  <2> QED BY <2>1, <2>2
<1>11. PICK order \in SetToSeqs(good \ ToSet(index)) : index' = index \o order
  BY <1>2
<1>12. /\ index' \in Seq(Bundles) /\ IsInjective(index')
       /\ ToSet(index') \subseteq ToSet(index) \union good
  <2>1. good \ ToSet(index) \subseteq Bundles
    BY <1>4
  <2>2. order \in Seq(Bundles) /\ IsInjective(order) /\ ToSet(order) \subseteq good \ ToSet(index)
    BY <2>1, Ordering
  <2>3. index \in Seq(Bundles) /\ IsInjective(index) /\ ToSet(index) \intersect ToSet(order) = {}
    BY <1>1, <2>2 DEF MemoryTypes
  <2>4. /\ index \o order \in Seq(Bundles) /\ IsInjective(index \o order)
        /\ ToSet(index \o order) = ToSet(index) \union ToSet(order)
    BY <2>2, <2>3, Joined
  <2> QED BY <1>11, <2>2, <2>4
<1>13. \A b \in ToSet(index') : Present(b)'
  <2>1. \A b \in good : Present(b)'
    BY <1>4, <1>8 DEF Present
  <2>2. \A b \in ToSet(index) : b \in Bundles /\ Present(b)
    BY <1>1, LenProperties, ElementOfSeq DEF MemoryTypes, ListsOK, ToSet
  <2> QED BY <1>10, <1>12, <2>1, <2>2 DEF Calm
<1>14. /\ ActorTypes' /\ ActorOK(Replayer)' /\ Replayer \in Actors
       /\ \A x \in Actors \ {Replayer} : actor'[x] = actor[x]
  BY <1>1, <1>3, ReplayerAtLoop
<1>15. TypeOK'
  <2>1. DiskTypes'
    BY <1>1, <1>3, <1>4, <1>8, <1>9 DEF DiskTypes
  <2>2. delivery' \in [Bundles -> Delivery]
    BY <1>1, <1>2 DEF DiskTypes, MemoryTypes
  <2>3. MemoryTypes'
    BY <1>1, <1>3, <1>12, <2>2 DEF MemoryTypes
  <2>4. ToSet(index') \subseteq Bundles
    BY <1>12, LenProperties, ElementOfSeq DEF ToSet
  <2>5. ScanTypes'
    BY <1>1, <1>3, <1>6, <2>4 DEF ScanTypes
  <2> QED BY <1>1, <1>3, <1>7, <1>14, <2>1, <2>3, <2>5, TypeStep
<1>16. queue' = queue /\ \A b \in pass' : Present(b)'
  BY <1>3, <1>13 DEF logVars
<1> QED BY <1>10, <1>13, <1>14, <1>15, <1>16, Together

LEMMA EndPassStep ==
    ASSUME SpoolInv, EndPass
    PROVE  SpoolInv'
<1>1. TypeOK /\ ActorTypes /\ MemoryTypes
  BY TypeParts DEF SpoolInv
<1>2. /\ Becomes(Replayer, Resting) /\ cooling' \subseteq cooling
      /\ UNCHANGED <<disk, started, storageReady, loaded, index, delivery, scanVars, logVars,
                     producer, ended, trouble>>
  BY DEF EndPass
<1>3. /\ ActorTypes' /\ ActorOK(Replayer)' /\ Replayer \in Actors
      /\ \A x \in Actors \ {Replayer} : actor'[x] = actor[x]
  BY <1>1, <1>2, ReplayerAtLoop
<1>4. \A b \in Bundles : BundleOK(b)' /\ Calm(b)
  BY <1>2, NoBundleTouched DEF disk, producer, logVars
<1>5. TypeOK'
  <2>1. MemoryTypes'
    BY <1>1, <1>2 DEF MemoryTypes
  <2> QED BY <1>1, <1>2, <1>3, <2>1, TypeStep DEF NoTrouble
<1> QED BY <1>2, <1>3, <1>4, <1>5, QuietlyBy DEF scanVars, logVars

-----------------------------------------------------------------------------
(* A crash.                                                                *)

LEMMA CrashStep ==
    ASSUME SpoolInv, Crash
    PROVE  SpoolInv'
<1>1. /\ TypeOK /\ DiskTypes /\ LogTypes /\ ListsOK
  BY TypeParts DEF SpoolInv
<1>2. /\ Trouble /\ flushed' = at'
      /\ hollow' = hollow \intersect ToSet(rows')
      /\ actor' = [a \in Actors |-> Resting]
      /\ started' = FALSE /\ storageReady' = FALSE /\ loaded' = FALSE
      /\ index' = <<>> /\ cooling' = {} /\ observed' = {} /\ overdue' = {}
      /\ delivery' = [b \in Bundles |-> Fresh]
      /\ todo' = {} /\ pass' = {}
      /\ queue' = <<>> /\ cleaning' = {}
      /\ UNCHANGED <<safe, ready, saved, dir, admission, recording, unread, committed,
                     producer, ended>>
  BY DEF Crash
<1>3. PICK back \in SUBSET {b \in Bundles : flushed[b] # at[b]} :
          at' = [b \in Bundles |-> IF b \in back THEN flushed[b] ELSE at[b]]
  BY DEF Crash
<1>4. /\ at' \in [Bundles -> Places]
      /\ \A b \in Bundles : at'[b] \in {at[b], flushed[b]} /\ flushed'[b] = at'[b]
  BY <1>1, <1>2, <1>3 DEF DiskTypes
<1>5. PICK torn \in SUBSET {b \in Bundles \ safe : at[b] \notin {"nowhere", "gone"}} :
          whole' = [b \in Bundles |-> whole[b] /\ b \notin torn]
  BY DEF Crash
<1>6. /\ whole' \in [Bundles -> BOOLEAN]
      /\ \A b \in Bundles : whole[b] /\ b \in safe => whole'[b]
  <2>1. \A b \in Bundles : (whole[b] /\ b \notin torn) \in BOOLEAN
    OBVIOUS
  <2>2. whole' \in [Bundles -> BOOLEAN]
    BY <1>5, <2>1, Zenon
  <2>3. \A b \in Bundles : whole'[b] = (whole[b] /\ b \notin torn)
    BY <1>5
  <2> QED BY <1>5, <2>2, <2>3
<1>7. rows' \in Seq(Bundles)
  <2>1. PICK n \in 0 .. Len(rows) : rows' = SubSeq(rows, 1, n)
    BY DEF Crash
  <2>2. rows \in Seq(Bundles) /\ Len(rows) \in Nat
    BY <1>1, LenProperties DEF LogTypes
  <2>3. 1 \in 1 .. Len(rows) + 1
    BY <2>2
  <2> QED BY <2>1, <2>2, <2>3, SubSeqProperties
<1>8. ASSUME NEW b \in Bundles PROVE BundleOK(b)'
  <2>1. BundleOK(b) /\ at'[b] \in {at[b], flushed[b]} /\ flushed'[b] = at'[b]
    BY <1>4 DEF SpoolInv
  <2>2. /\ Settled(b)' <=> Settled(b)
        /\ told' = told /\ ended' = ended /\ admission' = admission
        /\ (b \in ready' <=> b \in ready) /\ (b \in safe' <=> b \in safe)
        /\ b \notin cleaning' /\ (b \in hollow' => b \in hollow) /\ unread' = unread
    BY <1>2 DEF Settled, producer
  <2>3. b \in ready => b \in safe /\ whole'[b]
    BY <1>6, <2>1 DEF BundleOK
  <2>4. Lost(b) => Lost(b)'
    <3>1. at[b] = "dead" => at'[b] = "dead"
      BY <2>1 DEF BundleOK
    <3> QED BY <2>2, <3>1 DEF Lost
  <2>5. at'[b] = "gone" => Settled(b)
    BY <2>1 DEF BundleOK
  <2>6. told[b] = "durable" => Settled(b) \/ (b \in ready /\ at'[b] \in {"staging", "inbox", "dead"})
    BY <2>1 DEF BundleOK
  <2>7. at'[b] = "inbox" => b \in ready
    BY <2>1 DEF BundleOK
  <2>8. /\ ended[b] = "dropped" => admission[b] = "dropped"
        /\ b \in hollow => admission[b] = "committed" /\ Lost(b)
    BY <2>1 DEF BundleOK
  <2>9. flushed'[b] = at'[b]
    BY <2>1
  <2> QED BY <2>2, <2>3, <2>4, <2>5, <2>6, <2>7, <2>8, <2>9 DEF BundleOK
<1>9. Resting \in Work /\ Resting.pc \notin Busy
  BY Works DEF Busy
<1>10. ActorTypes' /\ \A a \in Actors : ActorOK(a)'
  <2>1. ActorTypes' /\ \A a \in Actors : actor'[a] = Resting
    BY <1>2, <1>9 DEF ActorTypes
  <2> QED BY <1>9, <2>1, Unengaged
<1>11. TypeOK'
  <2>1. DiskTypes'
    BY <1>1, <1>2, <1>4, <1>6 DEF DiskTypes
  <2>2. MemoryTypes'
    <3>1. <<>> \in Seq(Bundles) /\ IsInjective(<<>>)
      BY EmptySeq DEF IsInjective
    <3>2. Fresh \in Delivery
      BY SpoolAssumption DEF Fresh, Delivery
    <3> QED BY <1>2, <3>1, <3>2 DEF MemoryTypes
  <2>3. ScanTypes'
    BY <1>2 DEF ScanTypes
  <2>4. LogTypes'
    BY <1>1, <1>2, <1>7, EmptySeq DEF LogTypes
  <2> QED BY <1>1, <1>2, <1>10, <2>1, <2>2, <2>3, <2>4, TypeStep
<1>12. ListsOK'
  <2>1. ToSet(index') = {} /\ DOMAIN queue' = {}
    BY <1>2, EmptySeq DEF ToSet
  <2> QED BY <1>2, <1>7, <2>1 DEF ListsOK
<1> QED BY <1>8, <1>10, <1>11, <1>12 DEF SpoolInv

-----------------------------------------------------------------------------
(* The theorems.                                                           *)

LEMMA InitHolds ==
    ASSUME Init
    PROVE  SpoolInv
<1>1. Resting \in Work /\ Resting.pc \notin Busy
  BY Works DEF Busy
<1>2. Fresh \in Delivery
  BY SpoolAssumption DEF Fresh, Delivery
<1>3. <<>> \in Seq(Bundles) /\ IsInjective(<<>>)
  BY EmptySeq DEF IsInjective
<1>4. DiskTypes /\ ActorTypes
  BY <1>1, <1>2 DEF Init, DiskTypes, ActorTypes, Places
<1>5. MemoryTypes /\ ScanTypes
  BY <1>2, <1>3 DEF Init, MemoryTypes, ScanTypes
<1>6. LogTypes
  BY <1>3, EmptySeq DEF Init, LogTypes
<1>7. ProducerTypes /\ EndedTypes /\ TroubleTypes
  BY SpoolAssumption DEF Init, ProducerTypes, EndedTypes, TroubleTypes
<1>8. TypeOK
  BY <1>4, <1>5, <1>6, <1>7, TypeParts
<1>9. \A b \in Bundles : BundleOK(b)
  BY DEF Init, BundleOK
<1>10. \A a \in Actors : ActorOK(a)
  <2>1. \A a \in Actors : actor[a].pc \notin Busy
    BY <1>1 DEF Init
  <2> QED BY <2>1 DEF ActorOK, Busy
<1>11. ListsOK
  <2>1. ToSet(index) = {} /\ DOMAIN queue = {} /\ pass = {} /\ rows = <<>>
    BY EmptySeq DEF Init, ToSet
  <2> QED BY <1>3, <2>1 DEF ListsOK
<1> QED BY <1>8, <1>9, <1>10, <1>11 DEF SpoolInv

LEMMA StutterHolds ==
    ASSUME SpoolInv, UNCHANGED vars
    PROVE  SpoolInv'
<1>1. UNCHANGED <<disk, actor, memory, scanVars, logVars, producer, ended, trouble>>
  BY DEF vars
<1>2. TypeOK'
  BY <1>1, TypeStep DEF SpoolInv, NoTrouble
<1>3. \A b \in Bundles : BundleOK(b)' /\ Calm(b)
  BY <1>1, NoBundleTouched DEF disk, producer, logVars
<1> QED BY <1>1, <1>2, <1>3, Quietly DEF memory, scanVars, logVars

LEMMA NextHolds ==
    ASSUME SpoolInv, Next
    PROVE  SpoolInv'
<1>1. ASSUME NEW b \in Bundles,
             Begin(b) \/ Finish(b) \/ Decide(b) \/ Cleanup(b) \/ Prune(b) \/ CooldownEnds(b)
      PROVE  SpoolInv'
  BY <1>1, BeginStep, DecideStep, CleanupStep, PruneStep, IdleSteps
<1>2. CASE ToggleRecording \/ Stop \/ \E o \in observed : QuietPeriodEnds(o)
  BY <1>2, IdleSteps
<1>3. CASE Write
  BY <1>3, WriteStep
<1>4. ASSUME NEW h \in Handlers, Apply(h) \/ \E b \in Bundles : Post(h, b)
      PROVE  SpoolInv'
  BY <1>4, ApplyStep, PostStep
<1>5. ASSUME NEW a \in Actors, Procedure(a) PROVE SpoolInv'
  BY <1>5, ClaimStep, PrepareStep, PublishStep, FlushStep, RegisterStep, OfferStep DEF Procedure
<1>6. CASE ReplayLoop
  BY <1>6, IdleSteps, StartupSteps, RefreshSteps, ExpireStep, ApplyStep, EndPassStep
     DEF ReplayLoop
<1>7. CASE Crash
  BY <1>7, CrashStep
<1> QED BY <1>1, <1>2, <1>3, <1>4, <1>5, <1>6, <1>7 DEF Next

LEMMA Invariant == Spec => []SpoolInv
<1>1. Init => SpoolInv
  BY InitHolds
<1>2. SpoolInv /\ [Next]_vars => SpoolInv'
  BY NextHolds, StutterHolds
<1> QED BY <1>1, <1>2, PTL DEF Spec

\* Every variable of the synchronizer keeps its type, and no bundle is in the
\* index twice.
THEOREM TypesHold == Spec => []TypeOK
<1>1. SpoolInv => TypeOK
  BY DEF SpoolInv
<1> QED BY <1>1, Invariant, PTL

\* Until a bundle is settled its directory is somewhere; and what the producer
\* was told is durable is whole, and where the writer or a restart will find it.
THEOREM AcknowledgedBundlesAreKept == Spec => []AckedIsKept
<1>1. SpoolInv => AckedIsKept
  BY DEF SpoolInv, BundleOK, AckedIsKept
<1> QED BY <1>1, Invariant, PTL

\* A bundle is written without its bodies only if its directory was moved away
\* while its update waited, or a part could not be read.
THEOREM BodiesAreMissingForAReason == Spec => []BodiesLostForAReason
<1>1. SpoolInv => BodiesLostForAReason
  <2>1. SpoolInv => hollow \subseteq Bundles
    BY TypeParts DEF SpoolInv, LogTypes
  <2> QED BY <2>1 DEF SpoolInv, BundleOK, BodiesLostForAReason, Lost
<1> QED BY <1>1, Invariant, PTL

=============================================================================
