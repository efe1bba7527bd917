--------------------------- MODULE ArtworkResolver ---------------------------
(***************************************************************************)
(* Cover art of Bluetooth tracks: BluetoothService, whose D-Bus thread     *)
(* follows the tracks of the connected phone, and OnlineArtworkResolver,   *)
(* whose worker thread looks their covers up and publishes them in one     *)
(* file.  The service has a lock of its own for its metadata, the resolver *)
(* a condition for its request slot; the service never holds both.         *)
(*                                                                         *)
(* A cover is named by its track.  An image that was damaged on disk is in *)
(* "damaged" and no longer the cover of its track.                         *)
(***************************************************************************)
EXTENDS Naturals, Sequences, FiniteSets, SequencesExt

CONSTANTS
  Tracks,       \* tracks the phone plays
  None,         \* no track
  Covered,      \* the tracks for which the providers have a cover
  MaxPositive,  \* max_positive_files
  MaxNegative,  \* max_negative_entries
  Faults,       \* what may go wrong
  MaxFaults,    \* bound: how often
  MaxChanges    \* bound: changes of the track

ASSUME TracksAssumption == None \notin Tracks /\ Covered \subseteq Tracks
ASSUME LimitAssumption ==
  /\ MaxPositive \in Nat \ {0}  \* online_artwork.py:913-924
  /\ MaxNegative \in Nat \ {0}
ASSUME FaultsAssumption ==
  Faults \subseteq {"lookup",   \* a provider does not answer, or refuses
                    "publish",  \* the file cannot be written
                    "damage",   \* a file of the cache is damaged
                    "remove",   \* a file of the cache is removed
                    "restart"}  \* the player dies and is started again
ASSUME BoundAssumption == {MaxFaults, MaxChanges} \subseteq Nat

VARIABLES
  track,       \* BluetoothService._track_identity
  cover,       \* the track whose image its metadata refers to
  dbus,        \* the D-Bus thread: polling, or about to tell the resolver
  generation, current, pending, stop,  \* the resolver, under its condition
  worker,      \* the worker: where, with which request
  positive,    \* _positive, least recently used first
  negative,    \* _negative, oldest first
  early,       \* tracks whose latest retry time has not come
  refused,     \* observer: tracks whose failed lookup may not be repeated yet
  disk,        \* files of the cache directory, by modification time
  damaged,     \* those of them that hold no image
  published,   \* the track whose image is in the published file
  faults, changes

serviceVars == <<track, cover, dbus, changes>>
slotVars == <<generation, current, pending, stop>>
cacheVars == <<positive, disk, damaged>>
retryVars == <<negative, early, refused>>
vars == <<serviceVars, slotVars, worker, cacheVars, retryVars, published, faults>>

Request == [track : Tracks, generation : Nat, waits : BOOLEAN]
NoRequest == [track |-> None, generation |-> 0, waits |-> FALSE]

\* The worker's program counter, and the request it works on.
Waiting == {"next", "asleep", "dozing", "ended"}
Working == {"lookup", "search", "fetch", "store", "check", "publish", "offer"}
At(where) == [at |-> where, track |-> None, generation |-> 0, fresh |-> FALSE]

TypeOK ==
  /\ {track, cover, current, published} \subseteq Tracks \union {None}
  /\ dbus \in {"poll", "tell"}
  /\ generation \in Nat
  /\ pending \in Request \union {NoRequest}
  /\ stop \in BOOLEAN
  /\ \/ worker \in {At(w) : w \in Waiting}
     \/ worker \in [at : Working, track : Tracks, generation : Nat, fresh : BOOLEAN]
  /\ {positive, negative, disk} \subseteq Seq(Tracks)
  /\ Len(positive) <= MaxPositive /\ Len(negative) <= MaxNegative
  /\ refused \subseteq early /\ early \subseteq Tracks
  /\ damaged \subseteq ToSet(disk)
  /\ faults \in 0 .. MaxFaults /\ changes \in 0 .. MaxChanges

\* What a sequence has at some of its positions.
AtPositions(s, P) ==
  [n \in 1 .. Cardinality(P) |-> s[CHOOSE i \in P : Cardinality({j \in P : j <= i}) = n]]

\* An ordered dictionary whose keys are what matters.
Keeping(s, S) == AtPositions(s, {i \in DOMAIN s : s[i] \in S})
Without(s, k) == AtPositions(s, {i \in DOMAIN s : s[i] # k})
MoveToEnd(s, k) == Append(Without(s, k), k)
Newest(s, n) == IF Len(s) <= n THEN s ELSE SubSeq(s, Len(s) - n + 1, Len(s))

Fault(kind) == kind \in Faults /\ faults < MaxFaults /\ faults' = faults + 1

Init ==
  /\ track = None /\ cover = None /\ dbus = "poll" /\ changes = 0
  /\ generation = 0 /\ current = None /\ pending = NoRequest /\ stop = FALSE
  /\ worker = At("next")
  /\ positive = <<>> /\ disk = <<>> /\ damaged = {}
  /\ negative = <<>> /\ early = {} /\ refused = {}
  /\ published = None /\ faults = 0

-----------------------------------------------------------------------------
(* The D-Bus thread.                                                       *)

\* A poll finds another track, or none: the cover is cleared at once.
TrackChanges(t) ==
  /\ dbus = "poll" /\ t # track
  /\ changes < MaxChanges /\ changes' = changes + 1
  /\ track' = t
  /\ cover' = None
  /\ dbus' = "tell"
  /\ UNCHANGED <<slotVars, worker, cacheVars, retryVars, published, faults>>

\* Mutant: the worker is left waiting.
Unnotified == worker

\* _condition.notify().
Notified == IF worker.at \in {"asleep", "dozing"} THEN At("next") ELSE worker

\* Then it tells the resolver, for which it gives up its own lock.
Cancel ==
  /\ dbus = "tell" /\ track = None
  /\ generation' = generation + 1
  /\ current' = None
  /\ pending' = NoRequest
  /\ worker' = Notified
  /\ dbus' = "poll"
  /\ UNCHANGED <<track, cover, changes, stop, cacheVars, retryVars, published, faults>>

Ask ==
  /\ dbus = "tell" /\ track # None
  /\ ~stop /\ current # track
  /\ generation' = generation + 1
  /\ current' = track
  /\ pending' = [track |-> track, generation |-> generation', waits |-> FALSE]
  /\ worker' = Notified
  /\ dbus' = "poll"
  /\ UNCHANGED <<track, cover, changes, stop, cacheVars, retryVars, published, faults>>

AskInVain ==
  /\ dbus = "tell" /\ track # None
  /\ stop \/ current = track
  /\ dbus' = "poll"
  /\ UNCHANGED <<track, cover, changes, slotVars, worker, cacheVars, retryVars, published, faults>>

DBus == (\E t \in Tracks \union {None} : TrackChanges(t)) \/ Cancel \/ Ask \/ AskInVain

-----------------------------------------------------------------------------
(* The worker's requests.  _next_request and everything else under the     *)
(* condition is one step.                                                  *)

Matches ==
  /\ ~stop
  /\ generation = worker.generation
  /\ current = worker.track

Due == ~pending.waits \/ pending.track \notin early

WorkerTakes ==
  /\ worker.at = "next" /\ ~stop
  /\ pending # NoRequest /\ Due
  /\ worker' = [at |-> "lookup", track |-> pending.track,
                generation |-> pending.generation, fresh |-> FALSE]
  /\ pending' = NoRequest
  /\ UNCHANGED <<serviceVars, generation, current, stop, cacheVars, retryVars, published, faults>>

WorkerWaits ==
  /\ worker.at = "next" /\ ~stop
  /\ \/ pending = NoRequest /\ worker' = At("asleep")
     \/ pending # NoRequest /\ ~Due /\ worker' = At("dozing")
  /\ UNCHANGED <<serviceVars, slotVars, cacheVars, retryVars, published, faults>>

WorkerEnds ==
  /\ worker.at = "next" /\ stop
  /\ worker' = At("ended")
  /\ UNCHANGED <<serviceVars, slotVars, cacheVars, retryVars, published, faults>>

\* Mutant: a deferred request is not queued again.
Never ==
  /\ worker' = At("next")
  /\ UNCHANGED <<serviceVars, slotVars>>

\* The request waits for the retry time of its track, unless there is a newer one.
Again ==
  /\ pending' = IF Matches
                THEN [track |-> worker.track, generation |-> worker.generation, waits |-> TRUE]
                ELSE pending
  /\ worker' = At("next")
  /\ UNCHANGED <<serviceVars, generation, current, stop>>

\* Nothing before the retry time; the oldest entry gives way.
Defer(asked) ==
  /\ negative' = Newest(MoveToEnd(negative, worker.track), MaxNegative)
  /\ early' = early \union {worker.track}
  /\ refused' = (refused \union (IF asked THEN {worker.track} ELSE {}))
                  \intersect ToSet(negative')
  /\ Again

\* The retry time of a track comes; a worker that waits for it wakes up.
RetryTimeComes(t) ==
  /\ t \in early
  /\ early' = early \ {t}
  /\ refused' = refused \ {t}
  /\ worker' = IF worker.at = "dozing" /\ pending.track = t THEN At("next") ELSE worker
  /\ UNCHANGED <<serviceVars, slotVars, negative, cacheVars, published, faults>>

-----------------------------------------------------------------------------
(* Looking a cover up: in the cache, then at the providers.                *)

Goto(where) == worker' = [worker EXCEPT !.at = where]

CacheHit ==
  /\ worker.at = "lookup"
  /\ Contains(positive, worker.track)
  /\ positive' = MoveToEnd(positive, worker.track)
  /\ Goto("check")
  /\ UNCHANGED <<serviceVars, slotVars, disk, damaged, retryVars, published, faults>>

\* Mutant: every new request asks the providers.
NeverDenied == FALSE

\* Whether the negative cache forbids to ask the providers.
Denied == Contains(negative, worker.track) /\ worker.track \in early

CacheMiss ==
  /\ worker.at = "lookup"
  /\ ~Contains(positive, worker.track)
  /\ \/ Denied /\ Again /\ UNCHANGED negative
     \/ /\ ~Denied
        /\ negative' = Without(negative, worker.track)
        /\ Goto("search")
        /\ UNCHANGED <<serviceVars, slotVars>>
  /\ UNCHANGED <<early, refused, cacheVars, published, faults>>

\* MusicBrainz, and the choice of one match among its answers.
SearchSucceeds ==
  /\ worker.at = "search" /\ worker.track \in Covered
  /\ IF Matches THEN Goto("fetch") ELSE worker' = At("next")
  /\ UNCHANGED <<serviceVars, slotVars, cacheVars, retryVars, published, faults>>

\* The Cover Art Archive; the cover is written to the cache.
FetchSucceeds ==
  /\ worker.at = "fetch"
  /\ disk' = MoveToEnd(disk, worker.track)
  /\ damaged' = damaged \ {worker.track}
  /\ Goto("store")
  /\ UNCHANGED <<serviceVars, slotVars, positive, retryVars, published, faults>>

\* There is no cover, or a provider fails.
LookupFails ==
  /\ \/ worker.at = "search" /\ worker.track \notin Covered /\ UNCHANGED faults
     \/ worker.at \in {"search", "fetch"} /\ Fault("lookup")
  /\ Defer(TRUE)
  /\ UNCHANGED <<cacheVars, published>>

\* The cache forgets, and removes, what was not used for longest.
Store ==
  /\ worker.at = "store"
  /\ \/ /\ ~Contains(disk, worker.track)
        /\ Defer(TRUE)
        /\ UNCHANGED cacheVars
     \/ /\ Contains(disk, worker.track)
        /\ positive' = Newest(MoveToEnd(positive, worker.track), MaxPositive)
        /\ disk' = Keeping(disk, ToSet(disk) \ (ToSet(positive) \ ToSet(positive')))
        /\ damaged' = damaged \intersect ToSet(disk')
        /\ negative' = Without(negative, worker.track)
        /\ worker' = [worker EXCEPT !.at = "check", !.fresh = TRUE]
        /\ UNCHANGED <<serviceVars, slotVars, early, refused>>
  /\ UNCHANGED <<published, faults>>

-----------------------------------------------------------------------------
(* Publishing: look, write the file, look again and call back.             *)

\* Whether the request is still the latest one.
Check ==
  /\ worker.at = "check"
  /\ IF Matches THEN Goto("publish") ELSE worker' = At("next")
  /\ UNCHANGED <<serviceVars, slotVars, cacheVars, retryVars, published, faults>>

Readable == Contains(disk, worker.track) /\ worker.track \notin damaged

\* The file of the cache takes the place of the published one in one step.
Publish ==
  /\ worker.at = "publish" /\ Readable
  /\ published' = worker.track
  /\ Goto("offer")
  /\ UNCHANGED <<serviceVars, slotVars, cacheVars, retryVars, faults>>

PublishFails ==
  /\ worker.at = "publish" /\ Readable
  /\ Fault("publish")
  /\ Defer(FALSE)
  /\ UNCHANGED <<cacheVars, published>>

\* Mutant: the file stays when the cache drops it.
DropEntryOnly ==
  /\ worker.at = "publish" /\ ~Readable
  /\ positive' = Without(positive, worker.track)
  /\ IF worker.fresh
     THEN Defer(TRUE)
     ELSE Goto("lookup") /\ UNCHANGED <<serviceVars, slotVars, retryVars>>
  /\ UNCHANGED <<disk, damaged, published, faults>>

\* The file of the cache is of no use: it is dropped, and looked up again, at
\* once unless it was just fetched.
Drop ==
  /\ worker.at = "publish" /\ ~Readable
  /\ positive' = Without(positive, worker.track)
  /\ disk' = Without(disk, worker.track)
  /\ damaged' = damaged \ {worker.track}
  /\ IF worker.fresh
     THEN Defer(TRUE)
     ELSE Goto("lookup") /\ UNCHANGED <<serviceVars, slotVars, retryVars>>
  /\ UNCHANGED <<published, faults>>

\* Mutant: the callback takes the result for the cover of any track.
OfferToAnyTrack ==
  /\ worker.at = "offer"
  /\ IF Matches
     THEN /\ negative' = Without(negative, worker.track)
          /\ cover' = worker.track
     ELSE UNCHANGED <<negative, cover>>
  /\ worker' = At("next")
  /\ UNCHANGED <<track, dbus, changes, slotVars, cacheVars, early, refused, published, faults>>

\* The callback takes the service's lock and looks at the track it has by now.
Offer ==
  /\ worker.at = "offer"
  /\ IF Matches
     THEN /\ negative' = Without(negative, worker.track)
          /\ cover' = IF track = worker.track THEN track ELSE cover
     ELSE UNCHANGED <<negative, cover>>
  /\ worker' = At("next")
  /\ UNCHANGED <<track, dbus, changes, slotVars, cacheVars, early, refused, published, faults>>

Worker ==
  \/ WorkerTakes \/ WorkerWaits \/ WorkerEnds
  \/ CacheHit \/ CacheMiss \/ SearchSucceeds \/ FetchSucceeds \/ LookupFails \/ Store
  \/ Check \/ Publish \/ PublishFails \/ Drop \/ Offer

-----------------------------------------------------------------------------
(* The player as a whole, and its files.                                   *)

\* Mutant: close does not wake the worker up.
CloseQuietly ==
  /\ ~stop
  /\ stop' = TRUE
  /\ pending' = NoRequest
  /\ UNCHANGED <<serviceVars, generation, current, worker, cacheVars, retryVars, published, faults>>

Close ==
  /\ ~stop
  /\ stop' = TRUE
  /\ pending' = NoRequest
  /\ worker' = Notified
  /\ UNCHANGED <<serviceVars, generation, current, cacheVars, retryVars, published, faults>>

\* The worker thread and everything in memory are gone; the cache is read again.
Restart ==
  /\ Fault("restart")
  /\ track' = None /\ cover' = None /\ dbus' = "poll" /\ changes' = changes
  /\ generation' = 0 /\ current' = None /\ pending' = NoRequest /\ stop' = FALSE
  /\ worker' = At("next")
  /\ positive' = Newest(Keeping(disk, ToSet(disk) \ damaged), MaxPositive)
  /\ disk' = positive' /\ damaged' = {}
  /\ negative' = <<>> /\ early' = {} /\ refused' = {}
  /\ UNCHANGED published

CacheDamaged(t) ==
  /\ Contains(disk, t) /\ t \notin damaged
  /\ Fault("damage")
  /\ damaged' = damaged \union {t}
  /\ UNCHANGED <<serviceVars, slotVars, worker, positive, disk, retryVars, published>>

CacheRemoved(t) ==
  /\ Contains(disk, t)
  /\ Fault("remove")
  /\ disk' = Without(disk, t)
  /\ damaged' = damaged \ {t}
  /\ UNCHANGED <<serviceVars, slotVars, worker, positive, retryVars, published>>

Next ==
  \/ DBus \/ Worker \/ Close \/ Restart
  \/ \E t \in Tracks : RetryTimeComes(t) \/ CacheDamaged(t) \/ CacheRemoved(t)

Spec == Init /\ [][Next]_vars

\* Threads run, what they ask ends in a timeout, and time passes.
FairSpec ==
  /\ Spec
  /\ WF_vars(Worker)
  /\ WF_vars(Cancel \/ Ask \/ AskInVain)
  /\ \A t \in Tracks : WF_vars(RetryTimeComes(t))

-----------------------------------------------------------------------------
(* Properties.                                                             *)

\* Who reads the published file because the metadata refers to it finds the
\* cover of the current track, which stays until the track changes.
Latest == INSTANCE LatestCover WITH
            track <- track,
            picture <- IF cover = None THEN None ELSE published
ShowsLatestCover == Latest!Spec

\* Nothing is forgotten: as long as a track has no cover, its latest request
\* waits or is being worked on.
RequestKept ==
  track # None /\ cover = None /\ dbus = "poll" /\ ~stop =>
    /\ current = track
    /\ \/ pending.track = track /\ pending.generation = generation
       \/ worker.track = track /\ worker.generation = generation

\* However often the player was restarted, the cache directory holds what the
\* cache knows, and at most one cover that is being stored.
CacheBounded ==
  /\ TypeOK
  /\ Len(positive) <= MaxPositive
  /\ ToSet(disk) \subseteq
       ToSet(positive) \union (IF worker.at = "store" THEN {worker.track} ELSE {})

\* online_artwork.py: the latest request is kept, and both caches stay small.
ResolverKept == RequestKept /\ CacheBounded

\* A failed lookup is not repeated before its retry time, whichever tracks come
\* and go meanwhile, unless the negative cache had to forget it.
AsksInTime ==
  [][worker.at # "search" /\ worker'.at = "search" => worker'.track \notin refused]_vars

\* When changes and failures cease, the track that is left has its cover; and
\* whatever the worker does or waits for, it ends, so that close returns.
CoverArrives ==
  /\ <>[](track \in Covered => cover = track \/ stop)
  /\ stop ~> worker.at = "ended" \/ ~stop

=============================================================================
