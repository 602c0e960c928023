------------------------------ MODULE Consulta ------------------------------
(***************************************************************************)
(* How the Firestore client of one phone answers getDocuments for the ads. *)
(* Three parties: the main thread of the app, which asks and is told; the  *)
(* worker queue of the client, which alone touches the state in `client';  *)
(* and the backend, at the other end of a watch stream that may break,     *)
(* stay silent or be restarted at any moment.  A method of the client is   *)
(* an operator that takes the state of the client to the next one.         *)
(***************************************************************************)
EXTENDS Integers, Sequences, FiniteSets, SequencesExt

CONSTANTS Ads,                       \* the documents of the collection
          MaxVersion,                \* bound: versions of the collection
          MaxCalls,                  \* bound: calls of getDocuments
          MaxEvents,                 \* bound: calls, writes and faults together
          MaxConcurrentLimboResolutions  \* max_concurrent_limbo_resolutions_

ASSUME BoundsAssumption ==
  /\ IsFiniteSet(Ads) /\ "all" \notin Ads
  /\ MaxVersion \in Nat \ {0} /\ MaxCalls \in Nat \ {0} /\ MaxEvents \in Nat
  /\ MaxConcurrentLimboResolutions \in Nat \ {0}

VARIABLES client,    \* what the worker queue owns, and the queues it posts to
          tasks,     \* tasks the main thread has put on the worker queue
          asked,     \* the calls in their order: what the phone knew when it asked
          answer,    \* what each call was told
          board,     \* board[v]: the documents after the v-th change
          own,       \* the one write of this phone, with its commit version; acked once
                     \* the phone has been told that it was committed or refused
          backend,   \* what the backend serves on the stream of the moment
          spent      \* faults so far; reused: see Reuses; stopped: see OnStreamFinishOK

vars == <<client, tasks, asked, answer, board, own, backend, spent>>

-----------------------------------------------------------------------------
(* Data *)

Gone == 0                             \* the text of a document that is not there
Mine == MaxVersion + 1                \* the text this phone writes
Now == Len(board)
Calls == 1..MaxCalls
NoWrite == [made |-> FALSE, at |-> 0, acked |-> FALSE]
Waiting == [kind |-> "waiting"]

Query == 0                            \* the target of the query; lookups are 1, 2, ...
NoView == [state |-> "none"]
NoChange == [change |-> FALSE]        \* a snapshot that says nothing of a target
NoStates == [t \in {} |-> 0]

\* The watch change aggregator before any request of a stream.
NewAggregator == [states |-> NoStates, docs |-> NoStates, resets |-> {}]
NewTargetState == [pending |-> 0, current |-> FALSE, changes |-> [d \in Ads |-> "none"]]

Drop(f, k) == [x \in DOMAIN f \ {k} |-> f[x]]
Put(f, k, v) == [x \in DOMAIN f \cup {k} |-> IF x = k THEN v ELSE f[x]]
\* What a sequence has of a set, in its order.
Only(seq, set) ==
  LET kept[i \in 0..Len(seq)] ==
        IF i = 0 THEN <<>>
        ELSE IF seq[i] \in set THEN Append(kept[i - 1], seq[i]) ELSE kept[i - 1]
  IN kept[Len(seq)]
Check(s, condition) == IF condition THEN s ELSE [s EXCEPT !.aborted = TRUE]  \* HARD_ASSERT

\* The bound on what happens to the client: each call, each write, each lost or
\* restarted stream, each target the backend starts over is one event.
MayHappen == Len(asked) + (Now - 1) + spent.faults + (IF own.made /\ own.at = 0 THEN 1 ELSE 0)
               < MaxEvents

-----------------------------------------------------------------------------
(* EventManager, QueryListener: from views to the calls that wait *)

Event(s, c) == [call |-> c, error |-> FALSE, fromCache |-> s.view.state # "Synced",
                docs |-> [d \in Ads |-> s.view.docs[d].data]]

\* wait_for_sync_when_online: the first event is what is synced, or anything once
\* the client is known to be offline.
ShouldRaiseInitialEvent(s) == s.view.state = "Synced" \/ s.online = "Offline"

RaiseToLatestFirst(s, calls) ==
  [s EXCEPT !.mail = @ \o Reverse([i \in DOMAIN calls |-> Event(s, calls[i])]),
            !.raised = @ \cup Range(calls)]
RaiseTo(s, calls) == [s EXCEPT !.mail = @ \o [i \in DOMAIN calls |-> Event(s, calls[i])],
                               !.raised = @ \cup Range(calls)]

\* A new snapshot: first events to those that may have one, further events to the
\* others (which their muted listeners will drop).
OnViewSnapshots(s) ==
  RaiseTo(s, IF ShouldRaiseInitialEvent(s) THEN s.listeners ELSE Only(s.listeners, s.raised))

OnOnlineStateChangedIgnored(s) == s
OnOnlineStateChanged(s) ==
  IF s.view = NoView \/ ~ShouldRaiseInitialEvent(s) THEN s
  ELSE RaiseTo(s, Only(s.listeners, Calls \ s.raised))

OnError(s) ==
  [s EXCEPT !.mail = @ \o [i \in DOMAIN s.listeners |->
                             [call |-> s.listeners[i], error |-> TRUE]],
            !.listeners = <<>>, !.raised = {}]

-----------------------------------------------------------------------------
(* View: the documents of the query, and those nobody vouches for *)

ShouldBeInLimbo(view, d) == view.docs[d].data # Gone /\ d \notin view.synced
                            /\ ~view.docs[d].local

ApplyTargetChange(view, tc) ==
  IF tc = NoChange THEN view
  ELSE [view EXCEPT !.synced = (@ \cup tc.added) \ tc.removed, !.current = tc.current]

\* Limbo documents are looked at only in a current view.
UpdateLimboDocuments(view) ==
  IF ~view.current THEN view
  ELSE [view EXCEPT !.limbo = {d \in Ads : ShouldBeInLimbo(view, d)}]

SyncState(view) == IF view.limbo = {} /\ view.current THEN "Synced" ELSE "Local"

\* The view after new documents and a change of its target; a snapshot is due when
\* the documents or the sync state changed.
ApplyChanges(view, docs, tc) ==
  LET v == UpdateLimboDocuments(ApplyTargetChange([view EXCEPT !.docs = docs], tc))
  IN [v EXCEPT !.state = SyncState(v)]

WithView(s, view) ==
  LET old == s.view
      t == [s EXCEPT !.view = view]
  IN IF view.docs = old.docs /\ view.state = old.state THEN t ELSE OnViewSnapshots(t)

\* The document as the phone sees it: its pending write over the remote document.
LocalView(s, d) ==
  IF s.mutation.made /\ s.mutation.ad = d
  THEN [data |-> s.mutation.data, local |-> TRUE, committed |-> FALSE]
  ELSE [data |-> s.cache[d].data, local |-> FALSE, committed |-> s.cache[d].committed]

ComputeOneDocumentChange(s, changed) ==
  [d \in Ads |-> IF changed # {} /\ d = (CHOOSE e \in changed : TRUE)
                 THEN [data |-> LocalView(s, d).data, local |-> FALSE] ELSE s.view.docs[d]]

\* A document whose write was acknowledged keeps its place in the view, as a local
\* one, until the watch stream delivers it (ShouldWaitForSyncedDocument).
ComputeDocumentChanges(s, changed) ==
  [d \in Ads |->
     LET old == s.view.docs[d]
         new == LocalView(s, d)
         wait == old.data # Gone /\ new.data # Gone /\ old.local /\ new.committed
     IN IF d \notin changed \/ wait THEN old
        ELSE [data |-> new.data, local |-> new.local /\ new.data # Gone]]

-----------------------------------------------------------------------------
(* OnlineStateTracker *)

\* SyncEngine::HandleOnlineStateChange is the handler: views that were current are
\* not any more once the client is offline, then the listeners are told.
SetAndBroadcast(s, state) ==
  IF s.online = state THEN s
  ELSE LET t == IF s.view # NoView /\ s.view.current /\ state = "Offline"
                THEN WithView(s, ApplyChanges([s.view EXCEPT !.current = FALSE],
                                              s.view.docs, NoChange))
                ELSE s
       IN OnOnlineStateChanged([t EXCEPT !.online = state])

UpdateStateTimerLeft(s, state) == SetAndBroadcast([s EXCEPT !.failed = FALSE], state)
UpdateState(s, state) ==
  SetAndBroadcast([s EXCEPT !.timer = FALSE, !.failed = FALSE], state)

HandleWatchStreamStartUntimed(s) == IF s.failed THEN s ELSE SetAndBroadcast(s, "Unknown")
HandleWatchStreamStart(s) ==
  IF s.failed THEN s
  ELSE LET t == SetAndBroadcast(s, "Unknown")
       IN [Check(t, ~t.timer) EXCEPT !.timer = TRUE]

\* kMaxWatchStreamFailures is 1: the first failure is enough.
HandleWatchStreamFailure(s) ==
  IF s.online = "Online"
  THEN LET t == SetAndBroadcast(s, "Unknown") IN Check(t, ~t.failed /\ ~t.timer)
  ELSE SetAndBroadcast([s EXCEPT !.failed = TRUE, !.timer = FALSE], "Offline")

-----------------------------------------------------------------------------
(* WatchChangeAggregator *)

IsPendingNever(s, t) == FALSE
IsPending(s, t) == t \in DOMAIN s.agg.states /\ s.agg.states[t].pending # 0
IsActiveTarget(s, t) == t \in DOMAIN s.listen /\ ~IsPending(s, t)
TargetState(s, t) == IF t \in DOMAIN s.agg.states THEN s.agg.states[t] ELSE NewTargetState

\* SyncEngine::GetRemoteKeys.
GetRemoteKeys(s, t) ==
  IF t \in DOMAIN s.lookups THEN {d \in {s.lookups[t].ad} : s.lookups[t].received}
  ELSE IF s.view = NoView \/ t # Query THEN {} ELSE s.view.synced

SetTargetState(s, t, state) == [s EXCEPT !.agg.states = Put(@, t, state)]

RecordPendingTargetRequest(s, t) ==
  SetTargetState(s, t, [TargetState(s, t) EXCEPT !.pending = @ + 1])

AddDocumentToTarget(s, t, d, doc) ==
  IF ~IsActiveTarget(s, t) THEN s
  ELSE LET type == IF d \in GetRemoteKeys(s, t) THEN "modified" ELSE "added"
           u == SetTargetState(s, t, [TargetState(s, t) EXCEPT !.changes[d] = type])
       IN [u EXCEPT !.agg.docs = Put(@, d, doc)]

\* `doc' is the new state of the document, or NoChange when it is not known.
RemoveDocumentFromTarget(s, t, d, doc) ==
  IF ~IsActiveTarget(s, t) THEN s
  ELSE LET type == IF d \in GetRemoteKeys(s, t) THEN "removed" ELSE "none"
           u == SetTargetState(s, t, [TargetState(s, t) EXCEPT !.changes[d] = type])
       IN IF doc = NoChange THEN u ELSE [u EXCEPT !.agg.docs = Put(@, d, doc)]

HandleDocumentChange(s, t, d, doc) ==
  IF doc.data # Gone THEN AddDocumentToTarget(s, t, d, doc)
                     ELSE RemoveDocumentFromTarget(s, t, d, doc)

HandleDocumentChanges(s, t, docs) ==
  FoldSet(LAMBDA d, acc : HandleDocumentChange(acc, t, d, docs[d]), s, DOMAIN docs)

ResetTarget(s, t) ==
  SetTargetState(Check(s, t \in DOMAIN s.agg.states /\ ~IsPending(s, t)), t,
                 [NewTargetState EXCEPT
                    !.changes = [d \in Ads |-> IF d \in GetRemoteKeys(s, t) THEN "removed"
                                               ELSE "none"]])

RecordTargetResponse(s, t) ==
  SetTargetState(s, t, [TargetState(s, t) EXCEPT !.pending = @ - 1])

\* The answer to a watch request: what was pending is forgotten when no other
\* request for the target is under way.
HandleTargetAdded(s, t) ==
  LET u == RecordTargetResponse(s, t)
  IN IF IsPending(u, t) THEN u
     ELSE SetTargetState(u, t, [TargetState(u, t) EXCEPT !.changes = [d \in Ads |-> "none"]])

HandleTargetRemoved(s, t) ==
  LET u == RecordTargetResponse(s, t)
  IN IF IsPending(u, t) THEN u ELSE [u EXCEPT !.agg.states = Drop(@, t)]

HandleTargetReset(s, t) == IF IsActiveTarget(s, t) THEN ResetTarget(s, t) ELSE s

HandleTargetCurrent(s, t) ==
  IF IsActiveTarget(s, t)
  THEN SetTargetState(s, t, [TargetState(s, t) EXCEPT !.current = TRUE]) ELSE s

KeysOf(state, type) == {d \in Ads : state.changes[d] = type}

HandleExistenceFilter(s, t, count) ==
  LET state == TargetState(s, t)
      size == Cardinality(GetRemoteKeys(s, t)) + Cardinality(KeysOf(state, "added"))
              - Cardinality(KeysOf(state, "removed"))
  IN IF ~IsActiveTarget(s, t) THEN s
     ELSE IF t # Query
     THEN IF count = 0
          THEN RemoveDocumentFromTarget(s, t, s.listen[t].ad, [at |-> 0, data |-> Gone])
          ELSE Check(s, count = 1)
     ELSE IF size = count THEN s
     ELSE [ResetTarget(s, t) EXCEPT !.agg.resets = @ \cup {t}]

SynthesizeDeleteAhead(s, t, version) ==
  LET d == s.listen[t].ad
  IN IF t # Query /\ s.agg.states[t].current /\ d \notin DOMAIN s.agg.docs
     THEN RemoveDocumentFromTarget(s, t, d, [at |-> version + 1, data |-> Gone]) ELSE s
\* A lookup that is current and brought no document means there is none.
SynthesizeDelete(s, t, version) ==
  LET d == s.listen[t].ad
  IN IF t # Query /\ s.agg.states[t].current /\ d \notin DOMAIN s.agg.docs
        /\ d \notin GetRemoteKeys(s, t)
     THEN RemoveDocumentFromTarget(s, t, d, [at |-> version, data |-> Gone]) ELSE s

ActiveStates(s) == {t \in DOMAIN s.agg.states : IsActiveTarget(s, t)}

TargetChange(state) ==
  [change |-> TRUE, current |-> state.current, added |-> KeysOf(state, "added"),
   modified |-> KeysOf(state, "modified"), removed |-> KeysOf(state, "removed")]

\* CreateRemoteEvent: the event of version v, and the aggregator without it. The
\* message that carries v names no target and so touches every active one.
PrepareRemoteEvent(s, v) == FoldSet(LAMBDA t, acc : SynthesizeDelete(acc, t, v), s, ActiveStates(s))
RemoteEvent(s, v) == [version |-> v, docs |-> s.agg.docs, resets |-> s.agg.resets,
                      changes |-> [t \in ActiveStates(s) |-> TargetChange(s.agg.states[t])]]
ClearPendingChanges(s) ==
  [s EXCEPT !.agg = [states |-> [t \in DOMAIN s.agg.states |->
                       IF IsActiveTarget(s, t)
                       THEN [s.agg.states[t] EXCEPT !.changes = [d \in Ads |-> "none"]]
                       ELSE s.agg.states[t]],
                     docs |-> NoStates, resets |-> {}]]

-----------------------------------------------------------------------------
(* RemoteStore and the watch stream: what is listened to, and over what *)

IsStarted(s) == s.stream \in {"Starting", "Backoff", "Open"}
ShouldStartWatchStream(s) == s.network /\ ~IsStarted(s) /\ DOMAIN s.listen # {}

\* Stream::Write cancels the idle timer.
Write(s, request) == [s EXCEPT !.up = Append(@, request), !.idle = FALSE]

SendWatchRequest(s, t, token) ==
  Write(RecordPendingTargetRequest(s, t),
        [type |-> "watch", target |-> t, ad |-> s.listen[t].ad, token |-> token])
SendUnwatchRequest(s, t) ==
  Write(RecordPendingTargetRequest(s, t), [type |-> "unwatch", target |-> t])

StartWatchStream(s) ==
  LET t == [Check(s, ShouldStartWatchStream(s)) EXCEPT !.agg = NewAggregator,
              !.stream = IF @ = "Error" THEN "Backoff" ELSE "Starting"]
  IN HandleWatchStreamStart(t)

RemoteListen(s, t, ad, token) ==
  LET u == [s EXCEPT !.listen = Put(@, t, [ad |-> ad, token |-> token])]
  IN IF t \in DOMAIN s.listen THEN s
     ELSE IF ShouldStartWatchStream(u) THEN StartWatchStream(u)
     ELSE IF s.stream = "Open" THEN SendWatchRequest(u, t, token) ELSE u

RemoteStopListening(s, t) ==
  LET u == [Check(s, t \in DOMAIN s.listen) EXCEPT !.listen = Drop(@, t)]
      w == IF s.stream = "Open" THEN SendUnwatchRequest(u, t) ELSE u
  IN IF DOMAIN w.listen # {} THEN w
     ELSE IF s.stream = "Open" THEN [w EXCEPT !.idle = TRUE]
     ELSE IF s.network THEN UpdateState(w, "Unknown") ELSE w

\* The order of the requests, that of a hash map in the code, is fixed here.
SendWatchRequests(s, targets) ==
  FoldSet(LAMBDA t, acc : SendWatchRequest(acc, t, acc.listen[t].token), s, targets)
OnWatchStreamOpen(s) == SendWatchRequests([s EXCEPT !.stream = "Open"], DOMAIN s.listen)

\* Stream::Close ends the stream and its timers; what was under way is lost. Then
\* RemoteStore::OnWatchStreamClose.
Closed(s, state) == [s EXCEPT !.stream = state, !.idle = FALSE, !.up = <<>>, !.down = <<>>,
                              !.agg = NewAggregator]
CloseGracefully(s) ==
  IF ~IsStarted(s) THEN s
  ELSE LET t == Closed(s, "Initial")
       IN UpdateState(Check(t, ~ShouldStartWatchStream(t)), "Unknown")
CloseWithError(s) ==
  LET t == Closed(Check(s, IsStarted(s)), "Error")
  IN IF ShouldStartWatchStream(t) THEN StartWatchStream(HandleWatchStreamFailure(t))
     ELSE UpdateState(t, "Unknown")

EnableNetwork(s) ==
  LET t == [s EXCEPT !.network = TRUE]
  IN IF ShouldStartWatchStream(t) THEN StartWatchStream(t) ELSE UpdateState(t, "Unknown")

\* DisableNetworkInternal, InhibitBackoff, EnableNetwork.
RestartNetwork(s) ==
  LET t == UpdateState(CloseGracefully([s EXCEPT !.network = FALSE]), "Unknown")
      u == [Check(t, ~IsStarted(t)) EXCEPT !.stream = "Initial", !.agg = NewAggregator]
  IN EnableNetwork(u)

-----------------------------------------------------------------------------
(* SyncEngine: looking up the documents in limbo *)

\* An id no target and no message uses any more stands for the next generated one.
FreshId(s) ==
  LET used == DOMAIN s.listen \cup DOMAIN s.agg.states \cup {s.up[i].target : i \in DOMAIN s.up}
              \cup {s.down[i].target : i \in {j \in DOMAIN s.down : s.down[j].type # "snapshot"}}
  IN CHOOSE n \in 1..(Cardinality(used) + 1) :
       n \notin used /\ \A k \in 1..(n - 1) : k \in used

PumpOne(s) ==
  IF s.enqueued = <<>>
     \/ Cardinality(DOMAIN s.active) >= MaxConcurrentLimboResolutions THEN s
  ELSE LET d == Head(s.enqueued)
           t == FreshId(s)
           u == [s EXCEPT !.enqueued = Tail(@), !.active = IF d \in DOMAIN @ THEN @ ELSE Put(@, d, t),
                          !.lookups = Put(@, t, [ad |-> d, received |-> FALSE])]
       IN RemoteListen(u, t, d, 0)
PumpEnqueuedLimboResolutions(s) == FoldSet(LAMBDA i, acc : PumpOne(acc), s, DOMAIN s.enqueued)

TrackLimboChange(s, d) ==
  IF d \in DOMAIN s.active THEN s
  ELSE PumpEnqueuedLimboResolutions([s EXCEPT !.enqueued = Append(@, d)])

\* One that still waits in the queue stays there.
RemoveLimboTarget(s, d) ==
  IF d \notin DOMAIN s.active THEN s
  ELSE LET t == RemoteStopListening(s, s.active[d])
       IN PumpEnqueuedLimboResolutions(
            [t EXCEPT !.active = Drop(@, d), !.lookups = Drop(@, s.active[d])])

RemoveLimboTargets(s, ads) == FoldSet(LAMBDA d, acc : RemoveLimboTarget(acc, d), s, ads)
TrackLimboChanges(s, ads) == FoldSet(LAMBDA d, acc : TrackLimboChange(acc, d), s, ads)
UpdateTrackedLimboDocuments(s, removed, added) ==
  TrackLimboChanges(RemoveLimboTargets(s, removed), added)

\* EmitNewSnapshotsAndNotifyLocalStore, for documents that changed and the change
\* of the query's target, if any.
EmitNewSnapshots(s, changed, tc) ==
  IF s.view = NoView THEN s
  ELSE LET view == ApplyChanges(s.view, ComputeDocumentChanges(s, changed), tc)
           t == UpdateTrackedLimboDocuments(s, s.view.limbo \ view.limbo,
                                               view.limbo \ s.view.limbo)
           u == Check(t, tc = NoChange \/ tc.modified \subseteq s.view.synced \cup tc.added)
       IN WithView(u, view)

-----------------------------------------------------------------------------
(* LocalStore: the cache on disk *)

\* What an event of version v makes of the cached document. A delete without a
\* version comes from a refused lookup, and forgets the document.
Forgotten(doc) == doc.at = 0
Newer(old, doc) == doc.at > old.at \/ (doc.at = old.at /\ old.committed)
NotCached == [at |-> 0, data |-> Gone, committed |-> FALSE]
CacheDoc(old, doc) ==
  IF Forgotten(doc) THEN NotCached
  ELSE IF Newer(old, doc) THEN [at |-> doc.at, data |-> doc.data, committed |-> FALSE] ELSE old

LocalApplyRemoteEvent(s, event) ==
  LET mine == Query \in DOMAIN event.changes /\ s.view # NoView
      doc(d) == event.docs[d]
  IN [Check(s, event.version = 0 \/ event.version >= s.lastRemote) EXCEPT
        !.remoteKeys = IF mine THEN (@ \ event.changes[Query].removed) \cup event.changes[Query].added
                       ELSE @,
        !.token = IF mine THEN event.version ELSE @,
        !.cache = [d \in Ads |-> IF d \in DOMAIN event.docs THEN CacheDoc(@[d], doc(d)) ELSE @[d]],
        !.lastRemote = IF event.version = 0 THEN @ ELSE event.version]

ChangedDocs(s, event) ==
  {d \in DOMAIN event.docs : Forgotten(event.docs[d]) \/ Newer(s.cache[d], event.docs[d])}

\* What an event says of the lookups under way.
ReceivedByLookup(s, changes, t) ==
  LET tc == changes[t]
      received == s.lookups[t].received
      u == Check(s, tc.modified \cup tc.removed # {} => received)
  IN IF tc.added # {} THEN [u EXCEPT !.lookups[t].received = TRUE]
     ELSE IF tc.removed # {} /\ tc.modified = {} THEN [u EXCEPT !.lookups[t].received = FALSE]
     ELSE u

ReceivedByLookups(s, changes, targets) ==
  FoldSet(LAMBDA t, acc : ReceivedByLookup(acc, changes, t), s, targets)

ApplyRemoteEvent(s, event) ==
  LET t == ReceivedByLookups(s, event.changes, DOMAIN event.changes \cap DOMAIN s.lookups)
      tc == IF Query \in DOMAIN event.changes THEN event.changes[Query] ELSE NoChange
  IN EmitNewSnapshots(LocalApplyRemoteEvent(t, event), ChangedDocs(s, event), tc)

RemoveAndCleanupTargetOnly(s, limbo) == s
\* The query is given up: the view is gone, its lookups are stopped.
RemoveAndCleanupTarget(s, limbo) == RemoveLimboTargets(s, limbo)

HandleRejectedListen(s, t) ==
  IF t \in DOMAIN s.lookups
  THEN LET d == s.lookups[t].ad
           u == PumpEnqueuedLimboResolutions(
                  [s EXCEPT !.active = Drop(@, d), !.lookups = Drop(@, t)])
       IN ApplyRemoteEvent(u, [version |-> 0, changes |-> NoStates, resets |-> {},
                               docs |-> Put(NoStates, d, [at |-> 0, data |-> Gone])])
  ELSE RemoveAndCleanupTarget([OnError(s) EXCEPT !.view = NoView], s.view.limbo)

-----------------------------------------------------------------------------
(* RemoteStore: the messages of the backend *)

ProcessTargetError(s, t) ==
  IF t \notin DOMAIN s.listen THEN s
  ELSE HandleRejectedListen([s EXCEPT !.listen = Drop(@, t), !.agg.states = Drop(@, t)], t)

Rewatch(s, t) ==
  IF t \notin DOMAIN s.listen THEN s
  ELSE SendWatchRequest(SendUnwatchRequest([s EXCEPT !.listen[t].token = 0], t), t, 0)

RewatchAll(s, targets) == FoldSet(LAMBDA t, acc : Rewatch(acc, t), s, targets)

\* A count that did not match is remembered by target; if the target was given up
\* and asked for again before the snapshot, its removals are lost (see LosesReset).
LosesReset(s, t) == t \in DOMAIN s.listen /\ IsPending(s, t)

\* Tokens move on, targets whose count did not match are asked for again from the
\* start, and the event goes to the sync engine.
RaiseWatchSnapshot(s, version) ==
  LET t == PrepareRemoteEvent(s, version)
      event == RemoteEvent(t, version)
      u == [ClearPendingChanges(t) EXCEPT
              !.listen = [x \in DOMAIN @ |-> IF x \in DOMAIN event.changes
                                             THEN [@[x] EXCEPT !.token = version] ELSE @[x]],
              !.lostReset = @ \/ \E x \in event.resets : LosesReset(t, x)]
  IN ApplyRemoteEvent(RewatchAll(u, event.resets), event)

HandleWatchChange(s, m) ==
  CASE m.type = "added"    -> HandleTargetAdded(s, m.target)
    [] m.type = "removed"  -> HandleTargetRemoved(s, m.target)
    [] m.type = "current"  -> HandleTargetCurrent(s, m.target)
    [] m.type = "reset"    -> HandleTargetReset(s, m.target)
    [] m.type = "rejected" -> ProcessTargetError(s, m.target)
    [] m.type = "filter"   -> HandleExistenceFilter(s, m.target, m.count)
    [] m.type = "docs"     -> HandleDocumentChanges(s, m.target, m.docs)
    [] m.type = "snapshot" -> IF m.version >= s.lastRemote THEN RaiseWatchSnapshot(s, m.version) ELSE s

OnWatchStreamChange(s, m) == HandleWatchChange(UpdateState(s, "Online"), m)

\* The refused write leaves the view.
RejectBatch(s) == EmitNewSnapshots([s EXCEPT !.mutation = [made |-> FALSE]], {s.mutation.ad},
                                   NoChange)

-----------------------------------------------------------------------------
(* The worker queue: tasks of the main thread, timers, the stream *)

\* A listener of a query that is not listened to yet makes a view of the cached
\* documents and a target; one of a query that is gets the last snapshot.
NewView(s) == [current |-> FALSE, synced |-> s.remoteKeys, limbo |-> {}, state |-> "new",
               docs |-> [d \in Ads |-> [data |-> Gone, local |-> FALSE]]]
AddQueryListener(s, c) ==
  LET t == [s EXCEPT !.listeners = Append(@, c)]
      u == [t EXCEPT !.view = NewView(s)]
      w == WithView(u, ApplyChanges(u.view, ComputeDocumentChanges(u, Ads), NoChange))
  IN IF s.listeners # <<>>
     THEN IF ShouldRaiseInitialEvent(t) THEN RaiseTo(t, <<c>>) ELSE t
     ELSE RemoteListen(Check(w, s.view = NoView), Query, "all", s.token)

StopListening(s) ==
  RemoveAndCleanupTarget(RemoteStopListening([s EXCEPT !.view = NoView], Query), s.view.limbo)

RemoveQueryListener(s, c) ==
  LET t == [s EXCEPT !.listeners = Only(@, Calls \ {c}), !.raised = @ \ {c}]
  IN IF s.listeners # <<>> /\ t.listeners = <<>> THEN StopListening(t) ELSE t

WriteLocally(s, d, text) ==
  EmitNewSnapshots([s EXCEPT !.mutation = [made |-> TRUE, ad |-> d, data |-> text]], {d}, NoChange)

\* The acknowledged write becomes the remote document, unless a newer one is there.
AcknowledgeBatch(s, version) ==
  LET d == s.mutation.ad
      doc == [at |-> version, data |-> s.mutation.data, committed |-> TRUE]
  IN EmitNewSnapshots([s EXCEPT !.mutation = [made |-> FALSE],
                                !.cache[d] = IF @.at < version THEN doc ELSE @], {d}, NoChange)

\* The backend forgets a stream that is closed.
Worker(s) == /\ client' = s
             /\ backend' = IF s.stream = "Open" THEN backend
                           ELSE [backend EXCEPT !.served = NoStates, !.due = FALSE]

\* A new listener of a stream that is already started gets no timer of its own.
Reuses(s) == s.listeners = <<>> /\ IsStarted(s) /\ s.online = "Unknown" /\ ~s.timer

RunTask ==
  /\ tasks # <<>>
  /\ LET task == Head(tasks)
     IN /\ Worker(CASE task.type = "listen" -> AddQueryListener(client, task.call)
                    [] task.type = "remove" -> RemoveQueryListener(client, task.call)
                    [] task.type = "write"  -> WriteLocally(client, own.ad, own.data))
        /\ spent' = [spent EXCEPT !.reused = @ \/ (task.type = "listen" /\ Reuses(client))]
  /\ tasks' = Tail(tasks)
  /\ UNCHANGED <<asked, answer, board, own>>

\* ResumeStartWithCredentials: the call is started with a token, and counts as open
\* before the backend has said anything.
ResumeStartWithCredentials ==
  /\ client.stream = "Starting"
  /\ Worker(OnWatchStreamOpen(client))
  /\ UNCHANGED <<tasks, asked, answer, board, own, spent>>

\* Ended with an error: no token, no connection, or a connection lost.
OnStreamFinish ==
  /\ client.stream \in {"Starting", "Open"}
  /\ client.online = "Online" => MayHappen
  /\ Worker(CloseWithError(client))
  /\ spent' = [spent EXCEPT !.faults = IF client.online = "Online" THEN @ + 1 ELSE @]
  /\ UNCHANGED <<tasks, asked, answer, board, own>>

\* Ended with OK by the backend, whose status is passed on as it is: Stream::Close takes
\* it for a stop of its own, and OnWatchStreamClose asserts that the stream is not
\* needed. If it is, the app ends there.
OnStreamFinishOK ==
  /\ client.stream = "Open" /\ MayHappen
  /\ LET needed == ShouldStartWatchStream(Closed(client, "Initial"))
     IN /\ IF needed THEN client' = [client EXCEPT !.aborted = TRUE] /\ UNCHANGED backend
                     ELSE Worker(CloseGracefully(client))
        /\ spent' = [spent EXCEPT !.faults = @ + 1, !.stopped = needed]
  /\ UNCHANGED <<tasks, asked, answer, board, own>>

BackoffElapsed ==
  /\ client.stream = "Backoff"
  /\ Worker([client EXCEPT !.stream = "Starting"])
  /\ UNCHANGED <<tasks, asked, answer, board, own, spent>>

IdleTimeout ==
  /\ client.idle
  /\ Worker(CloseGracefully(client))
  /\ UNCHANGED <<tasks, asked, answer, board, own, spent>>

OnlineStateTimeout ==
  /\ client.timer
  /\ Worker(SetAndBroadcast(Check([client EXCEPT !.timer = FALSE], client.online = "Unknown"),
                            "Offline"))
  /\ UNCHANGED <<tasks, asked, answer, board, own, spent>>

\* The connectivity monitor reports a network: both streams are made anew.
NetworkChange ==
  /\ MayHappen
  /\ Worker(RestartNetwork(client))
  /\ spent' = [spent EXCEPT !.faults = @ + 1]
  /\ UNCHANGED <<tasks, asked, answer, board, own>>

OnStreamRead ==
  /\ client.down # <<>>
  /\ Worker(OnWatchStreamChange([client EXCEPT !.down = Tail(@)], Head(client.down)))
  /\ UNCHANGED <<tasks, asked, answer, board, own, spent>>

WriteAcknowledged ==
  /\ client.mutation.made /\ own.at # 0
  /\ Worker(AcknowledgeBatch(client, own.at))
  /\ own' = [own EXCEPT !.acked = TRUE]
  /\ UNCHANGED <<tasks, asked, answer, board, spent>>

\* The backend refuses the phone's write for good (HandleWriteError).
WriteRejected ==
  /\ client.mutation.made /\ own.at = 0
  /\ Worker(RejectBatch(client))
  /\ own' = [own EXCEPT !.acked = TRUE]
  /\ UNCHANGED <<tasks, asked, answer, board, spent>>

-----------------------------------------------------------------------------
(* The main thread *)

Unanswered == {c \in 1..Len(asked) : answer[c] = Waiting}
Known == IF Unanswered = {} THEN [since |-> Now, acked |-> own.acked]
         ELSE asked[CHOOSE c \in Unanswered : \A e \in Unanswered : c <= e].known

\* What the call knew is only for the properties.
GetDocuments ==
  /\ Len(asked) < MaxCalls /\ MayHappen
  /\ asked' = Append(asked, [known |-> Known, own |-> own.made])
  /\ tasks' = Append(tasks, [type |-> "listen", call |-> Len(asked) + 1])
  /\ UNCHANGED <<client, answer, board, own, backend, spent>>

\* A listener is muted once it has had an event; an error mutes nothing. The
\* listener is removed by a task of the worker queue.
Muted(c) == answer[c].kind \in {"server", "cache"}
OnEvent ==
  /\ client.mail # <<>>
  /\ client' = [client EXCEPT !.mail = Tail(@)]
  /\ LET m == Head(client.mail)
     IN IF Muted(m.call) THEN UNCHANGED <<answer, tasks>>
        ELSE IF m.error
        THEN /\ answer' = [answer EXCEPT ![m.call] = [kind |-> "error"]]
             /\ UNCHANGED tasks
        ELSE /\ answer' = [answer EXCEPT ![m.call] =
                             [kind |-> IF m.fromCache THEN "cache" ELSE "server",
                              docs |-> m.docs, sure |-> ~client.lostReset]]
             /\ tasks' = Append(tasks, [type |-> "remove", call |-> m.call])
  /\ UNCHANGED <<asked, board, own, backend, spent>>

\* The user publishes or deletes an ad; the client is told in its turn.
WriteAd ==
  /\ ~own.made /\ MayHappen
  /\ \E d \in Ads, text \in {Mine, Gone} :
       own' = [made |-> TRUE, at |-> 0, acked |-> FALSE, ad |-> d, data |-> text]
  /\ tasks' = Append(tasks, [type |-> "write"])
  /\ UNCHANGED <<client, asked, answer, board, backend, spent>>

-----------------------------------------------------------------------------
(* The backend: the collection, and the targets of the stream *)

Changed(d, text) == Append(board, [board[Now] EXCEPT ![d] = [at |-> Now + 1, data |-> text]])

OtherWrites ==
  /\ Now < MaxVersion /\ MayHappen
  /\ \E d \in Ads, text \in {Now + 1, Gone} :
       /\ ~(text = Gone /\ board[Now][d].data = Gone)
       /\ board' = Changed(d, text)
  /\ UNCHANGED <<client, tasks, asked, answer, own, backend, spent>>

CommitOwn ==
  /\ client.mutation.made /\ own.at = 0 /\ Now < MaxVersion
  /\ board' = Changed(own.ad, own.data)
  /\ own' = [own EXCEPT !.at = Now + 1]
  /\ UNCHANGED <<client, tasks, asked, answer, backend, spent>>

Scope(ad) == IF ad = "all" THEN Ads ELSE {ad}
Live(d, v) == v # 0 /\ board[v][d].data # Gone
Added(ad, v) == {d \in Scope(ad) : Live(d, Now) /\ board[Now][d].at > v}
Removed(ad, v) == {d \in Scope(ad) : ~Live(d, Now) /\ Live(d, v)}
Docs(t, ds) == IF ds = {} THEN <<>>
               ELSE <<[type |-> "docs", target |-> t, docs |-> [d \in ds |-> board[Now][d]]]>>
Say(type, t) == <<[type |-> type, target |-> t]>>
Filter(t, ad) == <<[type |-> "filter", target |-> t,
                    count |-> Cardinality({d \in Scope(ad) : Live(d, Now)})]>>

\* What a watch request may be answered with: the changes since its token, and the
\* deletions among them either one by one or as a count, before or after the
\* target is said to be current; or, for the query, a reset and all documents, as for
\* a token the backend has no use for (to a lookup, which has one document, the model's
\* backend has no reason to send one). A lookup of a document that is gone may be
\* refused.
\* Documents that reach the client one after the other with nothing in between that
\* looks at them are one message.
WatchAnswers(m) ==
  LET added == Docs(m.target, Added(m.ad, m.token))
      all == Docs(m.target, Added(m.ad, m.token) \cup Removed(m.ad, m.token))
      current == Say("current", m.target)
      filter == Filter(m.target, m.ad)
  IN IF backend.refuses THEN {Say("rejected", m.target)}
     ELSE {Say("added", m.target) \o all \o current}
          \cup (IF m.token = 0 THEN {}
                ELSE {Say("added", m.target) \o added \o filter \o current,
                      Say("added", m.target) \o added \o current \o filter})
          \cup (IF m.token = 0 \/ m.ad # "all" THEN {}
                ELSE {Say("added", m.target) \o Say("reset", m.target)
                        \o Docs(m.target, Added(m.ad, 0)) \o current})
          \cup (IF m.ad # "all" /\ ~Live(m.ad, Now) THEN {Say("rejected", m.target)} ELSE {})

\* A target started over is one of the faults.
StartsOver(reply) == \E i \in DOMAIN reply : reply[i].type = "reset"

Serve ==
  /\ client.up # <<>>
  /\ LET m == Head(client.up)
     IN \E reply \in IF m.type = "watch" THEN WatchAnswers(m) ELSE {Say("removed", m.target)} :
          /\ StartsOver(reply) => MayHappen
          /\ spent' = [spent EXCEPT !.faults = IF StartsOver(reply) THEN @ + 1 ELSE @]
          /\ client' = [client EXCEPT !.up = Tail(@), !.down = @ \o reply]
          /\ backend' = IF m.type = "watch" /\ reply # Say("rejected", m.target)
                        THEN [backend EXCEPT !.due = TRUE,
                                !.served = Put(@, m.target, [ad |-> m.ad, at |-> Now])]
                        ELSE [backend EXCEPT !.served = Drop(@, m.target)]
  /\ UNCHANGED <<tasks, asked, answer, board, own>>

Late == {t \in DOMAIN backend.served : backend.served[t].at < Now}
PushDue == DOMAIN backend.served # {} /\ (backend.due \/ Late # {})

News(t) == LET b == backend.served[t] IN Docs(t, Added(b.ad, b.at) \cup Removed(b.ad, b.at))
AllNews(targets) == FoldSet(LAMBDA t, acc : acc \o News(t), <<>>, targets)

\* Every served target is brought to this version, which the snapshot names.
Push ==
  /\ PushDue
  /\ client' = [client EXCEPT !.down = @ \o AllNews(Late)
                                         \o <<[type |-> "snapshot", version |-> Now]>>]
  /\ backend' = [backend EXCEPT !.due = FALSE,
                   !.served = [t \in DOMAIN @ |-> [@[t] EXCEPT !.at = Now]]]
  /\ UNCHANGED <<tasks, asked, answer, board, own, spent>>

-----------------------------------------------------------------------------

NoMutation == [made |-> FALSE]
NewClient ==
  [stream |-> "Initial", network |-> TRUE, idle |-> FALSE, up |-> <<>>, down |-> <<>>,
   agg |-> NewAggregator, listen |-> NoStates,
   online |-> "Unknown", failed |-> FALSE, timer |-> FALSE,
   view |-> NoView, enqueued |-> <<>>, active |-> NoStates, lookups |-> NoStates,
   cache |-> [d \in Ads |-> NotCached], remoteKeys |-> {}, token |-> 0, lastRemote |-> 0,
   mutation |-> NoMutation, listeners |-> <<>>, raised |-> {}, mail |-> <<>>, aborted |-> FALSE,
   lostReset |-> FALSE]

\* What an earlier run of the app left on disk: the answer of version 1.
Relaunched(s) ==
  [s EXCEPT !.cache = [d \in Ads |-> [at |-> board[1][d].at, data |-> board[1][d].data,
                                      committed |-> FALSE]],
            !.remoteKeys = {d \in Ads : board[1][d].data # Gone},
            !.token = 1, !.lastRemote = 1]

Init ==
  /\ tasks = <<>> /\ asked = <<>>
  /\ answer = [c \in Calls |-> Waiting]
  /\ \E present \in SUBSET Ads :
       board = <<[d \in Ads |-> IF d \in present THEN [at |-> 1, data |-> 1]
                                                 ELSE [at |-> 0, data |-> Gone]]>>
  /\ client \in {NewClient, Relaunched(NewClient)}
  /\ own = NoWrite
  /\ \E refuses \in BOOLEAN :
       backend = [served |-> NoStates, due |-> FALSE, refuses |-> refuses]
  /\ spent = [faults |-> 0, reused |-> FALSE, stopped |-> FALSE]

\* A failed assertion ends the app, and this run of it with it.
Next == /\ ~client.aborted
        /\ \/ GetDocuments \/ OnEvent \/ WriteAd
           \/ RunTask \/ ResumeStartWithCredentials \/ OnStreamFinish \/ OnStreamFinishOK
           \/ BackoffElapsed \/ IdleTimeout \/ OnlineStateTimeout \/ NetworkChange
           \/ OnStreamRead \/ WriteAcknowledged \/ WriteRejected
           \/ OtherWrites \/ CommitOwn \/ Serve \/ Push

Spec == Init /\ [][Next]_vars

\* The queues of the phone are served and its timer fires. A backend that has
\* answered on the stream of the moment goes on answering; one that has not is
\* not obliged to anything, nor need a stream ever get connected. Each conjunct is the
\* WF of an action, told by what the action alone does, as ENABLED would have TLC carry
\* out every task again: only RunTask, OnEvent and OnStreamRead make their queue shorter
\* (the last or a stream that closes, which leaves it empty), OnlineStateTimeout ends the
\* timer that lets it happen, and only Serve and Push send anything down the stream.
MayAnswer == client.online = "Online" /\ (client.up # <<>> \/ PushDue)
Answering == client.online = "Online" /\ Len(client'.down) > Len(client.down)
FairSpec ==
  /\ Spec
  /\ []<>(client.aborted \/ tasks = <<>>) \/ []<><<Len(tasks') < Len(tasks)>>_tasks
  /\ []<>(client.aborted \/ client.mail = <<>>)
       \/ []<><<Len(client'.mail) < Len(client.mail)>>_client
  /\ []<>(client.aborted \/ ~client.timer)
  /\ []<>(client.aborted \/ client.down = <<>>)
       \/ []<><<Len(client'.down) < Len(client.down)>>_client
  /\ []<>(client.aborted \/ ~MayAnswer) \/ []<><<Answering>>_client

-----------------------------------------------------------------------------
(* Properties *)

\* The state of the client is of the shape its classes give it; versions and tokens
\* are those of the collection, targets and lookups name ads that exist.
Doc == [at : 0..Now, data : 0..Mine]
Message == [type : {"added", "removed", "current", "rejected", "reset"}, target : Nat]
           \cup [type : {"filter"}, target : Nat, count : 0..Cardinality(Ads)]
           \cup [type : {"snapshot"}, version : 1..Now]
TypeOK ==
  /\ client.stream \in {"Initial", "Starting", "Open", "Error", "Backoff"}
  /\ client.online \in {"Unknown", "Online", "Offline"}
  /\ {client.network, client.idle, client.failed, client.timer} \subseteq BOOLEAN
  /\ \A t \in DOMAIN client.listen : /\ client.listen[t].ad \in Ads \cup {"all"}
                                     /\ client.listen[t].token \in 0..Now
  /\ \A t \in DOMAIN client.lookups : client.lookups[t].ad \in Ads
  /\ \A t \in DOMAIN client.agg.states : client.agg.states[t].pending \in Int
  /\ \A d \in DOMAIN client.agg.docs : client.agg.docs[d] \in Doc
  /\ \A d \in Ads : [at |-> client.cache[d].at, data |-> client.cache[d].data] \in Doc
  /\ client.token \in 0..Now /\ client.lastRemote \in 0..Now
  /\ client.remoteKeys \subseteq Ads
  /\ client.view = NoView \/ (client.view.limbo \subseteq Ads /\ client.view.synced \subseteq Ads)
  /\ \A i \in DOMAIN client.down : client.down[i].type = "docs" \/ client.down[i] \in Message
  /\ Range(client.listeners) \cup client.raised \subseteq Calls
  /\ \A c \in Calls : answer[c].kind \in {"waiting", "error", "server", "cache"}

\* The one HARD_ASSERT of the client that can fail is that of OnWatchStreamClose
\* (remote_store.cc:236), when the backend ends with OK a stream that is needed. Else,
\* whatever the backend, the network and the user do and in whatever order, no timer
\* is armed twice, no stream the client stops itself is needed, no target is given up
\* or reset that is not active, no lookup has news before it has a document, and no
\* snapshot takes the cache back in time. A failed assertion ends the app.
NoHardAssertFails == client.aborted => spent.stopped

\* What getDocuments tells (query_core.cc, GetDocuments) is what the abstract
\* specification promises: an answer that is not from cache is the collection as it
\* was at one moment since the call, with the write the phone had entered by then in
\* its place unless it was refused; an answer from cache has only what each ad did say
\* once. After a reset was lost (see LosesReset) an answer promises no more than one
\* from cache, although FIRSnapshotMetadata.h calls it up to date.
Promised(a) == IF a.kind \notin {"server", "cache"} THEN a
               ELSE [kind |-> IF a.sure THEN a.kind ELSE "cache", docs |-> a.docs]
Leitura == INSTANCE Leitura WITH board <- [v \in 1..Now |-> [d \in Ads |-> board[v][d].data]],
                                 answer <- [c \in Calls |-> Promised(answer[c])]
ImplementsLeitura == Leitura!Spec

\* FIRSnapshotMetadata.h:37 and 43: an answer that is not from cache is `guaranteed
\* up-to-date server data'. For one call of getDocuments that is the collection at one
\* moment since the call, but for what the phone itself writes to one of the ads. Not
\* so once a reset was lost.
IsUpToDate(c, v) == \A d \in Ads : \/ answer[c].docs[d] = board[v][d].data
                                   \/ own.made /\ own.ad = d
GuaranteedUpToDate == \A c \in Calls : answer[c].kind = "server" =>
                        \E v \in asked[c].known.since .. Now : IsUpToDate(c, v)

\* Calls are answered in the order they were made, although listeners come and go
\* and share views: the list of a screen is its last answer.
InOrder == \A c, e \in Calls : c < e /\ answer[e] # Waiting => answer[c] # Waiting

\* A listener without its first event is never left to a silent connection: while
\* nothing is known of the backend the ten-second timer of online_state_tracker.cc
\* runs. Not so for the listener of a reused stream (see Reuses).
Waits(c) == c \in Range(client.listeners) /\ c \notin client.raised
Watched == (\E c \in Calls : Waits(c)) /\ client.online = "Unknown" /\ ~spent.reused
           => client.timer

\* The remote store listens to the query while it has listeners, and to a document
\* only while the view has it in limbo: lookups are neither leaked when listeners
\* leave, streams restart or targets are rejected, nor started for nobody. It holds
\* where there is room for a lookup of every document: with more documents in limbo
\* than MaxConcurrentLimboResolutions a key waits in `enqueued', where nothing takes it
\* out when the document leaves limbo (RemoveLimboTarget), and is looked up for nobody.
LookupsInUse ==
  /\ DOMAIN client.listen = DOMAIN client.lookups \cup {t \in {Query} : client.listeners # <<>>}
  /\ {client.lookups[t].ad : t \in DOMAIN client.lookups} \subseteq
       (IF client.view = NoView THEN {} ELSE client.view.limbo)

\* Every call is answered: by the backend, from the cache once it is known to be
\* out of reach, or with its error. Lists stop loading only then (Feed, completion
\* of getOfertas). Again not so after a stream was reused, or when the app has ended.
Answered == []<>(Unanswered = {} \/ spent.reused \/ client.aborted)
=============================================================================
