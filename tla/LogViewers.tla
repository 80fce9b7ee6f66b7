----------------------------- MODULE LogViewers ------------------------------
(***************************************************************************)
(* The log viewers of the front end.  Elm keeps one viewer for each job    *)
(* that the user has opened (CommitJobs, LogViewer); JavaScript keeps one  *)
(* event source for each of them (SSEConnectionManager), and passes what   *)
(* it receives back through the port sseMessages, to which every open      *)
(* viewer subscribes.  Elm, the manager's timers and the event sources run *)
(* on one thread: an action is one callback.                               *)
(*                                                                         *)
(* A state object of the manager is captured by the callbacks made for it  *)
(* and outlives its place in connectionStates: objects are numbered.       *)
(***************************************************************************)
EXTENDS Naturals, Sequences, FiniteSets, SequencesExt

CONSTANTS
  Jobs,
  Length,        (* how many lines each job's log has *)
  DebugLines,    (* the lines of level DEBUG or TRACE *)
  Hits,          (* the lines that the search term is found in *)
  Filtered,      (* bound: the viewers whose filters the user changes *)
  MaxConnects,   (* bound: calls of connect *)
  MaxErrors      (* bound: sources that fail *)

ASSUME LogViewersAssumption ==
  /\ Length \in [Jobs -> Nat] /\ Filtered \subseteq Jobs
  /\ {MaxConnects, MaxErrors} \subseteq Nat

VARIABLES
  logViewers,         (* Elm: the open viewers by job *)
  connectionStates,   (* the state object of each id, or None *)
  connections,        (* the object whose event source is registered *)
  objects,            (* every state object there has been *)
  errors

vars == <<logViewers, connectionStates, connections, objects, errors>>

None == 0
Objects == DOMAIN objects
LogLines == {line \in Jobs \X Nat : line[2] \in 1 .. Length[line[1]]}

Shut == [logs |-> <<>>, filteredLogs |-> <<>>, open |-> FALSE,
         showDebugLogs |-> FALSE, search |-> FALSE]
Viewing == {j \in Jobs : logViewers[j].open}

(* What this object's event source is doing.                               *)
Live == {"connecting", "open"}
Sources == Live \cup {"none", "closed"}

Viewers ==
  [logs : Seq(LogLines), filteredLogs : Seq(LogLines), open : BOOLEAN,
   showDebugLogs : BOOLEAN, search : BOOLEAN]

StateObjects ==
  [id : Jobs, isConnecting : BOOLEAN, deferred : BOOLEAN, retryTimeout : BOOLEAN,
   batchTimeout : BOOLEAN, messageBuffer : Seq(LogLines), source : Sources, got : Nat]

(* What is registered for an id was made for it, and is no closed source.  *)
TypeOK ==
  /\ logViewers \in [Jobs -> Viewers]
  /\ objects \in Seq(StateObjects) /\ Len(objects) <= MaxConnects
  /\ \A o \in Objects : objects[o].got <= Length[objects[o].id]
  /\ {connectionStates, connections} \subseteq [Jobs -> {None} \cup Objects]
  /\ \A j \in Jobs :
       /\ connectionStates[j] # None => objects[connectionStates[j]].id = j
       /\ connections[j] # None =>
            objects[connections[j]].id = j /\ objects[connections[j]].source \in Live
  /\ errors \in 0 .. MaxErrors

Init ==
  /\ logViewers = [j \in Jobs |-> Shut]
  /\ connectionStates = [j \in Jobs |-> None]
  /\ connections = [j \in Jobs |-> None]
  /\ objects = <<>>
  /\ errors = 0

(***************************************************************************)
(* LogViewer.update.                                                       *)
(***************************************************************************)

Shown(viewer, line) ==
  /\ viewer.showDebugLogs \/ line \notin DebugLines
  /\ viewer.search => line \in Hits

(* List.filter: what it keeps of the first n lines, for each n.            *)
Filter(viewer, lines) ==
  LET kept[n \in 0 .. Len(lines)] ==
        IF n = 0 THEN <<>>
        ELSE IF Shown(viewer, lines[n]) THEN Append(kept[n - 1], lines[n])
        ELSE kept[n - 1] IN
  kept[Len(lines)]

applyFilters(viewer) == [viewer EXCEPT !.filteredLogs = Filter(viewer, viewer.logs)]

(* SSEMessages: without a filter the filtered lines are all the lines.     *)
Appended(viewer, batch) ==
  LET newLogs == viewer.logs \o batch IN
  [viewer EXCEPT
     !.logs = newLogs,
     !.filteredLogs = IF viewer.showDebugLogs /\ ~viewer.search THEN newLogs
                      ELSE @ \o Filter(viewer, batch)]

(* The port sseMessages: one batch, whatever connection it is from.        *)
SseMessages(viewers, batch) ==
  [j \in Jobs |-> IF viewers[j].open THEN Appended(viewers[j], batch) ELSE viewers[j]]

jsVars == <<connectionStates, connections, objects, errors>>

SetSearch(j) ==
  /\ logViewers[j].open
  /\ logViewers' = [logViewers EXCEPT ![j] = applyFilters([logViewers[j] EXCEPT !.search = ~@])]
  /\ UNCHANGED jsVars

(* Mutant of ToggleDebugLogs: filteredLogs is left as it is.               *)
ToggleDebugOnly(j) ==
  /\ logViewers[j].open
  /\ logViewers' = [logViewers EXCEPT ![j].showDebugLogs = ~@]
  /\ UNCHANGED jsVars

ToggleDebugLogs(j) ==
  /\ logViewers[j].open
  /\ logViewers' = [logViewers EXCEPT
                      ![j] = applyFilters([logViewers[j] EXCEPT !.showDebugLogs = ~@])]
  /\ UNCHANGED jsVars

(***************************************************************************)
(* SSEConnectionManager: connect and disconnect.                           *)
(***************************************************************************)

NewObject(id) ==
  [id |-> id, isConnecting |-> TRUE, deferred |-> TRUE, retryTimeout |-> FALSE,
   batchTimeout |-> FALSE, messageBuffer |-> <<>>, source |-> "none",
   got |-> 0]

(* disconnect closes the registered source, and stops the timers of the    *)
(* object in connectionStates.  A deferred creation is not cancelled: it   *)
(* finds isConnecting false.                                               *)
Disconnected(id) ==
  [o \in Objects |->
     LET closed == [objects[o] EXCEPT
                      !.source = IF o = connections[id] THEN "closed" ELSE @] IN
     IF o # connectionStates[id] THEN closed
     ELSE [closed EXCEPT !.isConnecting = FALSE, !.retryTimeout = FALSE,
                         !.batchTimeout = FALSE, !.messageBuffer = <<>>]]

(* What disconnect flushes to the port.                                    *)
Flushed(id) ==
  IF connectionStates[id] = None THEN <<>>
  ELSE objects[connectionStates[id]].messageBuffer

(* ToggleLogViewerWithData of a viewer that is not open: init, and connect *)
(* for its id.  There may be a connection from a page that was left; then  *)
(* its last lines are flushed before or after the new viewer subscribes.   *)
OpenViewer(j) ==
  LET opened == [logViewers EXCEPT ![j] = [Shut EXCEPT !.open = TRUE]]
      o == Len(objects) + 1 IN
  /\ ~logViewers[j].open /\ Len(objects) < MaxConnects
  /\ \/ logViewers' = SseMessages(opened, Flushed(j))
     \/ logViewers' = [SseMessages(logViewers, Flushed(j)) EXCEPT ![j] = opened[j]]
  /\ objects' = Append(Disconnected(j), NewObject(j))
  /\ connectionStates' = [connectionStates EXCEPT ![j] = o]
  /\ connections' = [connections EXCEPT ![j] = None]
  /\ UNCHANGED errors

(* ToggleLogViewerWithData of an open viewer.  The flushed lines go to the *)
(* other viewers only: this one is no longer in logViewers.                *)
CloseViewer(j) ==
  /\ logViewers[j].open
  /\ logViewers' = SseMessages([logViewers EXCEPT ![j] = Shut], Flushed(j))
  /\ objects' = Disconnected(j)
  /\ connectionStates' = [connectionStates EXCEPT ![j] = None]
  /\ connections' = [connections EXCEPT ![j] = None]
  /\ UNCHANGED errors

(* Elm drops the page's model; nobody calls disconnectSSE.                 *)
LeavePage ==
  /\ Viewing # {} /\ logViewers' = [j \in Jobs |-> Shut]
  /\ UNCHANGED jsVars

(***************************************************************************)
(* Timers and events of an object.                                         *)
(***************************************************************************)

Update(o, changed) == objects' = [objects EXCEPT ![o] = changed]

(* Mutant of CreateSource: the state is not checked again.                 *)
CreateAlways(o) ==
  LET state == objects[o] IN
  /\ state.deferred
  /\ Update(o, [state EXCEPT !.deferred = FALSE, !.source = "connecting", !.got = 0])
  /\ connections' = [connections EXCEPT ![state.id] = o]
  /\ UNCHANGED <<logViewers, connectionStates, errors>>

(* The deferred part of _createConnection.  A stream begins at line 1.     *)
CreateSource(o) ==
  LET state == objects[o] IN
  /\ state.deferred
  /\ IF state.isConnecting
     THEN /\ Update(o, [state EXCEPT !.deferred = FALSE, !.source = "connecting",
                                     !.got = 0])
          /\ connections' = [connections EXCEPT ![state.id] = o]
     ELSE /\ Update(o, [state EXCEPT !.deferred = FALSE])
          /\ UNCHANGED connections
  /\ UNCHANGED <<logViewers, connectionStates, errors>>

(* The EventSource cannot be constructed: the state is dropped.            *)
CreateFails(o) ==
  LET state == objects[o] IN
  /\ state.deferred /\ state.isConnecting
  /\ errors < MaxErrors /\ errors' = errors + 1
  /\ Update(o, [state EXCEPT !.deferred = FALSE])
  /\ connectionStates' = [connectionStates EXCEPT ![state.id] = None]
  /\ UNCHANGED <<logViewers, connections>>

OnOpen(o) ==
  /\ objects[o].source = "connecting"
  /\ Update(o, [objects[o] EXCEPT !.source = "open"])
  /\ UNCHANGED <<logViewers, connectionStates, connections, errors>>

(* onmessage.  The stream is a LogFeed; the lines it repeats are left out, *)
(* a viewer appends them like any other.  The batch timer starts anew.     *)
OnMessage(o) ==
  LET state == objects[o] IN
  /\ state.source = "open" /\ state.got < Length[state.id]
  /\ Update(o, [state EXCEPT !.got = @ + 1, !.batchTimeout = TRUE,
                             !.messageBuffer = Append(@, <<state.id, state.got + 1>>)])
  /\ UNCHANGED <<logViewers, connectionStates, connections, errors>>

SendBatch(o) ==
  LET state == objects[o] IN
  /\ state.batchTimeout
  /\ logViewers' = SseMessages(logViewers, state.messageBuffer)
  /\ Update(o, [state EXCEPT !.batchTimeout = FALSE, !.messageBuffer = <<>>])
  /\ UNCHANGED <<connectionStates, connections, errors>>

(* Mutant of OnError: the source is left to the browser.                   *)
OnErrorGivesUp(o) ==
  LET state == objects[o] IN
  /\ state.source \in Live
  /\ errors < MaxErrors /\ errors' = errors + 1
  /\ Update(o, [state EXCEPT !.source = "closed"])
  /\ connections' = [connections EXCEPT ![state.id] = None]
  /\ UNCHANGED <<logViewers, connectionStates>>

(* Mutant of OnError: the closed source stays registered.                  *)
OnErrorKeepsEntry(o) ==
  LET state == objects[o] IN
  /\ state.source \in Live
  /\ errors < MaxErrors /\ errors' = errors + 1
  /\ Update(o, [state EXCEPT !.source = "closed", !.retryTimeout = TRUE])
  /\ UNCHANGED <<logViewers, connectionStates, connections>>

(* onerror: what is registered is closed, and a retry scheduled; lines in  *)
(* the buffer stay there.                                                  *)
OnError(o) ==
  LET state == objects[o]
      connection == connections[state.id] IN
  /\ state.source \in Live
  /\ errors < MaxErrors /\ errors' = errors + 1
  /\ IF state.isConnecting
     THEN /\ objects' = [p \in Objects |->
                [objects[p] EXCEPT !.source = IF p = connection THEN "closed" ELSE @,
                                   !.retryTimeout = @ \/ p = o]]
          /\ connections' = [connections EXCEPT ![state.id] = None]
     ELSE UNCHANGED <<objects, connections>>
  /\ UNCHANGED <<logViewers, connectionStates>>

(* The retry timer: _createConnection for the id, with the object that is  *)
(* in connectionStates now.                                                *)
Retry(o) ==
  LET current == connectionStates[objects[o].id] IN
  /\ objects[o].retryTimeout
  /\ objects' = [p \in Objects |->
       [objects[p] EXCEPT !.retryTimeout = @ /\ p # o,
                          !.deferred = @ \/ (p = current /\ objects[p].isConnecting)]]
  /\ UNCHANGED <<logViewers, connectionStates, connections, errors>>

Next ==
  \/ \E j \in Jobs : OpenViewer(j) \/ CloseViewer(j)
  \/ \E j \in Filtered : SetSearch(j) \/ ToggleDebugLogs(j)
  \/ LeavePage
  \/ \E o \in Objects :
       \/ CreateSource(o) \/ CreateFails(o) \/ Retry(o)
       \/ OnOpen(o) \/ OnMessage(o) \/ SendBatch(o) \/ OnError(o)

Spec == Init /\ [][Next]_vars

(* Timers fire, and a source connects and receives the lines there are.    *)
FairSpec ==
  Spec /\ \A o \in 1 .. MaxConnects :
            /\ WF_vars(o \in Objects /\ CreateSource(o))
            /\ WF_vars(o \in Objects /\ Retry(o))
            /\ WF_vars(o \in Objects /\ OnOpen(o))
            /\ WF_vars(o \in Objects /\ OnMessage(o))
            /\ WF_vars(o \in Objects /\ SendBatch(o))

(***************************************************************************)
(* Properties.                                                             *)
(***************************************************************************)

(* The lines on the screen, kept up to date batch by batch, are what the   *)
(* filters in force would select of all the lines received                 *)
(* (LogViewer.elm:214-228): every change of a filter selects anew.         *)
FilteredIsFilter ==
  \A j \in Jobs :
    logViewers[j].filteredLogs = Filter(logViewers[j], logViewers[j].logs)

(* An id has one connection, however its viewer is closed and opened while *)
(* creations, retries and batches are pending (interop.ts:87-94, 133-205). *)
(* Its current state is on its way in exactly one way: its source lives,   *)
(* its creation is pending or a retry is; a second way would be a second   *)
(* source.  An object that is no longer current has no live source, which  *)
(* nobody could close, and no retry; its creation and its lines were       *)
(* stopped with it, unless it was dropped because no source could be       *)
(* constructed: then isConnecting stays, and lines that it still has from  *)
(* an earlier source are sent.                                             *)
Ways(o) == {way \in {"source", "creation", "retry"} :
  \/ way = "source" /\ objects[o].source \in Live
  \/ way = "creation" /\ objects[o].deferred
  \/ way = "retry" /\ objects[o].retryTimeout}

OneConnection ==
  \A o \in Objects :
    LET object == objects[o] IN
    /\ object.source \in Live => connections[object.id] = o
    /\ IF connectionStates[object.id] = o
       THEN object.isConnecting /\ Cardinality(Ways(o)) = 1
       ELSE /\ Ways(o) \subseteq {"creation"}
            /\ IF object.isConnecting THEN ~object.deferred
               ELSE object.messageBuffer = <<>> /\ ~object.batchTimeout

(* A viewer that stays open receives every line of its job's log, sources  *)
(* that fail notwithstanding, unless its source cannot be constructed.     *)
OwnLinesArrive ==
  \A j \in Jobs :
    \A n \in 1 .. Length[j] :
      logViewers[j].open ~>
        \/ ~logViewers[j].open \/ connectionStates[j] = None
        \/ <<j, n>> \in ToSet(logViewers[j].logs)

==============================================================================
