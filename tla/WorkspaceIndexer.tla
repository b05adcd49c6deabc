-------------------------- MODULE WorkspaceIndexer --------------------------
(***************************************************************************)
(* The index of the VS Code extension (workspaceIndexer.ts, cacheManager.ts*)
(* and their use in extension.ts).  One event loop runs it; whatever comes *)
(* after an await is a step of its own, and what is in flight between two  *)
(* awaits is in jobs, scan and saves.  Files change under it at any time.  *)
(*                                                                         *)
(* A file's text is its version, which is also its hash.  Every text of a  *)
(* file defines the file's own functions and names, in a vtable, a         *)
(* function of the file Implements[f].  The vtables are of different API   *)
(* types, each declared in a header that does not change: so resolving     *)
(* never finds the type unknown, nor the assignment of another file.  How  *)
(* often a record is listed, the maps that are overwritten by name, and    *)
(* the stamps of call sites are left out, and the command is used again    *)
(* only when the last pass is over.                                        *)
(***************************************************************************)
EXTENDS Integers, SequencesExt

CONSTANTS
  Files, Texts,
  Implements,     \* Implements[f]: where the function f's vtable names is defined
  Positional,     \* the files whose vtable is initialised by position
  Absent,         \* the text of a file that is not there, the hash of an unknown one
  NoCache,        \* no cache file, or none that can be parsed
  MaxActs,        \* bound: changes of files, reads that fail, uses of the command
  MaxInFlight     \* bound: reindexFile calls, and saves, in flight at a time

VARIABLES
  disk,       \* disk[f]: the text of f
  acts,       \* number of those so far
  misread,    \* history: files a read of which has failed since they last changed
  phase,      \* of the extension: "off", "activating", "on" (watching files)
  events,     \* events[f]: what the watcher has to report of f
  index,      \* the index and fileHashes, what indexToCache writes and cacheToIndex reads
  jobs,       \* reindexFile calls whose file is being read
  scan,       \* the loop of fullIndex or loadFromCache, if one runs
  timer,      \* scheduleSave's timer is pending
  saves,      \* saveToCache calls in flight
  cacheFile   \* navigation-cache.json

indexerVars == <<disk, acts, misread, phase, events, index, jobs, scan, timer, saves, cacheFile>>

Unread == "unread"
NoScan == [kind |-> "none"]
Empty  == [fileHashes          |-> [f \in Files |-> Absent],
           functionDefinitions |-> {},
           vtableAssignments   |-> {}]

IndexerInit ==
  /\ disk \in [Files -> Texts]
  /\ acts = 0
  /\ misread = {}
  /\ phase = "off"
  /\ events = [f \in Files |-> "none"]
  /\ index = Empty
  /\ jobs = << >> /\ saves = << >>
  /\ scan = NoScan
  /\ timer = FALSE
  /\ cacheFile = NoCache

-----------------------------------------------------------------------------
(* Mutant: it goes with the file that makes it.                            *)
removeFileRecordsOfMaker(idx, f) ==
  [idx EXCEPT !.functionDefinitions = { d \in @ : d.file # f },
              !.vtableAssignments   = { l \in @ : l.assignmentFile # f }]

(* removeFileRecords: a vtable assignment goes with the file its function  *)
(* is defined in, not with the file that makes it.                         *)
removeFileRecords(idx, f) ==
  [idx EXCEPT !.functionDefinitions = { d \in @ : d.file # f },
              !.vtableAssignments   = { l \in @ : l.file # f }]

Forgotten(idx, f) == [removeFileRecords(idx, f) EXCEPT !.fileHashes[f] = Absent]

(* A vtable assignment is recorded at the definition of its function, or   *)
(* at itself as long as no definition is indexed.                          *)
resolveDefinitionLocation(idx, f) ==
  [file |-> IF \E d \in idx.functionDefinitions : d.file = Implements[f] THEN Implements[f] ELSE f,
   assignmentFile |-> f]

(* The assignments of vtables initialised by position wait for the end of  *)
(* the pass.                                                               *)
mergeInto(idx, f, text) ==
  [fileHashes          |-> [idx.fileHashes EXCEPT ![f] = text],
   functionDefinitions |-> idx.functionDefinitions \cup {[file |-> f, text |-> text]},
   vtableAssignments   |-> idx.vtableAssignments \cup
     (IF f \in Positional THEN {} ELSE {resolveDefinitionLocation(idx, f)})]

resolveDeferred(idx, deferred) ==
  [idx EXCEPT !.vtableAssignments = @ \cup { resolveDefinitionLocation(idx, f) : f \in deferred }]

(* indexFile after its await: nothing when the file could not be read.     *)
indexFile(idx, f, text) == IF text = Absent THEN idx ELSE mergeInto(idx, f, text)

(* saveToCache up to its await: the snapshot.  All saves write to the same *)
(* temporary file, so two in flight spoil each other.                      *)
Saving(idx) ==
  Append([i \in DOMAIN saves |-> [saves[i] EXCEPT !.alone = FALSE]],
         [snapshot |-> idx, alone |-> saves = << >>])

(* saveToCache after its awaits: the temporary file is renamed, or could   *)
(* not be written or found.                                                *)
Save(i) ==
  /\ cacheFile' \in {saves[i].snapshot, cacheFile} \cup (IF saves[i].alone THEN {} ELSE {NoCache})
  /\ saves' = RemoveAt(saves, i)
  /\ UNCHANGED <<disk, acts, misread, phase, events, index, jobs, scan, timer>>

-----------------------------------------------------------------------------
scanFiles == { f \in Files : disk[f] # Absent }

Scanning(kind) ==
  [kind |-> kind, todo |-> scanFiles, at |-> Absent, text |-> Unread, deferred |-> {}, changed |-> FALSE]

(* activate: loadFromCache, and fullIndex when there is no cache.          *)
Activate ==
  /\ phase = "off"
  /\ phase' = "activating"
  /\ index' = IF cacheFile = NoCache THEN Empty ELSE cacheFile
  /\ scan' = Scanning(IF cacheFile = NoCache THEN "full" ELSE "load")
  /\ UNCHANGED <<disk, acts, misread, events, jobs, timer, saves, cacheFile>>

(* The command libjuno.reindexWorkspace.                                   *)
ReindexWorkspace ==
  /\ phase = "on" /\ scan = NoScan
  /\ acts < MaxActs /\ acts' = acts + 1
  /\ scan' = Scanning("full")
  /\ UNCHANGED <<disk, misread, phase, events, index, jobs, timer, saves, cacheFile>>

(* f is the next file of loadFromCache and its text has the cached hash.   *)
Skips(f) ==
  /\ scan.kind = "load" /\ scan.at = Absent /\ f \in scan.todo
  /\ disk[f] = index.fileHashes[f] /\ disk[f] # Absent

ScanSkips(f) ==
  /\ Skips(f)
  /\ scan' = [scan EXCEPT !.todo = @ \ {f}]
  /\ UNCHANGED <<disk, acts, misread, phase, events, index, jobs, timer, saves, cacheFile>>

(* The next file is read; loadFromCache drops its records before.          *)
ScanReads(f) ==
  /\ scan.kind # "none" /\ scan.at = Absent /\ f \in scan.todo
  /\ ~Skips(f)
  /\ scan' = [scan EXCEPT !.todo = @ \ {f}, !.at = f, !.text = Unread, !.changed = TRUE]
  /\ index' = IF scan.kind = "load" THEN removeFileRecords(index, f) ELSE index
  /\ UNCHANGED <<disk, acts, misread, phase, events, jobs, timer, saves, cacheFile>>

ScanMerges ==
  /\ scan.kind # "none" /\ scan.at # Absent /\ scan.text # Unread
  /\ index' = indexFile(index, scan.at, scan.text)
  /\ scan' = [scan EXCEPT !.at = Absent,
                          !.deferred = IF scan.text = Absent THEN @ ELSE @ \cup (Positional \cap {scan.at})]
  /\ UNCHANGED <<disk, acts, misread, phase, events, jobs, timer, saves, cacheFile>>

(* loadFromCache saves only if a file had changed.                         *)
ScanFinishes ==
  /\ scan.kind # "none" /\ scan.at = Absent /\ scan.todo = {}
  /\ scan' = NoScan
  /\ IF scan.kind = "full" \/ scan.changed
       THEN /\ Len(saves) < MaxInFlight
            /\ index' = resolveDeferred(index, scan.deferred)
            /\ saves' = Saving(index')
       ELSE UNCHANGED <<index, saves>>
  /\ UNCHANGED <<disk, acts, misread, phase, events, jobs, timer, cacheFile>>

(* activate goes on when its pass has been saved, and only then watches.   *)
Watch ==
  /\ phase = "activating" /\ scan = NoScan /\ saves = << >>
  /\ phase' = "on"
  /\ UNCHANGED <<disk, acts, misread, events, index, jobs, scan, timer, saves, cacheFile>>

-----------------------------------------------------------------------------
(* Mutant: a file that is being read already is not read again.            *)
ReindexFileOnce(f) ==
  /\ phase = "on" /\ events[f] = "changed"
  /\ Len(jobs) < MaxInFlight
  /\ index' = Forgotten(index, f)
  /\ jobs' = IF \E i \in DOMAIN jobs : jobs[i].file = f THEN jobs
             ELSE Append(jobs, [file |-> f, text |-> Unread])
  /\ events' = [events EXCEPT ![f] = "none"]
  /\ UNCHANGED <<disk, acts, misread, phase, scan, timer, saves, cacheFile>>

(* The watcher reports: reindexFile up to its await, and removeFile, which *)
(* schedules no save.                                                      *)
ReindexFile(f) ==
  /\ phase = "on" /\ events[f] = "changed"
  /\ Len(jobs) < MaxInFlight
  /\ index' = Forgotten(index, f)
  /\ jobs' = Append(jobs, [file |-> f, text |-> Unread])
  /\ events' = [events EXCEPT ![f] = "none"]
  /\ UNCHANGED <<disk, acts, misread, phase, scan, timer, saves, cacheFile>>

RemoveFile(f) ==
  /\ phase = "on" /\ events[f] = "deleted"
  /\ index' = Forgotten(index, f)
  /\ events' = [events EXCEPT ![f] = "none"]
  /\ UNCHANGED <<disk, acts, misread, phase, jobs, scan, timer, saves, cacheFile>>

(* readFile gets the text at some moment before the promise is settled.    *)
Read ==
  /\ \/ /\ \E i \in DOMAIN jobs : jobs[i].text = Unread /\ jobs' = [jobs EXCEPT ![i].text = disk[jobs[i].file]]
        /\ UNCHANGED scan
     \/ /\ scan.kind # "none" /\ scan.at # Absent /\ scan.text = Unread
        /\ scan' = [scan EXCEPT !.text = disk[scan.at]]
        /\ UNCHANGED jobs
  /\ UNCHANGED <<disk, acts, misread, phase, events, index, timer, saves, cacheFile>>

(* readFile fails though the file may be there.                            *)
ReadFails ==
  /\ acts < MaxActs /\ acts' = acts + 1
  /\ \/ /\ \E i \in DOMAIN jobs :
             /\ jobs[i].text = Unread
             /\ jobs' = [jobs EXCEPT ![i].text = Absent]
             /\ misread' = misread \cup {jobs[i].file}
        /\ UNCHANGED scan
     \/ /\ scan.kind # "none" /\ scan.at # Absent /\ scan.text = Unread
        /\ scan' = [scan EXCEPT !.text = Absent]
        /\ misread' = misread \cup {scan.at}
        /\ UNCHANGED jobs
  /\ UNCHANGED <<disk, phase, events, index, timer, saves, cacheFile>>

(* reindexFile after its await.                                            *)
Reindexed(i) ==
  /\ jobs[i].text # Unread
  /\ LET f == jobs[i].file
     IN  index' = resolveDeferred(indexFile(index, f, jobs[i].text),
                                  IF jobs[i].text = Absent THEN {} ELSE Positional \cap {f})
  /\ jobs' = RemoveAt(jobs, i)
  /\ timer' = TRUE
  /\ UNCHANGED <<disk, acts, misread, phase, events, scan, saves, cacheFile>>

TimerFires ==
  /\ timer /\ Len(saves) < MaxInFlight
  /\ timer' = FALSE
  /\ saves' = Saving(index)
  /\ UNCHANGED <<disk, acts, misread, phase, events, index, jobs, scan, cacheFile>>

-----------------------------------------------------------------------------
(* The world: somebody edits, deletes or restores a file; the watcher      *)
(* keeps the last kind of event of a file.  The window is closed or killed *)
(* at any time: deactivate waits for nothing.                              *)
Change(f) ==
  /\ acts < MaxActs
  /\ acts' = acts + 1
  /\ \E text \in (Texts \cup {Absent}) \ {disk[f]} :
       /\ disk' = [disk EXCEPT ![f] = text]
       /\ events' = IF phase # "on" THEN events
                    ELSE [events EXCEPT ![f] = IF text = Absent THEN "deleted" ELSE "changed"]
  /\ misread' = misread \ {f}
  /\ UNCHANGED <<phase, index, jobs, scan, timer, saves, cacheFile>>

Kill ==
  /\ phase # "off"
  /\ phase' = "off"
  /\ events' = [f \in Files |-> "none"]
  /\ index' = Empty
  /\ jobs' = << >> /\ saves' = << >> /\ scan' = NoScan /\ timer' = FALSE
  /\ cacheFile' \in {cacheFile} \cup (IF Len(saves) > 1 THEN {NoCache} ELSE {})
  /\ misread' = {}
  /\ UNCHANGED <<disk, acts>>

ScanStep == ScanMerges \/ ScanFinishes \/ (\E f \in Files : ScanSkips(f) \/ ScanReads(f))
JobStep  == (\E i \in DOMAIN jobs : Reindexed(i)) \/ Read
SaveStep == (\E i \in DOMAIN saves : Save(i)) \/ TimerFires
Event(f) == ReindexFile(f) \/ RemoveFile(f)

IndexerNext ==
  \/ Activate \/ ReindexWorkspace \/ Watch \/ Kill \/ ReadFails
  \/ ScanStep \/ JobStep \/ SaveStep
  \/ \E f \in Files : Event(f) \/ Change(f)

(* The event loop runs what is due: settled promises, timers and events.   *)
IndexerFairness ==
  /\ WF_indexerVars(ScanStep) /\ WF_indexerVars(JobStep) /\ WF_indexerVars(SaveStep)
  /\ \A f \in Files : WF_indexerVars(Event(f))

IndexerSpec == IndexerInit /\ [][IndexerNext]_indexerVars /\ IndexerFairness

-----------------------------------------------------------------------------
Defined(f, text) == [file |-> f, text |-> text] \in index.functionDefinitions

(* A change the watcher has seen is in the index in the end, unless the    *)
(* file changes again, the window is closed or a read fails: however the   *)
(* reads of overlapping reindexFile calls are ordered, whatever scan runs  *)
(* beside.  The definitions of an older text may stay beside it.           *)
ReportedChangeIndexed ==
  \A f \in Files : \A text \in Texts :
    events[f] = "changed" /\ disk[f] = text ~>
      Defined(f, text) \/ disk[f] # text \/ phase # "on" \/ f \in misread

(* "cached -- skip" (workspaceIndexer.ts:139): a file that loadFromCache   *)
(* passes over for its hash is in the index, its functions and its vtable. *)
SkipsOnlyCached ==
  \A f \in Files : Skips(f) =>
    Defined(f, disk[f]) /\ \E l \in index.vtableAssignments : l.assignmentFile = f

(* A hash vouches for its file's definitions or for none at all, and no    *)
(* vtable assignment leads to a file whose definitions have been dropped,  *)
(* but for one that leads to itself since its pass ended too late: so it   *)
(* is in the index, in every snapshot being saved, and in the cache file   *)
(* that a later activation loads, whatever edits, reads, saves and kills   *)
(* have come in between.                                                   *)
HashVouches(idx) ==
  \A d \in idx.functionDefinitions :
    [file |-> d.file, text |-> idx.fileHashes[d.file]] \in idx.functionDefinitions
LocationsDefined(idx) ==
  \A l \in idx.vtableAssignments :
    \/ \E d \in idx.functionDefinitions : d.file = l.file
    \/ l.file = l.assignmentFile /\ l.file \in Positional
Stored == {index} \cup { saves[i].snapshot : i \in DOMAIN saves } \cup ({cacheFile} \ {NoCache})
IndexConsistent == \A idx \in Stored : HashVouches(idx) /\ LocationsDefined(idx)
=============================================================================
