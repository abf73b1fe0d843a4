------------------------- MODULE JsonStorageStore -------------------------
(***************************************************************************)
(* JsonStorageStore: a Map of records that stands in front of a JSON file. *)
(* Stores in several processes share the file, under one entity name: a    *)
(* write drops what others had stored under another name.  Changes are     *)
(* made in the Map, marked dirty and written later by a debounced flush,   *)
(* under a file lock and with a rename; a read reloads the Map when the    *)
(* file's time has changed.                                                *)
(*                                                                         *)
(* A step is the code between two awaits.  A file operation takes effect   *)
(* in the step that resumes its caller, as a whole or, when it fails, not  *)
(* at all, and every write gives the file a time it has not had before.  A *)
(* record's value is the call that wrote it, and None where there is no    *)
(* record.                                                                 *)
(***************************************************************************)
EXTENDS Naturals

CONSTANTS
    Stores,      \* the stores, each in a process of its own
    Ids,         \* the ids of records
    Calls,       \* calls of the API: bounds a behaviour
    Flushers,    \* firings of the debounce timers: bounds a behaviour
    FileExists,  \* whether the file may be there at the start
    Old,         \* the value of a record that is in it by then
    None         \* no record, no holder

ASSUME WriterAssumption ==
    Calls \cap Flushers = {} /\ {None, Old} \cap (Calls \cup Flushers) = {}
ASSUME ExistsAssumption == FileExists \subseteq BOOLEAN

VARIABLES
    exists,      \* whether the file is there
    file,        \* the records it holds
    mtime,       \* its modification time
    lock,        \* the holder of the lock file
    recordMap,   \* recordMap of each store
    dirty,       \* dirty
    armed,       \* whether the debounce timer runs
    lastChangedMtime,
    pc,          \* where each call and each flush waits
    op,          \* what it is doing: [store, kind, id]
    reloading,   \* its writeToFile() and init() are those of a reload
    stat,        \* the modification time it has seen
    contents,    \* what it is writing
    acked,       \* the value each record should have by the calls that have
                 \* returned (a history)
    unsaved,     \* the stores whose last write has failed (a history)
    history      \* which of Disturbances have occurred (a history)

fileVars  == <<exists, file, mtime>>
storeVars == <<recordMap, dirty, armed, lastChangedMtime>>
frameVars == <<op, reloading, stat, contents>>
ghosts    == <<acked, unsaved, history>>
vars == <<fileVars, lock, storeVars, pc, frameVars, ghosts>>

----------------------------------------------------------------------------
Jobs  == Calls \cup Flushers
Kinds == {"get", "create", "update", "delete", "flush", "exit"}
Values == Calls \cup {Old, None}

Records == [Ids -> Values]
NoRecords == [i \in Ids |-> None]
NoOp == [store |-> None, kind |-> "get", id |-> None]

\* "overlap": two jobs of a store at a time; "contention": a job of a store
\* while another one works or has changes that are not written; "failure": a
\* write failed; "dropped": a store reloaded or exited with changes that a
\* failed write had left; "crash": a process died; "emptied": a store deleted
\* its last record; "erased": init() created a file that was there by then;
\* "stale": delete() changed a Map although the file's records were others
Disturbances == {"overlap", "contention", "failure", "dropped", "crash",
                 "emptied", "erased", "stale"}

\* the store a job works for
store(w) == op[w].store

Active  == {w \in Jobs : pc[w] \notin {"idle", "done", "failed", "dead"}}
Busy(p) == {w \in Active : store(w) = p}

\* what a step in which a job of store p begins disturbs
Disturbs(p) ==
    {d \in {"overlap"} : Busy(p) # {}} \cup
    {d \in {"contention"} : \E q \in Stores \ {p} :
                               Busy(q) # {} \/ dirty[q] \/ q \in unsaved}

\* what a step that has put m in a Map disturbs
Empties(p, m) ==
    {d \in {"emptied"} : (dirty'[p] \/ p \in unsaved) /\ m = NoRecords}

\* what a store that forgets its Map disturbs
Drops(p) == {d \in {"dropped"} : ~dirty[p] /\ p \in unsaved}

Init ==
    /\ exists \in FileExists
    /\ \E start \in {None, Old} :
          /\ start = Old => exists
          /\ file = [i \in Ids |-> start]
    /\ mtime = 1
    /\ lock = None
    /\ recordMap = [p \in Stores |-> NoRecords]
    /\ dirty = [p \in Stores |-> FALSE]
    /\ armed = [p \in Stores |-> FALSE]
    /\ lastChangedMtime = [p \in Stores |-> 0]
    /\ pc = [w \in Jobs |-> "idle"]
    /\ op = [w \in Jobs |-> NoOp]
    /\ reloading = [w \in Jobs |-> FALSE]
    /\ stat = [w \in Jobs |-> 0]
    /\ contents = [w \in Jobs |-> NoRecords]
    /\ acked = file
    /\ unsaved = {}
    /\ history = {}

----------------------------------------------------------------------------
(* What the methods share: each of these is the end of a step of job w.    *)

At(w, place) == pc' = [pc EXCEPT ![w] = place]

\* init() up to its first await
BeginInit(w) == At(w, IF exists THEN "reading" ELSE "creating")

\* Mutant of Change: the debounce is forgotten
ChangeUnarmed(p, i, m, value) ==
    /\ recordMap' = [recordMap EXCEPT ![p] = [m EXCEPT ![i] = value]]
    /\ dirty' = [dirty EXCEPT ![p] = TRUE]
    /\ acked' = [acked EXCEPT ![i] = value]
    /\ UNCHANGED armed

\* set() or delete() of record i in the Map m, and the debounce
Change(p, i, m, value) ==
    /\ recordMap' = [recordMap EXCEPT ![p] = [m EXCEPT ![i] = value]]
    /\ dirty' = [dirty EXCEPT ![p] = TRUE]
    /\ armed' = [armed EXCEPT ![p] = TRUE]
    /\ acked' = [acked EXCEPT ![i] = value]

\* the body of the call o with m in the Map: an id to create must be new, one
\* to update or to delete must be there
Body(w, o, m) ==
    /\ At(w, "done")
    /\ IF \/ o.kind = "create" /\ m[o.id] = None
          \/ o.kind \in {"update", "delete"} /\ m[o.id] # None
       THEN Change(o.store, o.id, m, IF o.kind = "delete" THEN None ELSE w)
       ELSE /\ recordMap' = [recordMap EXCEPT ![o.store] = m]
            /\ UNCHANGED <<dirty, armed, acked>>

\* after writeToFile(): the rest of flushAndReload(), or the caller
Written(w, o, reload) ==
    IF reload
    THEN recordMap' = [recordMap EXCEPT ![o.store] = NoRecords] /\ BeginInit(w)
    ELSE At(w, "done") /\ UNCHANGED recordMap

\* Mutant of BeginWrite: a reload drops the changes
BeginNoWrite(w, o, reload) ==
    /\ dirty' = [dirty EXCEPT ![o.store] = FALSE]
    /\ IF dirty[o.store] /\ ~reload
       THEN At(w, "locking") /\ UNCHANGED recordMap
       ELSE Written(w, o, reload)

\* writeToFile() up to the lock
BeginWrite(w, o, reload) ==
    /\ dirty' = [dirty EXCEPT ![o.store] = FALSE]
    /\ IF dirty[o.store]
       THEN At(w, "locking") /\ UNCHANGED recordMap
       ELSE Written(w, o, reload)

\* the process of p ends and all that runs in it, in a step of its job w or of
\* none; a lock it holds goes stale
Dies(p, gone) ==
    /\ pc' = [w \in Jobs |-> IF w \in Busy(p) \cup gone THEN "dead" ELSE pc[w]]
    /\ lock' = IF lock \in Busy(p) THEN None ELSE lock
    /\ recordMap' = [recordMap EXCEPT ![p] = NoRecords]
    /\ dirty' = [dirty EXCEPT ![p] = FALSE]
    /\ armed' = [armed EXCEPT ![p] = FALSE]
    /\ lastChangedMtime' = [lastChangedMtime EXCEPT ![p] = 0]

----------------------------------------------------------------------------
(* Calls.                                                                  *)

\* Job w begins to do o, which disturbs what is in the set also as well
Begin(w, o, also) ==
    /\ pc[w] = "idle"
    /\ op' = [op EXCEPT ![w] = o]
    /\ history' = history \cup Disturbs(o.store) \cup also
                          \cup Empties(o.store, recordMap'[o.store])
    /\ UNCHANGED <<fileVars, reloading, stat, contents, unsaved>>

\* A call that finds the Map empty initialises it first
CallInit(w, o) ==
    /\ o.kind \notin {"flush", "exit"}
    /\ recordMap[o.store] = NoRecords
    /\ BeginInit(w)
    /\ UNCHANGED <<lock, storeVars, acked>>
    /\ Begin(w, o, {})

\* reloadIfChanged() of a call that does not, up to its await
CallStat(w, o) ==
    /\ o.kind \in {"get", "create", "update"}
    /\ recordMap[o.store] # NoRecords
    /\ At(w, "stat")
    /\ UNCHANGED <<lock, storeVars, acked>>
    /\ Begin(w, o, {})

\* what a delete() from the Map of store p disturbs
Outdated(p) ==
    {d \in {"stale"} : ~dirty[p] /\ p \notin unsaved /\ recordMap[p] # file}

\* delete() looks at the Map only, and not for changes of the file
CallDelete(w, o) ==
    /\ o.kind = "delete"
    /\ recordMap[o.store] # NoRecords
    /\ Body(w, o, recordMap[o.store])
    /\ Begin(w, o, Outdated(o.store))
    /\ UNCHANGED <<lock, lastChangedMtime>>

\* flushNow(), and the handler of SIGINT and SIGTERM when there is a change
CallFlush(w, o) ==
    /\ o.kind = "flush" \/ (o.kind = "exit" /\ dirty[o.store])
    /\ BeginWrite(w, o, FALSE)
    /\ Begin(w, o, {})
    /\ UNCHANGED <<lock, lastChangedMtime, armed, acked>>

\* That handler when there is none: the process exits
CallExit(w, o) ==
    /\ o.kind = "exit" /\ ~dirty[o.store]
    /\ Dies(o.store, {w})
    /\ Begin(w, o, Drops(o.store))
    /\ UNCHANGED acked

\* The debounce timer fires
Debounce(w, p) ==
    LET o == [store |-> p, kind |-> "flush", id |-> None] IN
    /\ armed[p]
    /\ armed' = [armed EXCEPT ![p] = FALSE]
    /\ BeginWrite(w, o, FALSE)
    /\ Begin(w, o, {})
    /\ UNCHANGED <<lock, lastChangedMtime, acked>>

\* init() creates the file that it found missing, in one write
CreateFile(w) ==
    /\ pc[w] = "creating"
    /\ exists' = TRUE
    /\ file' = NoRecords
    /\ mtime' = mtime + 1
    /\ At(w, "reading")
    /\ history' = history \cup {d \in {"erased"} : exists}
    /\ UNCHANGED <<lock, storeVars, frameVars, acked, unsaved>>

\* init() has read the file: the Map is replaced, and the call goes on
Read(w) ==
    /\ pc[w] = "reading"
    /\ IF reloading[w]
       THEN lastChangedMtime' = [lastChangedMtime EXCEPT ![store(w)] = stat[w]]
       ELSE UNCHANGED lastChangedMtime
    /\ IF reloading[w] \/ op[w].kind = "delete"
       THEN Body(w, op[w], file)
       ELSE /\ recordMap' = [recordMap EXCEPT ![store(w)] = file]
            /\ At(w, "stat")
            /\ UNCHANGED <<dirty, armed, acked>>
    /\ history' = history \cup Empties(store(w), recordMap'[store(w)])
    /\ UNCHANGED <<fileVars, lock, frameVars, unsaved>>

\* the file's time is not the one the store remembers
FileChanged(p) == mtime # lastChangedMtime[p]

\* reloadIfChanged() on an unchanged file: on to the body
StatUnchanged(w) ==
    /\ pc[w] = "stat"
    /\ ~FileChanged(store(w))
    /\ Body(w, op[w], recordMap[store(w)])
    /\ history' = history \cup Empties(store(w), recordMap'[store(w)])
    /\ UNCHANGED <<fileVars, lock, lastChangedMtime, frameVars, unsaved>>

\* reloadIfChanged() on another one: flushAndReload()
StatChanged(w) ==
    /\ pc[w] = "stat"
    /\ FileChanged(store(w))
    /\ stat' = [stat EXCEPT ![w] = mtime]
    /\ reloading' = [reloading EXCEPT ![w] = TRUE]
    /\ BeginWrite(w, op[w], TRUE)
    /\ history' = history \cup Drops(store(w))
    /\ UNCHANGED <<fileVars, lock, lastChangedMtime, armed, op, contents, acked,
                   unsaved>>

\* existsSync() was wrong, or the stat, the read or the parse fails: the call
\* rejects, and the Map is what it was
ReadFails(w) ==
    /\ pc[w] \in {"creating", "reading", "stat"}
    /\ At(w, "failed")
    /\ UNCHANGED <<fileVars, lock, storeVars, frameVars, ghosts>>

----------------------------------------------------------------------------
(* writeToFile().                                                          *)

\* Mutant of Lock: nobody waits
LockAnyway(w) ==
    /\ pc[w] = "locking"
    /\ lock' = w
    /\ contents' = [contents EXCEPT ![w] = recordMap[store(w)]]
    /\ At(w, "writing")
    /\ UNCHANGED <<fileVars, storeVars, op, reloading, stat, ghosts>>

\* lock() succeeds: the records are those of the Map now
Lock(w) ==
    /\ pc[w] = "locking"
    /\ lock = None
    /\ lock' = w
    /\ contents' = [contents EXCEPT ![w] = recordMap[store(w)]]
    /\ At(w, "writing")
    /\ UNCHANGED <<fileVars, storeVars, op, reloading, stat, ghosts>>

\* The temporary file replaces the file, at a time of its own: two writes never
\* fall into one tick of the file system's clock
Rename(w) ==
    /\ pc[w] = "writing"
    /\ file' = contents[w]
    /\ mtime' = mtime + 1
    /\ At(w, "renamed")
    /\ unsaved' = unsaved \ {store(w)}
    /\ UNCHANGED <<exists, lock, storeVars, frameVars, acked, history>>

\* The file's time is noted and the lock released
Release(w) ==
    /\ pc[w] = "renamed" /\ op[w].kind # "exit"
    /\ lastChangedMtime' = [lastChangedMtime EXCEPT ![store(w)] = mtime]
    /\ lock' = None
    /\ Written(w, op[w], reloading[w])
    /\ UNCHANGED <<fileVars, dirty, armed, frameVars, ghosts>>

\* Mutant of Unlocked: the release is no finally clause
StillLocked(w) == lock

\* what `finally' makes of the lock
Unlocked(w) == IF lock = w THEN None ELSE lock

\* lock() gives up, or the write or the rename fails: the caller gets the
\* error, and dirty has been reset
WriteFails(w) ==
    /\ pc[w] \in {"locking", "writing"}
    /\ lock' = Unlocked(w)
    /\ At(w, "failed")
    /\ unsaved' = unsaved \cup {store(w)}
    /\ history' = history \cup {"failure"}
    /\ UNCHANGED <<fileVars, storeVars, frameVars, acked>>

\* The stat after the rename fails or, with the time noted, the release: the
\* file is written, and a lock that is left goes stale
NotingFails(w, noted) ==
    /\ pc[w] = "renamed"
    /\ lastChangedMtime' = IF noted THEN [lastChangedMtime EXCEPT ![store(w)] = mtime]
                           ELSE lastChangedMtime
    /\ lock' = Unlocked(w)
    /\ At(w, "failed")
    /\ history' = history \cup {"failure"}
    /\ UNCHANGED <<fileVars, recordMap, dirty, armed, frameVars, acked, unsaved>>

\* The signal handler's write is done
ReleaseAndExit(w) ==
    /\ pc[w] = "renamed" /\ op[w].kind = "exit"
    /\ Dies(store(w), {w})
    /\ UNCHANGED <<fileVars, frameVars, ghosts>>

\* The process ends before its time
Crash(p) ==
    /\ Dies(p, {})
    /\ history' = history \cup {"crash"}
    /\ UNCHANGED <<fileVars, frameVars, acked, unsaved>>

----------------------------------------------------------------------------
Next ==
    \/ \E w \in Calls, o \in [store : Stores, kind : Kinds, id : Ids] :
          CallInit(w, o) \/ CallStat(w, o) \/ CallDelete(w, o)
          \/ CallFlush(w, o) \/ CallExit(w, o)
    \/ \E w \in Flushers, p \in Stores : Debounce(w, p)
    \/ \E w \in Jobs :
          \/ CreateFile(w) \/ Read(w) \/ StatUnchanged(w) \/ StatChanged(w)
          \/ ReadFails(w)
          \/ Lock(w) \/ Rename(w) \/ Release(w) \/ ReleaseAndExit(w) \/ WriteFails(w)
          \/ \E noted \in BOOLEAN : NotingFails(w, noted)
    \/ \E p \in Stores : Crash(p)

Spec == Init /\ [][Next]_vars

----------------------------------------------------------------------------
(* Properties.                                                             *)

\* While the stores take turns, writes that fail included: changes that were
\* acknowledged and are not in the file are in the Map of a store, where a
\* debounced flush is ahead of them, or a job waits for the lock or writes
\* them.  When their write has failed they are still in the Map, for the next
\* change to take along, but nothing is ahead of them: the next reload or exit
\* loses them ("dropped").
AckedIsUnderWay ==
    history \subseteq {"failure"} =>
        \/ file = acked
        \/ \E p \in Stores :
              /\ recordMap[p] = acked
              /\ \/ dirty[p] /\ armed[p]
                 \/ \E w \in Busy(p) : pc[w] \in {"locking", "writing"}
                 \/ p \in unsaved

\* The lock is held by the job that writes and by no other, whichever way
\* the writes of the processes end.
LockIsTheWriters ==
    \A w \in Jobs : lock = w <=> pc[w] \in {"writing", "renamed"}

\* A store that is at rest and remembers the file's time has the file's
\* records, or none and will read them: reloadIfChanged() may rely on the
\* time, although other processes write between a store's rename and its stat,
\* or its stat and its read, reads and writes fail and processes die.  Left
\* out is a store whose last write has failed: it has what it failed to write.
CleanCacheIsFile ==
    history \cap {"overlap", "erased"} = {} =>
        \A p \in Stores \ unsaved :
            Busy(p) = {} /\ ~dirty[p] /\ ~FileChanged(p) =>
                recordMap[p] \in {file, NoRecords}

\* what a call to p would find now
View(p) ==
    IF recordMap[p] # NoRecords /\ (dirty[p] \/ ~FileChanged(p))
    THEN recordMap[p] ELSE file

\* While the stores take turns and nothing fails, every change that was
\* acknowledged is what the next call finds: after a flush, a reload, an
\* exit and a restart, and in the other processes once it is written.  Left
\* out are a store whose last record was deleted, and a delete() from a Map
\* that is older than the file, whose flush takes the other stores' changes
\* back.
TurnsKeepAcked ==
    history = {} /\ Active = {} =>
        \A p \in Stores :
            (\A q \in Stores \ {p} : ~dirty[q]) => View(p) = acked

\* "ensuring data integrity even under concurrent access"
\* (classApiReference.md): in one process, a change that was acknowledged is
\* what the next call finds, calls and flushes overlapping or not.
AckedIsKept ==
    history \subseteq {"overlap", "erased"} /\ Active = {} =>
        \A p \in Stores : View(p) = acked
=============================================================================
