---------------------- MODULE JsonStorageStoreProofs ----------------------
(***************************************************************************)
(* Proofs about JsonStorageStore, for any number of stores, calls, flushes *)
(* and records.  The inductive invariant StoreInv has the shape of the     *)
(* variables (JobsShape to TimesShape), DirtyIsArmed, the property         *)
(* LockIsTheWriters, and what the other properties rest on: Alone,         *)
(* NothingBefore, Cached and Turns.                                        *)
(***************************************************************************)
EXTENDS JsonStorageStore, TLAPS

\* where a job is at rest, and where it works
Rests   == {"idle", "done", "failed", "dead"}
Working == {"creating", "reading", "stat", "locking", "writing", "renamed"}

\* The shape of the variables; and a job at work works for a store
JobsShape ==
    /\ pc \in [Jobs -> Rests \cup Working]
    /\ DOMAIN op = Jobs
    /\ \A w \in Jobs : pc[w] \in Working => op[w].store \in Stores
    /\ unsaved \subseteq Stores

\* Each store has its Map, each job its frame
MapsShape ==
    /\ DOMAIN recordMap = Stores
    /\ DOMAIN contents = Jobs /\ DOMAIN reloading = Jobs

\* The flags are Boolean
FlagsShape ==
    /\ dirty \in [Stores -> BOOLEAN]
    /\ armed \in [Stores -> BOOLEAN]

\* Only the timer, and the end of the process, disarms what it will write
DirtyIsArmed ==
    \A p \in Stores : dirty[p] => armed[p]

\* What is remembered of the file's time is past or present
TimesShape ==
    /\ mtime \in Nat \ {0}
    /\ lastChangedMtime \in [Stores -> 0 .. mtime]
    /\ stat \in [Jobs -> 0 .. mtime]

\* What the body of a call makes of the flags
LEMMA BodyKeepsFlags ==
    ASSUME FlagsShape, DirtyIsArmed, NEW w, NEW o, NEW m, o.store \in Stores,
           Body(w, o, m)
    PROVE  FlagsShape' /\ DirtyIsArmed'
<1>1. CASE UNCHANGED <<dirty, armed>>
  BY <1>1 DEF FlagsShape, DirtyIsArmed
<1>2. CASE /\ dirty' = [dirty EXCEPT ![o.store] = TRUE]
           /\ armed' = [armed EXCEPT ![o.store] = TRUE]
  BY <1>2 DEF FlagsShape, DirtyIsArmed
<1> QED
  BY <1>1, <1>2 DEF Body, Change

\* Changes are armed, and only the timer disarms: it writes them
LEMMA FlagsStep ==
    ASSUME JobsShape, FlagsShape, DirtyIsArmed, [Next]_vars
    PROVE  (FlagsShape /\ DirtyIsArmed)'
<1>1. ASSUME NEW w \in Calls, NEW o \in [store : Stores, kind : Kinds, id : Ids],
             CallInit(w, o)
      PROVE  (FlagsShape /\ DirtyIsArmed)'
  BY <1>1, SMTT(60)
     DEF CallInit, BeginInit, At, Begin, store, FlagsShape, DirtyIsArmed,
         JobsShape, Rests, Working, Jobs, vars, fileVars, storeVars,
         frameVars, ghosts
<1>2. ASSUME NEW w \in Calls, NEW o \in [store : Stores, kind : Kinds, id : Ids],
             CallStat(w, o)
      PROVE  (FlagsShape /\ DirtyIsArmed)'
  BY <1>2, SMTT(60)
     DEF CallStat, At, Begin, store, FlagsShape, DirtyIsArmed, BeginInit,
         JobsShape, Rests, Working, Jobs, vars, fileVars, storeVars,
         frameVars, ghosts
<1>3. ASSUME NEW w \in Calls, NEW o \in [store : Stores, kind : Kinds, id : Ids],
             CallDelete(w, o)
      PROVE  (FlagsShape /\ DirtyIsArmed)'
  BY <1>3, BodyKeepsFlags DEF CallDelete
<1>4. ASSUME NEW w \in Calls, NEW o \in [store : Stores, kind : Kinds, id : Ids],
             CallFlush(w, o)
      PROVE  (FlagsShape /\ DirtyIsArmed)'
  BY <1>4, SMTT(60)
     DEF CallFlush, BeginWrite, Written, At, Begin, store, FlagsShape,
         DirtyIsArmed, BeginInit, JobsShape, Rests, Working, Jobs, vars,
         fileVars, storeVars, frameVars, ghosts
<1>5. ASSUME NEW w \in Calls, NEW o \in [store : Stores, kind : Kinds, id : Ids],
             CallExit(w, o)
      PROVE  (FlagsShape /\ DirtyIsArmed)'
  BY <1>5, SMTT(60)
     DEF CallExit, Dies, Begin, store, FlagsShape, DirtyIsArmed,
         BeginInit, JobsShape, Rests, Working, Jobs, vars, fileVars,
         storeVars, frameVars, ghosts
<1>6. ASSUME NEW w \in Flushers, NEW p \in Stores, Debounce(w, p)
      PROVE  (FlagsShape /\ DirtyIsArmed)'
  BY <1>6, SMTT(60)
     DEF Debounce, BeginWrite, Written, At, Begin, store, FlagsShape,
         DirtyIsArmed, BeginInit, JobsShape, Rests, Working, Jobs, vars,
         fileVars, storeVars, frameVars, ghosts
<1>7. ASSUME NEW w \in Jobs, CreateFile(w)
      PROVE  (FlagsShape /\ DirtyIsArmed)'
  BY <1>7, SMTT(60)
     DEF CreateFile, At, store, FlagsShape, DirtyIsArmed, BeginInit,
         JobsShape, Rests, Working, Jobs, vars, fileVars, storeVars,
         frameVars, ghosts
<1>8. ASSUME NEW w \in Jobs, Read(w)
      PROVE  (FlagsShape /\ DirtyIsArmed)'
  BY <1>8, BodyKeepsFlags DEF Read, JobsShape, Working, FlagsShape,
     DirtyIsArmed, store
<1>9. ASSUME NEW w \in Jobs, StatUnchanged(w)
      PROVE  (FlagsShape /\ DirtyIsArmed)'
  BY <1>9, BodyKeepsFlags DEF StatUnchanged, JobsShape, Working, store
<1>10. ASSUME NEW w \in Jobs, StatChanged(w)
      PROVE  (FlagsShape /\ DirtyIsArmed)'
  BY <1>10, SMTT(60)
     DEF StatChanged, BeginWrite, Written, BeginInit, At, store,
         FileChanged, FlagsShape, DirtyIsArmed, JobsShape, Rests, Working,
         Jobs, vars, fileVars, storeVars, frameVars, ghosts
<1>11. ASSUME NEW w \in Jobs, Lock(w)
      PROVE  (FlagsShape /\ DirtyIsArmed)'
  BY <1>11, SMTT(60)
     DEF Lock, At, store, FlagsShape, DirtyIsArmed, BeginInit, JobsShape,
         Rests, Working, Jobs, vars, fileVars, storeVars, frameVars,
         ghosts
<1>12. ASSUME NEW w \in Jobs, Rename(w)
      PROVE  (FlagsShape /\ DirtyIsArmed)'
  BY <1>12, SMTT(60)
     DEF Rename, At, store, FlagsShape, DirtyIsArmed, BeginInit,
         JobsShape, Rests, Working, Jobs, vars, fileVars, storeVars,
         frameVars, ghosts
<1>13. ASSUME NEW w \in Jobs, Release(w)
      PROVE  (FlagsShape /\ DirtyIsArmed)'
  BY <1>13, SMTT(60)
     DEF Release, Written, BeginInit, At, store, FlagsShape, DirtyIsArmed,
         JobsShape, Rests, Working, Jobs, vars, fileVars, storeVars,
         frameVars, ghosts
<1>14. ASSUME NEW w \in Jobs, ReleaseAndExit(w)
      PROVE  (FlagsShape /\ DirtyIsArmed)'
  BY <1>14, SMTT(60)
     DEF ReleaseAndExit, Dies, store, FlagsShape, DirtyIsArmed, BeginInit,
         JobsShape, Rests, Working, Jobs, vars, fileVars, storeVars,
         frameVars, ghosts
<1>15. ASSUME NEW w \in Jobs, WriteFails(w)
      PROVE  (FlagsShape /\ DirtyIsArmed)'
  BY <1>15, SMTT(60)
     DEF WriteFails, Unlocked, At, store, FlagsShape, DirtyIsArmed,
         BeginInit, JobsShape, Rests, Working, Jobs, vars, fileVars,
         storeVars, frameVars, ghosts
<1>16. ASSUME NEW p \in Stores, Crash(p)
      PROVE  (FlagsShape /\ DirtyIsArmed)'
  BY <1>16, SMTT(60)
     DEF Crash, Dies, store, FlagsShape, DirtyIsArmed, BeginInit,
         JobsShape, Rests, Working, Jobs, vars, fileVars, storeVars,
         frameVars, ghosts
<1>17. CASE UNCHANGED vars
  BY <1>17, SMTT(60)
     DEF FlagsShape, DirtyIsArmed, BeginInit, JobsShape, Rests, Working,
         Jobs, vars, fileVars, storeVars, frameVars, ghosts
<1>18. ASSUME NEW w \in Jobs, ReadFails(w)
      PROVE  (FlagsShape /\ DirtyIsArmed)'
  BY <1>18, SMTT(60)
     DEF ReadFails, At, store, FlagsShape, DirtyIsArmed,
         BeginInit, JobsShape, Rests, Working, Jobs, vars, fileVars,
         storeVars, frameVars, ghosts
<1>19. ASSUME NEW w \in Jobs, NEW noted \in BOOLEAN, NotingFails(w, noted)
      PROVE  (FlagsShape /\ DirtyIsArmed)'
  BY <1>19, SMTT(60)
     DEF NotingFails, Unlocked, At, store, FlagsShape, DirtyIsArmed,
         BeginInit, JobsShape, Rests, Working, Jobs, vars, fileVars,
         storeVars, frameVars, ghosts
<1> QED
  BY <1>1, <1>2, <1>3, <1>4, <1>5, <1>6, <1>7, <1>8, <1>9, <1>10, <1>11,
     <1>12, <1>13, <1>14, <1>15, <1>16, <1>17, <1>18, <1>19 DEF Next

\* A job that starts to work has its store, and keeps it
LEMMA JobsShapeStep ==
    ASSUME JobsShape, [Next]_vars
    PROVE  JobsShape'
<1>1. ASSUME NEW w \in Calls, NEW o \in [store : Stores, kind : Kinds, id : Ids],
             CallInit(w, o)
      PROVE  JobsShape'
  BY <1>1, SMTT(60)
     DEF CallInit, BeginInit, At, Begin, store, JobsShape, Rests, Working,
         Jobs, Active, Busy, vars, fileVars, storeVars, frameVars, ghosts
<1>2. ASSUME NEW w \in Calls, NEW o \in [store : Stores, kind : Kinds, id : Ids],
             CallStat(w, o)
      PROVE  JobsShape'
  BY <1>2, SMTT(60)
     DEF CallStat, At, Begin, store, JobsShape, Rests, Working, Jobs,
         Active, Busy, BeginInit, vars, fileVars, storeVars, frameVars,
         ghosts
<1>3. ASSUME NEW w \in Calls, NEW o \in [store : Stores, kind : Kinds, id : Ids],
             CallDelete(w, o)
      PROVE  JobsShape'
  BY <1>3, SMTT(60)
     DEF CallDelete, Body, Change, At, Begin, store, JobsShape, Rests,
         Working, Jobs, Active, Busy, BeginInit, vars, fileVars,
         storeVars, frameVars, ghosts
<1>4. ASSUME NEW w \in Calls, NEW o \in [store : Stores, kind : Kinds, id : Ids],
             CallFlush(w, o)
      PROVE  JobsShape'
  BY <1>4, SMTT(60)
     DEF CallFlush, BeginWrite, Written, At, Begin, store, JobsShape,
         Rests, Working, Jobs, Active, Busy, BeginInit, vars, fileVars,
         storeVars, frameVars, ghosts
<1>5. ASSUME NEW w \in Calls, NEW o \in [store : Stores, kind : Kinds, id : Ids],
             CallExit(w, o)
      PROVE  JobsShape'
  BY <1>5, SMTT(60)
     DEF CallExit, Dies, Begin, store, JobsShape, Rests, Working, Jobs,
         Active, Busy, BeginInit, vars, fileVars, storeVars, frameVars,
         ghosts
<1>6. ASSUME NEW w \in Flushers, NEW p \in Stores, Debounce(w, p)
      PROVE  JobsShape'
  BY <1>6, SMTT(60)
     DEF Debounce, BeginWrite, Written, At, Begin, store, JobsShape,
         Rests, Working, Jobs, Active, Busy, BeginInit, vars, fileVars,
         storeVars, frameVars, ghosts
<1>7. ASSUME NEW w \in Jobs, CreateFile(w)
      PROVE  JobsShape'
  BY <1>7, SMTT(60)
     DEF CreateFile, At, store, JobsShape, Rests, Working, Jobs, Active,
         Busy, BeginInit, vars, fileVars, storeVars, frameVars, ghosts
<1>8. ASSUME NEW w \in Jobs, Read(w)
      PROVE  JobsShape'
  BY <1>8, SMTT(60)
     DEF Read, Body, Change, At, store, JobsShape, Rests, Working, Jobs,
         Active, Busy, BeginInit, vars, fileVars, storeVars, frameVars,
         ghosts
<1>9. ASSUME NEW w \in Jobs, StatUnchanged(w)
      PROVE  JobsShape'
  BY <1>9, SMTT(60)
     DEF StatUnchanged, Body, Change, At, store, FileChanged, JobsShape,
         Rests, Working, Jobs, Active, Busy, BeginInit, vars, fileVars,
         storeVars, frameVars, ghosts
<1>10. ASSUME NEW w \in Jobs, StatChanged(w)
      PROVE  JobsShape'
  BY <1>10, SMTT(60)
     DEF StatChanged, BeginWrite, Written, BeginInit, At, store,
         FileChanged, JobsShape, Rests, Working, Jobs, Active, Busy, vars,
         fileVars, storeVars, frameVars, ghosts
<1>11. ASSUME NEW w \in Jobs, Lock(w)
      PROVE  JobsShape'
  BY <1>11, SMTT(60)
     DEF Lock, At, store, JobsShape, Rests, Working, Jobs, Active, Busy,
         BeginInit, vars, fileVars, storeVars, frameVars, ghosts
<1>12. ASSUME NEW w \in Jobs, Rename(w)
      PROVE  JobsShape'
  BY <1>12, SMTT(60)
     DEF Rename, At, store, JobsShape, Rests, Working, Jobs, Active, Busy,
         BeginInit, vars, fileVars, storeVars, frameVars, ghosts
<1>13. ASSUME NEW w \in Jobs, Release(w)
      PROVE  JobsShape'
  BY <1>13, SMTT(60)
     DEF Release, Written, BeginInit, At, store, JobsShape, Rests,
         Working, Jobs, Active, Busy, vars, fileVars, storeVars,
         frameVars, ghosts
<1>14. ASSUME NEW w \in Jobs, ReleaseAndExit(w)
      PROVE  JobsShape'
  BY <1>14, SMTT(60)
     DEF ReleaseAndExit, Dies, store, JobsShape, Rests, Working, Jobs,
         Active, Busy, BeginInit, vars, fileVars, storeVars, frameVars,
         ghosts
<1>15. ASSUME NEW w \in Jobs, WriteFails(w)
      PROVE  JobsShape'
  BY <1>15, SMTT(60)
     DEF WriteFails, Unlocked, At, store, JobsShape, Rests, Working, Jobs,
         Active, Busy, BeginInit, vars, fileVars, storeVars, frameVars,
         ghosts
<1>16. ASSUME NEW p \in Stores, Crash(p)
      PROVE  JobsShape'
  BY <1>16, SMTT(60)
     DEF Crash, Dies, store, JobsShape, Rests, Working, Jobs, Active,
         Busy, BeginInit, vars, fileVars, storeVars, frameVars, ghosts
<1>17. CASE UNCHANGED vars
  BY <1>17, SMTT(60)
     DEF JobsShape, Rests, Working, Jobs, Active, Busy, BeginInit, vars,
         fileVars, storeVars, frameVars, ghosts
<1>18. ASSUME NEW w \in Jobs, ReadFails(w)
      PROVE  JobsShape'
  BY <1>18, SMTT(60)
     DEF ReadFails, At, store, JobsShape, Rests, Working, Jobs,
         Active, Busy, BeginInit, vars, fileVars, storeVars, frameVars,
         ghosts
<1>19. ASSUME NEW w \in Jobs, NEW noted \in BOOLEAN, NotingFails(w, noted)
      PROVE  JobsShape'
  BY <1>19, SMTT(60)
     DEF NotingFails, Unlocked, At, store, JobsShape, Rests, Working, Jobs,
         Active, Busy, BeginInit, vars, fileVars, storeVars, frameVars,
         ghosts
<1> QED
  BY <1>1, <1>2, <1>3, <1>4, <1>5, <1>6, <1>7, <1>8, <1>9, <1>10, <1>11,
     <1>12, <1>13, <1>14, <1>15, <1>16, <1>17, <1>18, <1>19 DEF Next

\* No step loses a Map or a frame
LEMMA MapsShapeStep ==
    ASSUME MapsShape, [Next]_vars
    PROVE  MapsShape'
<1>1. ASSUME NEW w \in Calls, NEW o \in [store : Stores, kind : Kinds, id : Ids],
             CallInit(w, o)
      PROVE  MapsShape'
  BY <1>1, SMTT(60)
     DEF CallInit, BeginInit, At, Begin, store, MapsShape, vars, fileVars,
         storeVars, frameVars, ghosts
<1>2. ASSUME NEW w \in Calls, NEW o \in [store : Stores, kind : Kinds, id : Ids],
             CallStat(w, o)
      PROVE  MapsShape'
  BY <1>2, SMTT(60)
     DEF CallStat, At, Begin, store, MapsShape, BeginInit, vars, fileVars,
         storeVars, frameVars, ghosts
<1>3. ASSUME NEW w \in Calls, NEW o \in [store : Stores, kind : Kinds, id : Ids],
             CallDelete(w, o)
      PROVE  MapsShape'
  BY <1>3, SMTT(60)
     DEF CallDelete, Body, Change, At, Begin, store, MapsShape, BeginInit,
         vars, fileVars, storeVars, frameVars, ghosts
<1>4. ASSUME NEW w \in Calls, NEW o \in [store : Stores, kind : Kinds, id : Ids],
             CallFlush(w, o)
      PROVE  MapsShape'
  BY <1>4, SMTT(60)
     DEF CallFlush, BeginWrite, Written, At, Begin, store, MapsShape,
         BeginInit, vars, fileVars, storeVars, frameVars, ghosts
<1>5. ASSUME NEW w \in Calls, NEW o \in [store : Stores, kind : Kinds, id : Ids],
             CallExit(w, o)
      PROVE  MapsShape'
  BY <1>5, SMTT(60)
     DEF CallExit, Dies, Begin, store, MapsShape, BeginInit, vars,
         fileVars, storeVars, frameVars, ghosts
<1>6. ASSUME NEW w \in Flushers, NEW p \in Stores, Debounce(w, p)
      PROVE  MapsShape'
  BY <1>6, SMTT(60)
     DEF Debounce, BeginWrite, Written, At, Begin, store, MapsShape,
         BeginInit, vars, fileVars, storeVars, frameVars, ghosts
<1>7. ASSUME NEW w \in Jobs, CreateFile(w)
      PROVE  MapsShape'
  BY <1>7, SMTT(60)
     DEF CreateFile, At, store, MapsShape, BeginInit, vars, fileVars,
         storeVars, frameVars, ghosts
<1>8. ASSUME NEW w \in Jobs, Read(w)
      PROVE  MapsShape'
  BY <1>8, SMTT(60)
     DEF Read, Body, Change, At, store, MapsShape, BeginInit, vars,
         fileVars, storeVars, frameVars, ghosts
<1>9. ASSUME NEW w \in Jobs, StatUnchanged(w)
      PROVE  MapsShape'
  BY <1>9, SMTT(60)
     DEF StatUnchanged, Body, Change, At, store, FileChanged, MapsShape,
         BeginInit, vars, fileVars, storeVars, frameVars, ghosts
<1>10. ASSUME NEW w \in Jobs, StatChanged(w)
      PROVE  MapsShape'
  BY <1>10, SMTT(60)
     DEF StatChanged, BeginWrite, Written, BeginInit, At, store,
         FileChanged, MapsShape, vars, fileVars, storeVars, frameVars,
         ghosts
<1>11. ASSUME NEW w \in Jobs, Lock(w)
      PROVE  MapsShape'
  BY <1>11, SMTT(60)
     DEF Lock, At, store, MapsShape, BeginInit, vars, fileVars, storeVars,
         frameVars, ghosts
<1>12. ASSUME NEW w \in Jobs, Rename(w)
      PROVE  MapsShape'
  BY <1>12, SMTT(60)
     DEF Rename, At, store, MapsShape, BeginInit, vars, fileVars,
         storeVars, frameVars, ghosts
<1>13. ASSUME NEW w \in Jobs, Release(w)
      PROVE  MapsShape'
  BY <1>13, SMTT(60)
     DEF Release, Written, BeginInit, At, store, MapsShape, vars,
         fileVars, storeVars, frameVars, ghosts
<1>14. ASSUME NEW w \in Jobs, ReleaseAndExit(w)
      PROVE  MapsShape'
  BY <1>14, SMTT(60)
     DEF ReleaseAndExit, Dies, store, MapsShape, BeginInit, vars,
         fileVars, storeVars, frameVars, ghosts
<1>15. ASSUME NEW w \in Jobs, WriteFails(w)
      PROVE  MapsShape'
  BY <1>15, SMTT(60)
     DEF WriteFails, Unlocked, At, store, MapsShape, BeginInit, vars,
         fileVars, storeVars, frameVars, ghosts
<1>16. ASSUME NEW p \in Stores, Crash(p)
      PROVE  MapsShape'
  BY <1>16, SMTT(60)
     DEF Crash, Dies, store, MapsShape, BeginInit, vars, fileVars,
         storeVars, frameVars, ghosts
<1>17. CASE UNCHANGED vars
  BY <1>17, SMTT(60)
     DEF MapsShape, BeginInit, vars, fileVars, storeVars, frameVars,
         ghosts
<1>18. ASSUME NEW w \in Jobs, ReadFails(w)
      PROVE  MapsShape'
  BY <1>18, SMTT(60)
     DEF ReadFails, At, store, MapsShape, BeginInit, vars,
         fileVars, storeVars, frameVars, ghosts
<1>19. ASSUME NEW w \in Jobs, NEW noted \in BOOLEAN, NotingFails(w, noted)
      PROVE  MapsShape'
  BY <1>19, SMTT(60)
     DEF NotingFails, Unlocked, At, store, MapsShape, BeginInit, vars,
         fileVars, storeVars, frameVars, ghosts
<1> QED
  BY <1>1, <1>2, <1>3, <1>4, <1>5, <1>6, <1>7, <1>8, <1>9, <1>10, <1>11,
     <1>12, <1>13, <1>14, <1>15, <1>16, <1>17, <1>18, <1>19 DEF Next

\* The file's time goes up, and is seen or noted as it is
LEMMA TimesStep ==
    ASSUME JobsShape, TimesShape, [Next]_vars
    PROVE  TimesShape'
<1>1. ASSUME NEW w \in Calls, NEW o \in [store : Stores, kind : Kinds, id : Ids],
             CallInit(w, o)
      PROVE  TimesShape'
  BY <1>1, SMTT(60)
     DEF CallInit, BeginInit, At, Begin, store, TimesShape, JobsShape,
         Rests, Working, Jobs, vars, fileVars, storeVars, frameVars,
         ghosts
<1>2. ASSUME NEW w \in Calls, NEW o \in [store : Stores, kind : Kinds, id : Ids],
             CallStat(w, o)
      PROVE  TimesShape'
  BY <1>2, SMTT(60)
     DEF CallStat, At, Begin, store, TimesShape, BeginInit, JobsShape,
         Rests, Working, Jobs, vars, fileVars, storeVars, frameVars,
         ghosts
<1>3. ASSUME NEW w \in Calls, NEW o \in [store : Stores, kind : Kinds, id : Ids],
             CallDelete(w, o)
      PROVE  TimesShape'
  BY <1>3, SMTT(60)
     DEF CallDelete, Body, Change, At, Begin, store, TimesShape,
         BeginInit, JobsShape, Rests, Working, Jobs, vars, fileVars,
         storeVars, frameVars, ghosts
<1>4. ASSUME NEW w \in Calls, NEW o \in [store : Stores, kind : Kinds, id : Ids],
             CallFlush(w, o)
      PROVE  TimesShape'
  BY <1>4, SMTT(60)
     DEF CallFlush, BeginWrite, Written, At, Begin, store, TimesShape,
         BeginInit, JobsShape, Rests, Working, Jobs, vars, fileVars,
         storeVars, frameVars, ghosts
<1>5. ASSUME NEW w \in Calls, NEW o \in [store : Stores, kind : Kinds, id : Ids],
             CallExit(w, o)
      PROVE  TimesShape'
  BY <1>5, SMTT(60)
     DEF CallExit, Dies, Begin, store, TimesShape, BeginInit, JobsShape,
         Rests, Working, Jobs, vars, fileVars, storeVars, frameVars,
         ghosts
<1>6. ASSUME NEW w \in Flushers, NEW p \in Stores, Debounce(w, p)
      PROVE  TimesShape'
  BY <1>6, SMTT(60)
     DEF Debounce, BeginWrite, Written, At, Begin, store, TimesShape,
         BeginInit, JobsShape, Rests, Working, Jobs, vars, fileVars,
         storeVars, frameVars, ghosts
<1>7. ASSUME NEW w \in Jobs, CreateFile(w)
      PROVE  TimesShape'
  BY <1>7, SMTT(60)
     DEF CreateFile, At, store, TimesShape, BeginInit, JobsShape, Rests,
         Working, Jobs, vars, fileVars, storeVars, frameVars, ghosts
<1>8. ASSUME NEW w \in Jobs, Read(w)
      PROVE  TimesShape'
  BY <1>8, SMTT(60)
     DEF Read, Body, Change, At, store, TimesShape, BeginInit, JobsShape,
         Rests, Working, Jobs, vars, fileVars, storeVars, frameVars,
         ghosts
<1>9. ASSUME NEW w \in Jobs, StatUnchanged(w)
      PROVE  TimesShape'
  BY <1>9, SMTT(60)
     DEF StatUnchanged, Body, Change, At, store, FileChanged, TimesShape,
         BeginInit, JobsShape, Rests, Working, Jobs, vars, fileVars,
         storeVars, frameVars, ghosts
<1>10. ASSUME NEW w \in Jobs, StatChanged(w)
      PROVE  TimesShape'
  BY <1>10, SMTT(60)
     DEF StatChanged, BeginWrite, Written, BeginInit, At, store,
         FileChanged, TimesShape, JobsShape, Rests, Working, Jobs, vars,
         fileVars, storeVars, frameVars, ghosts
<1>11. ASSUME NEW w \in Jobs, Lock(w)
      PROVE  TimesShape'
  BY <1>11, SMTT(60)
     DEF Lock, At, store, TimesShape, BeginInit, JobsShape, Rests,
         Working, Jobs, vars, fileVars, storeVars, frameVars, ghosts
<1>12. ASSUME NEW w \in Jobs, Rename(w)
      PROVE  TimesShape'
  BY <1>12, SMTT(60)
     DEF Rename, At, store, TimesShape, BeginInit, JobsShape, Rests,
         Working, Jobs, vars, fileVars, storeVars, frameVars, ghosts
<1>13. ASSUME NEW w \in Jobs, Release(w)
      PROVE  TimesShape'
  BY <1>13, SMTT(60)
     DEF Release, Written, BeginInit, At, store, TimesShape, JobsShape,
         Rests, Working, Jobs, vars, fileVars, storeVars, frameVars,
         ghosts
<1>14. ASSUME NEW w \in Jobs, ReleaseAndExit(w)
      PROVE  TimesShape'
  BY <1>14, SMTT(60)
     DEF ReleaseAndExit, Dies, store, TimesShape, BeginInit, JobsShape,
         Rests, Working, Jobs, vars, fileVars, storeVars, frameVars,
         ghosts
<1>15. ASSUME NEW w \in Jobs, WriteFails(w)
      PROVE  TimesShape'
  BY <1>15, SMTT(60)
     DEF WriteFails, Unlocked, At, store, TimesShape, BeginInit,
         JobsShape, Rests, Working, Jobs, vars, fileVars, storeVars,
         frameVars, ghosts
<1>16. ASSUME NEW p \in Stores, Crash(p)
      PROVE  TimesShape'
  BY <1>16, SMTT(60)
     DEF Crash, Dies, store, TimesShape, BeginInit, JobsShape, Rests,
         Working, Jobs, vars, fileVars, storeVars, frameVars, ghosts
<1>17. CASE UNCHANGED vars
  BY <1>17, SMTT(60)
     DEF TimesShape, BeginInit, JobsShape, Rests, Working, Jobs, vars,
         fileVars, storeVars, frameVars, ghosts
<1>18. ASSUME NEW w \in Jobs, ReadFails(w)
      PROVE  TimesShape'
  BY <1>18, SMTT(60)
     DEF ReadFails, At, store, TimesShape, BeginInit,
         JobsShape, Rests, Working, Jobs, vars, fileVars, storeVars,
         frameVars, ghosts
<1>19. ASSUME NEW w \in Jobs, NEW noted \in BOOLEAN, NotingFails(w, noted)
      PROVE  TimesShape'
  BY <1>19, SMTT(60)
     DEF NotingFails, Unlocked, At, store, TimesShape, BeginInit,
         JobsShape, Rests, Working, Jobs, vars, fileVars, storeVars,
         frameVars, ghosts
<1> QED
  BY <1>1, <1>2, <1>3, <1>4, <1>5, <1>6, <1>7, <1>8, <1>9, <1>10, <1>11,
     <1>12, <1>13, <1>14, <1>15, <1>16, <1>17, <1>18, <1>19 DEF Next

\* The lock is taken on the way to the write and left on every way out
LEMMA LockStep ==
    ASSUME JobsShape, LockIsTheWriters, [Next]_vars
    PROVE  LockIsTheWriters'
<1>1. ASSUME NEW w \in Calls, NEW o \in [store : Stores, kind : Kinds, id : Ids],
             CallInit(w, o)
      PROVE  LockIsTheWriters'
  BY <1>1, WriterAssumption, SMTT(60)
     DEF CallInit, BeginInit, At, Begin, store, JobsShape, Rests, Working,
         Jobs, LockIsTheWriters, Active, Busy, vars, fileVars, storeVars,
         frameVars, ghosts
<1>2. ASSUME NEW w \in Calls, NEW o \in [store : Stores, kind : Kinds, id : Ids],
             CallStat(w, o)
      PROVE  LockIsTheWriters'
  BY <1>2, WriterAssumption, SMTT(60)
     DEF CallStat, At, Begin, store, JobsShape, Rests, Working, Jobs,
         LockIsTheWriters, Active, Busy, BeginInit, vars, fileVars,
         storeVars, frameVars, ghosts
<1>3. ASSUME NEW w \in Calls, NEW o \in [store : Stores, kind : Kinds, id : Ids],
             CallDelete(w, o)
      PROVE  LockIsTheWriters'
  BY <1>3, WriterAssumption, SMTT(60)
     DEF CallDelete, Body, Change, At, Begin, store, JobsShape, Rests,
         Working, Jobs, LockIsTheWriters, Active, Busy, BeginInit, vars,
         fileVars, storeVars, frameVars, ghosts
<1>4. ASSUME NEW w \in Calls, NEW o \in [store : Stores, kind : Kinds, id : Ids],
             CallFlush(w, o)
      PROVE  LockIsTheWriters'
  BY <1>4, WriterAssumption, SMTT(60)
     DEF CallFlush, BeginWrite, Written, At, Begin, store, JobsShape,
         Rests, Working, Jobs, LockIsTheWriters, Active, Busy, BeginInit,
         vars, fileVars, storeVars, frameVars, ghosts
<1>5. ASSUME NEW w \in Calls, NEW o \in [store : Stores, kind : Kinds, id : Ids],
             CallExit(w, o)
      PROVE  LockIsTheWriters'
  BY <1>5, WriterAssumption, SMTT(60)
     DEF CallExit, Dies, Begin, store, JobsShape, Rests, Working, Jobs,
         LockIsTheWriters, Active, Busy, BeginInit, vars, fileVars,
         storeVars, frameVars, ghosts
<1>6. ASSUME NEW w \in Flushers, NEW p \in Stores, Debounce(w, p)
      PROVE  LockIsTheWriters'
  BY <1>6, WriterAssumption, SMTT(60)
     DEF Debounce, BeginWrite, Written, At, Begin, store, JobsShape,
         Rests, Working, Jobs, LockIsTheWriters, Active, Busy, BeginInit,
         vars, fileVars, storeVars, frameVars, ghosts
<1>7. ASSUME NEW w \in Jobs, CreateFile(w)
      PROVE  LockIsTheWriters'
  BY <1>7, WriterAssumption, SMTT(60)
     DEF CreateFile, At, store, JobsShape, Rests, Working, Jobs,
         LockIsTheWriters, Active, Busy, BeginInit, vars, fileVars,
         storeVars, frameVars, ghosts
<1>8. ASSUME NEW w \in Jobs, Read(w)
      PROVE  LockIsTheWriters'
  BY <1>8, WriterAssumption, SMTT(60)
     DEF Read, Body, Change, At, store, JobsShape, Rests, Working, Jobs,
         LockIsTheWriters, Active, Busy, BeginInit, vars, fileVars,
         storeVars, frameVars, ghosts
<1>9. ASSUME NEW w \in Jobs, StatUnchanged(w)
      PROVE  LockIsTheWriters'
  BY <1>9, WriterAssumption, SMTT(60)
     DEF StatUnchanged, Body, Change, At, store, FileChanged, JobsShape,
         Rests, Working, Jobs, LockIsTheWriters, Active, Busy, BeginInit,
         vars, fileVars, storeVars, frameVars, ghosts
<1>10. ASSUME NEW w \in Jobs, StatChanged(w)
      PROVE  LockIsTheWriters'
  BY <1>10, WriterAssumption, SMTT(60)
     DEF StatChanged, BeginWrite, Written, BeginInit, At, store,
         FileChanged, JobsShape, Rests, Working, Jobs, LockIsTheWriters,
         Active, Busy, vars, fileVars, storeVars, frameVars, ghosts
<1>11. ASSUME NEW w \in Jobs, Lock(w)
      PROVE  LockIsTheWriters'
  BY <1>11, WriterAssumption, SMTT(60)
     DEF Lock, At, store, JobsShape, Rests, Working, Jobs,
         LockIsTheWriters, Active, Busy, BeginInit, vars, fileVars,
         storeVars, frameVars, ghosts
<1>12. ASSUME NEW w \in Jobs, Rename(w)
      PROVE  LockIsTheWriters'
  BY <1>12, WriterAssumption, SMTT(60)
     DEF Rename, At, store, JobsShape, Rests, Working, Jobs,
         LockIsTheWriters, Active, Busy, BeginInit, vars, fileVars,
         storeVars, frameVars, ghosts
<1>13. ASSUME NEW w \in Jobs, Release(w)
      PROVE  LockIsTheWriters'
  BY <1>13, WriterAssumption, SMTT(60)
     DEF Release, Written, BeginInit, At, store, JobsShape, Rests,
         Working, Jobs, LockIsTheWriters, Active, Busy, vars, fileVars,
         storeVars, frameVars, ghosts
<1>14. ASSUME NEW w \in Jobs, ReleaseAndExit(w)
      PROVE  LockIsTheWriters'
  BY <1>14, WriterAssumption, SMTT(60)
     DEF ReleaseAndExit, Dies, store, JobsShape, Rests, Working, Jobs,
         LockIsTheWriters, Active, Busy, BeginInit, vars, fileVars,
         storeVars, frameVars, ghosts
<1>15. ASSUME NEW w \in Jobs, WriteFails(w)
      PROVE  LockIsTheWriters'
  BY <1>15, WriterAssumption, SMTT(60)
     DEF WriteFails, Unlocked, At, store, JobsShape, Rests, Working, Jobs,
         LockIsTheWriters, Active, Busy, BeginInit, vars, fileVars,
         storeVars, frameVars, ghosts
<1>16. ASSUME NEW p \in Stores, Crash(p)
      PROVE  LockIsTheWriters'
  BY <1>16, WriterAssumption, SMTT(60)
     DEF Crash, Dies, store, JobsShape, Rests, Working, Jobs,
         LockIsTheWriters, Active, Busy, BeginInit, vars, fileVars,
         storeVars, frameVars, ghosts
<1>17. CASE UNCHANGED vars
  BY <1>17, WriterAssumption, SMTT(60)
     DEF JobsShape, Rests, Working, Jobs, LockIsTheWriters, Active, Busy,
         BeginInit, vars, fileVars, storeVars, frameVars, ghosts
<1>18. ASSUME NEW w \in Jobs, ReadFails(w)
      PROVE  LockIsTheWriters'
  BY <1>18, WriterAssumption, SMTT(60)
     DEF ReadFails, At, store, JobsShape, Rests, Working, Jobs,
         LockIsTheWriters, Active, Busy, BeginInit, vars, fileVars,
         storeVars, frameVars, ghosts
<1>19. ASSUME NEW w \in Jobs, NEW noted \in BOOLEAN, NotingFails(w, noted)
      PROVE  LockIsTheWriters'
  BY <1>19, WriterAssumption, SMTT(60)
     DEF NotingFails, Unlocked, At, store, JobsShape, Rests, Working, Jobs,
         LockIsTheWriters, Active, Busy, BeginInit, vars, fileVars,
         storeVars, frameVars, ghosts
<1> QED
  BY <1>1, <1>2, <1>3, <1>4, <1>5, <1>6, <1>7, <1>8, <1>9, <1>10, <1>11,
     <1>12, <1>13, <1>14, <1>15, <1>16, <1>17, <1>18, <1>19 DEF Next

\* Nothing is known of any record before there is a file
NothingBefore ==
    ~exists =>
        /\ file = NoRecords
        /\ \A p \in Stores : ~dirty[p] /\ recordMap[p] = NoRecords
        /\ \A w \in Jobs : pc[w] \in Rests \cup {"creating"}

\* The file is there before anything of it is read or changed
LEMMA NothingBeforeStep ==
    ASSUME JobsShape, MapsShape, FlagsShape, NothingBefore, [Next]_vars
    PROVE  NothingBefore'
<1>1. ASSUME NEW w \in Calls, NEW o \in [store : Stores, kind : Kinds, id : Ids],
             CallInit(w, o)
      PROVE  NothingBefore'
  BY <1>1, SMTT(60)
     DEF CallInit, BeginInit, At, Begin, store, JobsShape, Rests, Working,
         Jobs, MapsShape, FlagsShape, NothingBefore, Active, Busy, vars,
         fileVars, storeVars, frameVars, ghosts
<1>2. ASSUME NEW w \in Calls, NEW o \in [store : Stores, kind : Kinds, id : Ids],
             CallStat(w, o)
      PROVE  NothingBefore'
  BY <1>2, SMTT(60)
     DEF CallStat, At, Begin, store, JobsShape, Rests, Working, Jobs,
         MapsShape, FlagsShape, NothingBefore, BeginInit, Active, Busy,
         vars, fileVars, storeVars, frameVars, ghosts
<1>3. ASSUME NEW w \in Calls, NEW o \in [store : Stores, kind : Kinds, id : Ids],
             CallDelete(w, o)
      PROVE  NothingBefore'
  BY <1>3, SMTT(60)
     DEF CallDelete, Body, Change, At, Begin, store, JobsShape, Rests,
         Working, Jobs, MapsShape, FlagsShape, NothingBefore, BeginInit,
         Active, Busy, vars, fileVars, storeVars, frameVars, ghosts
<1>4. ASSUME NEW w \in Calls, NEW o \in [store : Stores, kind : Kinds, id : Ids],
             CallFlush(w, o)
      PROVE  NothingBefore'
  BY <1>4, SMTT(60)
     DEF CallFlush, BeginWrite, Written, At, Begin, store, JobsShape,
         Rests, Working, Jobs, MapsShape, FlagsShape, NothingBefore,
         BeginInit, Active, Busy, vars, fileVars, storeVars, frameVars,
         ghosts
<1>5. ASSUME NEW w \in Calls, NEW o \in [store : Stores, kind : Kinds, id : Ids],
             CallExit(w, o)
      PROVE  NothingBefore'
  BY <1>5, SMTT(60)
     DEF CallExit, Dies, Begin, store, JobsShape, Rests, Working, Jobs,
         MapsShape, FlagsShape, NothingBefore, BeginInit, Active, Busy,
         vars, fileVars, storeVars, frameVars, ghosts
<1>6. ASSUME NEW w \in Flushers, NEW p \in Stores, Debounce(w, p)
      PROVE  NothingBefore'
  BY <1>6, SMTT(60)
     DEF Debounce, BeginWrite, Written, At, Begin, store, JobsShape,
         Rests, Working, Jobs, MapsShape, FlagsShape, NothingBefore,
         BeginInit, Active, Busy, vars, fileVars, storeVars, frameVars,
         ghosts
<1>7. ASSUME NEW w \in Jobs, CreateFile(w)
      PROVE  NothingBefore'
  BY <1>7, SMTT(60)
     DEF CreateFile, At, store, JobsShape, Rests, Working, Jobs,
         MapsShape, FlagsShape, NothingBefore, BeginInit, Active, Busy,
         vars, fileVars, storeVars, frameVars, ghosts
<1>8. ASSUME NEW w \in Jobs, Read(w)
      PROVE  NothingBefore'
  BY <1>8, SMTT(60)
     DEF Read, Body, Change, At, store, JobsShape, Rests, Working, Jobs,
         MapsShape, FlagsShape, NothingBefore, BeginInit, Active, Busy,
         vars, fileVars, storeVars, frameVars, ghosts
<1>9. ASSUME NEW w \in Jobs, StatUnchanged(w)
      PROVE  NothingBefore'
  BY <1>9, SMTT(60)
     DEF StatUnchanged, Body, Change, At, store, FileChanged, JobsShape,
         Rests, Working, Jobs, MapsShape, FlagsShape, NothingBefore,
         BeginInit, Active, Busy, vars, fileVars, storeVars, frameVars,
         ghosts
<1>10. ASSUME NEW w \in Jobs, StatChanged(w)
      PROVE  NothingBefore'
  BY <1>10, SMTT(60)
     DEF StatChanged, BeginWrite, Written, BeginInit, At, store,
         FileChanged, JobsShape, Rests, Working, Jobs, MapsShape,
         FlagsShape, NothingBefore, Active, Busy, vars, fileVars,
         storeVars, frameVars, ghosts
<1>11. ASSUME NEW w \in Jobs, Lock(w)
      PROVE  NothingBefore'
  BY <1>11, SMTT(60)
     DEF Lock, At, store, JobsShape, Rests, Working, Jobs, MapsShape,
         FlagsShape, NothingBefore, BeginInit, Active, Busy, vars,
         fileVars, storeVars, frameVars, ghosts
<1>12. ASSUME NEW w \in Jobs, Rename(w)
      PROVE  NothingBefore'
  BY <1>12, SMTT(60)
     DEF Rename, At, store, JobsShape, Rests, Working, Jobs, MapsShape,
         FlagsShape, NothingBefore, BeginInit, Active, Busy, vars,
         fileVars, storeVars, frameVars, ghosts
<1>13. ASSUME NEW w \in Jobs, Release(w)
      PROVE  NothingBefore'
  BY <1>13, SMTT(60)
     DEF Release, Written, BeginInit, At, store, JobsShape, Rests,
         Working, Jobs, MapsShape, FlagsShape, NothingBefore, Active,
         Busy, vars, fileVars, storeVars, frameVars, ghosts
<1>14. ASSUME NEW w \in Jobs, ReleaseAndExit(w)
      PROVE  NothingBefore'
  BY <1>14, SMTT(60)
     DEF ReleaseAndExit, Dies, store, JobsShape, Rests, Working, Jobs,
         MapsShape, FlagsShape, NothingBefore, BeginInit, Active, Busy,
         vars, fileVars, storeVars, frameVars, ghosts
<1>15. ASSUME NEW w \in Jobs, WriteFails(w)
      PROVE  NothingBefore'
  BY <1>15, SMTT(60)
     DEF WriteFails, Unlocked, At, store, JobsShape, Rests, Working, Jobs,
         MapsShape, FlagsShape, NothingBefore, BeginInit, Active, Busy,
         vars, fileVars, storeVars, frameVars, ghosts
<1>16. ASSUME NEW p \in Stores, Crash(p)
      PROVE  NothingBefore'
  BY <1>16, SMTT(60)
     DEF Crash, Dies, store, JobsShape, Rests, Working, Jobs, MapsShape,
         FlagsShape, NothingBefore, BeginInit, Active, Busy, vars,
         fileVars, storeVars, frameVars, ghosts
<1>17. CASE UNCHANGED vars
  BY <1>17, SMTT(60)
     DEF JobsShape, Rests, Working, Jobs, MapsShape, FlagsShape,
         NothingBefore, BeginInit, Active, Busy, vars, fileVars,
         storeVars, frameVars, ghosts
<1>18. ASSUME NEW w \in Jobs, ReadFails(w)
      PROVE  NothingBefore'
  BY <1>18, SMTT(60)
     DEF ReadFails, At, store, JobsShape, Rests, Working, Jobs,
         MapsShape, FlagsShape, NothingBefore, BeginInit, Active, Busy,
         vars, fileVars, storeVars, frameVars, ghosts
<1>19. ASSUME NEW w \in Jobs, NEW noted \in BOOLEAN, NotingFails(w, noted)
      PROVE  NothingBefore'
  BY <1>19, SMTT(60)
     DEF NotingFails, Unlocked, At, store, JobsShape, Rests, Working, Jobs,
         MapsShape, FlagsShape, NothingBefore, BeginInit, Active, Busy,
         vars, fileVars, storeVars, frameVars, ghosts
<1> QED
  BY <1>1, <1>2, <1>3, <1>4, <1>5, <1>6, <1>7, <1>8, <1>9, <1>10, <1>11,
     <1>12, <1>13, <1>14, <1>15, <1>16, <1>17, <1>18, <1>19 DEF Next

\* Without an overlap a store works at one job at a time
Alone ==
    "overlap" \notin history =>
        \A v, w \in Jobs : /\ pc[v] \in Working /\ pc[w] \in Working
                           /\ op[v].store = op[w].store
                           => v = w

\* A job begins beside another of its store only in an overlap
LEMMA AloneStep ==
    ASSUME JobsShape, Alone, [Next]_vars
    PROVE  Alone'
<1>1. ASSUME NEW w \in Calls, NEW o \in [store : Stores, kind : Kinds, id : Ids],
             CallInit(w, o)
      PROVE  Alone'
  BY <1>1, SMTT(60)
     DEF CallInit, BeginInit, At, Begin, store, JobsShape, Rests, Working,
         Jobs, Alone, Active, Busy, Disturbs, Outdated, Empties, Drops, vars,
         fileVars, storeVars, frameVars, ghosts
<1>2. ASSUME NEW w \in Calls, NEW o \in [store : Stores, kind : Kinds, id : Ids],
             CallStat(w, o)
      PROVE  Alone'
  BY <1>2, SMTT(60)
     DEF CallStat, At, Begin, store, JobsShape, Rests, Working, Jobs,
         Alone, BeginInit, Active, Busy, Disturbs, Outdated, Empties, Drops,
         vars, fileVars, storeVars, frameVars, ghosts
<1>3. ASSUME NEW w \in Calls, NEW o \in [store : Stores, kind : Kinds, id : Ids],
             CallDelete(w, o)
      PROVE  Alone'
  BY <1>3, SMTT(60)
     DEF CallDelete, Body, Change, At, Begin, store, JobsShape, Rests,
         Working, Jobs, Alone, BeginInit, Active, Busy, Disturbs,
         Outdated, Empties, Drops, vars, fileVars, storeVars, frameVars, ghosts
<1>4. ASSUME NEW w \in Calls, NEW o \in [store : Stores, kind : Kinds, id : Ids],
             CallFlush(w, o)
      PROVE  Alone'
  BY <1>4, SMTT(60)
     DEF CallFlush, BeginWrite, Written, At, Begin, store, JobsShape,
         Rests, Working, Jobs, Alone, BeginInit, Active, Busy, Disturbs,
         Outdated, Empties, Drops, vars, fileVars, storeVars, frameVars, ghosts
<1>5. ASSUME NEW w \in Calls, NEW o \in [store : Stores, kind : Kinds, id : Ids],
             CallExit(w, o)
      PROVE  Alone'
  BY <1>5, SMTT(60)
     DEF CallExit, Dies, Begin, store, JobsShape, Rests, Working, Jobs,
         Alone, BeginInit, Active, Busy, Disturbs, Outdated, Empties, Drops,
         vars, fileVars, storeVars, frameVars, ghosts
<1>6. ASSUME NEW w \in Flushers, NEW p \in Stores, Debounce(w, p)
      PROVE  Alone'
  BY <1>6, SMTT(60)
     DEF Debounce, BeginWrite, Written, At, Begin, store, JobsShape,
         Rests, Working, Jobs, Alone, BeginInit, Active, Busy, Disturbs,
         Outdated, Empties, Drops, vars, fileVars, storeVars, frameVars, ghosts
<1>7. ASSUME NEW w \in Jobs, CreateFile(w)
      PROVE  Alone'
  BY <1>7, SMTT(60)
     DEF CreateFile, At, store, JobsShape, Rests, Working, Jobs, Alone,
         BeginInit, Active, Busy, Disturbs, Outdated, Empties, Drops, vars,
         fileVars, storeVars, frameVars, ghosts
<1>8. ASSUME NEW w \in Jobs, Read(w)
      PROVE  Alone'
  BY <1>8, SMTT(60)
     DEF Read, Body, Change, At, store, JobsShape, Rests, Working, Jobs,
         Alone, BeginInit, Active, Busy, Disturbs, Outdated, Empties, Drops,
         vars, fileVars, storeVars, frameVars, ghosts
<1>9. ASSUME NEW w \in Jobs, StatUnchanged(w)
      PROVE  Alone'
  BY <1>9, SMTT(60)
     DEF StatUnchanged, Body, Change, At, store, FileChanged, JobsShape,
         Rests, Working, Jobs, Alone, BeginInit, Active, Busy, Disturbs,
         Outdated, Empties, Drops, vars, fileVars, storeVars, frameVars, ghosts
<1>10. ASSUME NEW w \in Jobs, StatChanged(w)
      PROVE  Alone'
  BY <1>10, SMTT(60)
     DEF StatChanged, BeginWrite, Written, BeginInit, At, store,
         FileChanged, JobsShape, Rests, Working, Jobs, Alone, Active,
         Busy, Disturbs, Outdated, Empties, Drops, vars, fileVars, storeVars,
         frameVars, ghosts
<1>11. ASSUME NEW w \in Jobs, Lock(w)
      PROVE  Alone'
  BY <1>11, SMTT(60)
     DEF Lock, At, store, JobsShape, Rests, Working, Jobs, Alone,
         BeginInit, Active, Busy, Disturbs, Outdated, Empties, Drops, vars,
         fileVars, storeVars, frameVars, ghosts
<1>12. ASSUME NEW w \in Jobs, Rename(w)
      PROVE  Alone'
  BY <1>12, SMTT(60)
     DEF Rename, At, store, JobsShape, Rests, Working, Jobs, Alone,
         BeginInit, Active, Busy, Disturbs, Outdated, Empties, Drops, vars,
         fileVars, storeVars, frameVars, ghosts
<1>13. ASSUME NEW w \in Jobs, Release(w)
      PROVE  Alone'
  BY <1>13, SMTT(60)
     DEF Release, Written, BeginInit, At, store, JobsShape, Rests,
         Working, Jobs, Alone, Active, Busy, Disturbs, Outdated, Empties, Drops,
         vars, fileVars, storeVars, frameVars, ghosts
<1>14. ASSUME NEW w \in Jobs, ReleaseAndExit(w)
      PROVE  Alone'
  BY <1>14, SMTT(60)
     DEF ReleaseAndExit, Dies, store, JobsShape, Rests, Working, Jobs,
         Alone, BeginInit, Active, Busy, Disturbs, Outdated, Empties, Drops,
         vars, fileVars, storeVars, frameVars, ghosts
<1>15. ASSUME NEW w \in Jobs, WriteFails(w)
      PROVE  Alone'
  BY <1>15, SMTT(60)
     DEF WriteFails, Unlocked, At, store, JobsShape, Rests, Working, Jobs,
         Alone, BeginInit, Active, Busy, Disturbs, Outdated, Empties, Drops,
         vars, fileVars, storeVars, frameVars, ghosts
<1>16. ASSUME NEW p \in Stores, Crash(p)
      PROVE  Alone'
  BY <1>16, SMTT(60)
     DEF Crash, Dies, store, JobsShape, Rests, Working, Jobs, Alone,
         BeginInit, Active, Busy, Disturbs, Outdated, Empties, Drops, vars,
         fileVars, storeVars, frameVars, ghosts
<1>17. CASE UNCHANGED vars
  BY <1>17, SMTT(60)
     DEF JobsShape, Rests, Working, Jobs, Alone, BeginInit, Active, Busy,
         Disturbs, Outdated, Empties, Drops, vars, fileVars, storeVars,
         frameVars, ghosts
<1>18. ASSUME NEW w \in Jobs, ReadFails(w)
      PROVE  Alone'
  BY <1>18, SMTT(60)
     DEF ReadFails, At, store, JobsShape, Rests, Working, Jobs,
         Alone, BeginInit, Active, Busy, Disturbs, Outdated, Empties, Drops,
         vars, fileVars, storeVars, frameVars, ghosts
<1>19. ASSUME NEW w \in Jobs, NEW noted \in BOOLEAN, NotingFails(w, noted)
      PROVE  Alone'
  BY <1>19, SMTT(60)
     DEF NotingFails, Unlocked, At, store, JobsShape, Rests, Working, Jobs,
         Alone, BeginInit, Active, Busy, Disturbs, Outdated, Empties, Drops,
         vars, fileVars, storeVars, frameVars, ghosts
<1> QED
  BY <1>1, <1>2, <1>3, <1>4, <1>5, <1>6, <1>7, <1>8, <1>9, <1>10, <1>11,
     <1>12, <1>13, <1>14, <1>15, <1>16, <1>17, <1>18, <1>19 DEF Next

\* What is left when the process of a store ends
LEMMA DiesEffect ==
    ASSUME JobsShape, MapsShape, FlagsShape, TimesShape,
           NEW p \in Stores, NEW gone, Dies(p, gone)
    PROVE  /\ \A v \in Jobs : \/ pc'[v] = "dead" /\ (v \in gone \/ op[v].store = p)
                              \/ /\ pc'[v] = pc[v] /\ v \notin gone
                                 /\ pc[v] \in Working => op[v].store # p
           /\ \A q \in Stores : q # p =>
                 /\ recordMap'[q] = recordMap[q] /\ dirty'[q] = dirty[q]
                 /\ lastChangedMtime'[q] = lastChangedMtime[q]
           /\ recordMap'[p] = NoRecords /\ dirty'[p] = FALSE
           /\ lastChangedMtime'[p] = 0
BY SMTT(60) DEF Dies, Busy, Active, store, JobsShape, MapsShape, FlagsShape,
   TimesShape, Rests, Working

\* What begins when nothing is disturbed
LEMMA BeginsAlone ==
    ASSUME JobsShape, FlagsShape, NEW w \in Jobs, NEW o, o.store \in Stores,
           NEW also, Begin(w, o, also)
    PROVE  /\ history \subseteq history' /\ also \subseteq history'
           /\ pc[w] = "idle" /\ op' = [op EXCEPT ![w] = o]
           /\ UNCHANGED fileVars /\ UNCHANGED contents /\ UNCHANGED unsaved
           /\ "emptied" \notin history' =>
                 (dirty'[o.store] => recordMap'[o.store] # NoRecords)
           /\ "overlap" \notin history' =>
                 \A v \in Jobs : pc[v] \in Working => op[v].store # o.store
           /\ "contention" \notin history' =>
                 /\ \A v \in Jobs : pc[v] \in Working => op[v].store = o.store
                 /\ \A q \in Stores : dirty[q] \/ q \in unsaved => q = o.store
<1>1. /\ history \subseteq history' /\ also \subseteq history'
      /\ pc[w] = "idle" /\ op' = [op EXCEPT ![w] = o]
      /\ UNCHANGED fileVars /\ UNCHANGED contents /\ UNCHANGED unsaved
      /\ Disturbs(o.store) \subseteq history'
      /\ Empties(o.store, recordMap'[o.store]) \subseteq history'
  BY DEF Begin
<1>2. ASSUME "overlap" \notin history', NEW v \in Jobs, pc[v] \in Working
      PROVE  op[v].store # o.store
  <2>1. Busy(o.store) = {}
    BY <1>1, <1>2 DEF Disturbs
  <2> QED
    BY <1>2, <2>1 DEF Busy, Active, store, Working
<1>3. ASSUME "contention" \notin history', NEW q \in Stores, q # o.store
      PROVE  Busy(q) = {} /\ ~dirty[q] /\ q \notin unsaved
  BY <1>1, <1>3 DEF Disturbs
<1>4. ASSUME "contention" \notin history', NEW v \in Jobs, pc[v] \in Working
      PROVE  op[v].store = o.store
  <2>1. op[v].store \in Stores /\ v \in Busy(op[v].store)
    BY <1>4 DEF Busy, Active, store, Working, JobsShape
  <2> QED
    BY <1>3, <1>4, <2>1
<1>5. ASSUME "emptied" \notin history', dirty'[o.store]
      PROVE  recordMap'[o.store] # NoRecords
  BY <1>1, <1>5 DEF Empties
<1> QED
  BY <1>1, <1>2, <1>3, <1>4, <1>5

\* Unless jobs of a store overlap, or init() takes a file for missing that is
\* not: who remembers the file's time, has no change to write and neither reads
\* nor writes, has the file's records or none; who reads has none; what is
\* written is the Map, until it is the file
Cached ==
    history \cap {"overlap", "erased"} = {} =>
        /\ \A p \in Stores :
              /\ p \notin unsaved /\ lastChangedMtime[p] = mtime /\ ~dirty[p]
              /\ \A w \in Jobs : pc[w] \in Working /\ op[w].store = p
                                 => pc[w] = "stat"
              => recordMap[p] \in {file, NoRecords}
        /\ \A w \in Jobs : pc[w] \in {"creating", "reading"} =>
              recordMap[op[w].store] = NoRecords
        /\ \A w \in Jobs : pc[w] = "writing" =>
              contents[w] = recordMap[op[w].store]
        /\ \A w \in Jobs : pc[w] = "renamed" => file = recordMap[op[w].store]

\* The steps that change a Map, the file or a time keep the Map of a store
\* at rest and the file together
LEMMA CachedStep ==
    ASSUME JobsShape, MapsShape, FlagsShape, TimesShape, NothingBefore, Alone,
           LockIsTheWriters, Cached, [Next]_vars
    PROVE  Cached'
<1>1. ASSUME NEW w \in Calls, NEW o \in [store : Stores, kind : Kinds, id : Ids],
             CallInit(w, o)
      PROVE  Cached'
  BY <1>1, SMTT(60)
     DEF CallInit, BeginInit, At, Begin, store, JobsShape, Rests, Working,
         Jobs, MapsShape, FlagsShape, TimesShape, NothingBefore, Alone,
         LockIsTheWriters, Active, Busy, Disturbs, Outdated, Empties, Drops,
         Cached, vars, fileVars, storeVars, frameVars, ghosts
<1>2. ASSUME NEW w \in Calls, NEW o \in [store : Stores, kind : Kinds, id : Ids],
             CallStat(w, o)
      PROVE  Cached'
  BY <1>2, SMTT(60)
     DEF CallStat, At, Begin, store, JobsShape, Rests, Working, Jobs,
         MapsShape, FlagsShape, TimesShape, NothingBefore, Alone,
         LockIsTheWriters, BeginInit, Active, Busy, Disturbs, Outdated,
         Empties, Drops, Cached, vars, fileVars, storeVars, frameVars, ghosts
<1>3. ASSUME NEW w \in Calls, NEW o \in [store : Stores, kind : Kinds, id : Ids],
             CallDelete(w, o)
      PROVE  Cached'
  <2>0. o.store \in Stores /\ Body(w, o, recordMap[o.store])
    BY <1>3 DEF CallDelete
  <2>1. /\ history \subseteq history'
        /\ "overlap" \notin history' =>
              \A v \in Jobs : pc[v] \in Working => op[v].store # o.store
        /\ pc[w] = "idle" /\ op' = [op EXCEPT ![w] = o]
        /\ UNCHANGED <<file, mtime, contents, lastChangedMtime, unsaved>>
    BY <1>3, BeginsAlone DEF CallDelete, Jobs, fileVars
  <2>2. /\ pc' = [pc EXCEPT ![w] = "done"]
        /\ \A q \in Stores : q # o.store =>
              recordMap'[q] = recordMap[q] /\ dirty'[q] = dirty[q]
        /\ \/ dirty'[o.store] = TRUE
           \/ recordMap'[o.store] = recordMap[o.store]
              /\ dirty'[o.store] = dirty[o.store]
    BY <2>0 DEF Body, Change, At, MapsShape, FlagsShape
  <2>3. \A v \in Jobs : pc'[v] \in Working =>
            v # w /\ pc'[v] = pc[v] /\ op'[v] = op[v] /\ op[v].store \in Stores
    BY <2>1, <2>2 DEF JobsShape, Working
  <2>4. ASSUME history' \cap {"overlap", "erased"} = {},
               NEW q \in Stores, q \notin unsaved', lastChangedMtime'[q] = mtime', ~dirty'[q],
               \A v \in Jobs : pc'[v] \in Working /\ op'[v].store = q
                               => pc'[v] = "stat"
        PROVE  recordMap'[q] \in {file', NoRecords}
    <3>1. \A v \in Jobs : pc[v] \in Working /\ op[v].store = q => pc[v] = "stat"
      BY <2>1, <2>2, <2>4 DEF JobsShape, Working
    <3> QED
      BY <2>1, <2>2, <2>4, <3>1 DEF Cached
  <2> QED
    BY <2>1, <2>2, <2>3, <2>4 DEF Cached, Working
<1>4. ASSUME NEW w \in Calls, NEW o \in [store : Stores, kind : Kinds, id : Ids],
             CallFlush(w, o)
      PROVE  Cached'
  BY <1>4, SMTT(60)
     DEF CallFlush, BeginWrite, Written, At, Begin, store, JobsShape,
         Rests, Working, Jobs, MapsShape, FlagsShape, TimesShape,
         NothingBefore, Alone, LockIsTheWriters, BeginInit, Active, Busy,
         Disturbs, Outdated, Empties, Drops, Cached, vars, fileVars, storeVars,
         frameVars, ghosts
<1>5. ASSUME NEW w \in Calls, NEW o \in [store : Stores, kind : Kinds, id : Ids],
             CallExit(w, o)
      PROVE  Cached'
  <2>0. Dies(o.store, {w})
    BY <1>5 DEF CallExit
  <2>1. /\ \A v \in Jobs : \/ pc'[v] = "dead" /\ (v \in {w} \/ op[v].store = o.store)
                           \/ /\ pc'[v] = pc[v] /\ v \notin {w}
                              /\ pc[v] \in Working => op[v].store # o.store
        /\ \A q \in Stores : q # o.store =>
              /\ recordMap'[q] = recordMap[q] /\ dirty'[q] = dirty[q]
              /\ lastChangedMtime'[q] = lastChangedMtime[q]
        /\ recordMap'[o.store] = NoRecords /\ dirty'[o.store] = FALSE
        /\ lastChangedMtime'[o.store] = 0
    BY <2>0, DiesEffect
  <2>2. /\ history \subseteq history' /\ op' = [op EXCEPT ![w] = o]
        /\ pc[w] = "idle" /\ UNCHANGED <<file, mtime, contents, unsaved>>
    BY <1>5, BeginsAlone DEF CallExit, Jobs, fileVars
  <2>3. \A v \in Jobs : pc'[v] \in Working =>
            pc'[v] = pc[v] /\ op'[v] = op[v] /\ op[v].store # o.store
            /\ op[v].store \in Stores
    BY <2>1, <2>2 DEF JobsShape, Working
  <2>4. ASSUME history' \cap {"overlap", "erased"} = {},
               NEW q \in Stores, q \notin unsaved', lastChangedMtime'[q] = mtime', ~dirty'[q],
               \A v \in Jobs : pc'[v] \in Working /\ op'[v].store = q
                               => pc'[v] = "stat"
        PROVE  recordMap'[q] \in {file', NoRecords}
    <3>1. q # o.store
      BY <2>1, <2>2, <2>4 DEF TimesShape
    <3>2. \A v \in Jobs : pc[v] \in Working /\ op[v].store = q => pc'[v] = pc[v]
      BY <2>1, <2>2, <3>1 DEF Working
    <3>3. \A v \in Jobs : pc[v] \in Working /\ op[v].store = q => pc[v] = "stat"
      BY <2>2, <2>3, <2>4, <3>2
    <3> QED
      BY <2>1, <2>2, <2>4, <3>1, <3>3 DEF Cached
  <2> QED
    BY <2>1, <2>2, <2>3, <2>4 DEF Cached, Working
<1>6. ASSUME NEW w \in Flushers, NEW p \in Stores, Debounce(w, p)
      PROVE  Cached'
  BY <1>6, SMTT(60)
     DEF Debounce, BeginWrite, Written, At, Begin, store, JobsShape,
         Rests, Working, Jobs, MapsShape, FlagsShape, TimesShape,
         NothingBefore, Alone, LockIsTheWriters, BeginInit, Active, Busy,
         Disturbs, Outdated, Empties, Drops, Cached, vars, fileVars, storeVars,
         frameVars, ghosts
<1>7. ASSUME NEW w \in Jobs, CreateFile(w)
      PROVE  Cached'
  <2>1. CASE exists
    BY <1>7, <2>1 DEF CreateFile, Cached
  <2>2. CASE ~exists
    <3>1. /\ \A v \in Jobs : pc'[v] \notin {"writing", "renamed"}
          /\ mtime' = mtime + 1 /\ UNCHANGED lastChangedMtime
      BY <1>7, <2>2 DEF CreateFile, At, NothingBefore, Rests, JobsShape, storeVars
    <3>2. \A p \in Stores : lastChangedMtime'[p] # mtime'
      BY <3>1 DEF TimesShape
    <3>3. \A v \in Jobs : pc'[v] \in {"creating", "reading"} =>
             recordMap'[op'[v].store] = NoRecords
      BY <1>7, <2>2 DEF CreateFile, At, NothingBefore, JobsShape, Working,
         storeVars, frameVars
    <3> QED
      BY <3>1, <3>2, <3>3 DEF Cached
  <2> QED
    BY <2>1, <2>2
<1>8. ASSUME NEW w \in Jobs, Read(w)
      PROVE  Cached'
  BY <1>8, SMTT(60)
     DEF Read, Body, Change, At, store, JobsShape, Rests, Working, Jobs,
         MapsShape, FlagsShape, TimesShape, NothingBefore, Alone,
         LockIsTheWriters, BeginInit, Active, Busy, Disturbs, Outdated,
         Empties, Drops, Cached, vars, fileVars, storeVars, frameVars, ghosts
<1>9. ASSUME NEW w \in Jobs, StatUnchanged(w)
      PROVE  Cached'
  BY <1>9, SMTT(60)
     DEF StatUnchanged, Body, Change, At, store, FileChanged, JobsShape,
         Rests, Working, Jobs, MapsShape, FlagsShape, TimesShape,
         NothingBefore, Alone, LockIsTheWriters, BeginInit, Active, Busy,
         Disturbs, Outdated, Empties, Drops, Cached, vars, fileVars, storeVars,
         frameVars, ghosts
<1>10. ASSUME NEW w \in Jobs, StatChanged(w)
      PROVE  Cached'
  BY <1>10, SMTT(60)
     DEF StatChanged, BeginWrite, Written, BeginInit, At, store,
         FileChanged, JobsShape, Rests, Working, Jobs, MapsShape,
         FlagsShape, TimesShape, NothingBefore, Alone, LockIsTheWriters,
         Active, Busy, Disturbs, Outdated, Empties, Drops, Cached, vars,
         fileVars, storeVars, frameVars, ghosts
<1>11. ASSUME NEW w \in Jobs, Lock(w)
      PROVE  Cached'
  BY <1>11, SMTT(60)
     DEF Lock, At, store, JobsShape, Rests, Working, Jobs, MapsShape,
         FlagsShape, TimesShape, NothingBefore, Alone, LockIsTheWriters,
         BeginInit, Active, Busy, Disturbs, Outdated, Empties, Drops, Cached,
         vars, fileVars, storeVars, frameVars, ghosts
<1>12. ASSUME NEW w \in Jobs, Rename(w)
      PROVE  Cached'
  BY <1>12, SMTT(60)
     DEF Rename, At, store, JobsShape, Rests, Working, Jobs, MapsShape,
         FlagsShape, TimesShape, NothingBefore, Alone, LockIsTheWriters,
         BeginInit, Active, Busy, Disturbs, Outdated, Empties, Drops, Cached,
         vars, fileVars, storeVars, frameVars, ghosts
<1>13. ASSUME NEW w \in Jobs, Release(w)
      PROVE  Cached'
  BY <1>13, SMTT(60)
     DEF Release, Written, BeginInit, At, store, JobsShape, Rests,
         Working, Jobs, MapsShape, FlagsShape, TimesShape, NothingBefore,
         Alone, LockIsTheWriters, Active, Busy, Disturbs, Outdated,
         Empties, Drops, Cached, vars, fileVars, storeVars, frameVars, ghosts
<1>14. ASSUME NEW w \in Jobs, ReleaseAndExit(w)
      PROVE  Cached'
  <2>0. op[w].store \in Stores
    BY <1>14 DEF ReleaseAndExit, JobsShape, Working
  <2>1. /\ \A v \in Jobs : \/ pc'[v] = "dead" /\ (v \in {w} \/ op[v].store = op[w].store)
                           \/ /\ pc'[v] = pc[v] /\ v \notin {w}
                              /\ pc[v] \in Working => op[v].store # op[w].store
        /\ \A q \in Stores : q # op[w].store =>
              /\ recordMap'[q] = recordMap[q] /\ dirty'[q] = dirty[q]
              /\ lastChangedMtime'[q] = lastChangedMtime[q]
        /\ recordMap'[op[w].store] = NoRecords /\ dirty'[op[w].store] = FALSE
        /\ lastChangedMtime'[op[w].store] = 0
    BY <1>14, <2>0, DiesEffect DEF ReleaseAndExit, store
  <2>2. UNCHANGED <<history, op, file, mtime, contents, unsaved>>
    BY <1>14 DEF ReleaseAndExit, fileVars, frameVars, ghosts
  <2>3. ASSUME history \cap {"overlap", "erased"} = {},
               NEW q \in Stores, q \notin unsaved', lastChangedMtime'[q] = mtime, ~dirty'[q],
               \A v \in Jobs : pc'[v] \in Working /\ op[v].store = q
                               => pc'[v] = "stat"
        PROVE  recordMap'[q] \in {file, NoRecords}
    <3>1. q # op[w].store
      BY <2>0, <2>1, <2>2, <2>3 DEF TimesShape
    <3>2. \A v \in Jobs : pc[v] \in Working /\ op[v].store = q => pc'[v] = pc[v]
      BY <3>1, <1>14 DEF ReleaseAndExit, Dies, Busy, store, JobsShape, Active
    <3> QED
      BY <2>1, <2>2, <2>3, <3>1, <3>2 DEF Cached
  <2>4. \A v \in Jobs : pc'[v] \in Working =>
            pc'[v] = pc[v] /\ op[v].store # op[w].store /\ op[v].store \in Stores
    BY <2>1 DEF JobsShape, Working
  <2> QED
    BY <2>1, <2>2, <2>3, <2>4 DEF Cached, Working
<1>15. ASSUME NEW w \in Jobs, WriteFails(w)
      PROVE  Cached'
  BY <1>15, SMTT(60)
     DEF WriteFails, Unlocked, At, store, JobsShape, Rests, Working, Jobs,
         MapsShape, FlagsShape, TimesShape, NothingBefore, Alone,
         LockIsTheWriters, BeginInit, Active, Busy, Disturbs, Outdated,
         Empties, Drops, Cached, vars, fileVars, storeVars, frameVars, ghosts
<1>16. ASSUME NEW p \in Stores, Crash(p)
      PROVE  Cached'
  <2>0. Dies(p, {})
    BY <1>16 DEF Crash
  <2>1. /\ \A v \in Jobs : \/ pc'[v] = "dead" /\ (v \in {} \/ op[v].store = p)
                           \/ /\ pc'[v] = pc[v] /\ v \notin {}
                              /\ pc[v] \in Working => op[v].store # p
        /\ \A q \in Stores : q # p =>
              /\ recordMap'[q] = recordMap[q] /\ dirty'[q] = dirty[q]
              /\ lastChangedMtime'[q] = lastChangedMtime[q]
        /\ recordMap'[p] = NoRecords /\ dirty'[p] = FALSE
        /\ lastChangedMtime'[p] = 0
    BY <2>0, DiesEffect
  <2>2. history \subseteq history' /\ UNCHANGED <<op, file, mtime, contents, unsaved>>
    BY <1>16 DEF Crash, fileVars, frameVars
  <2>3. \A v \in Jobs : pc'[v] \in Working =>
            pc'[v] = pc[v] /\ op[v].store # p /\ op[v].store \in Stores
    BY <2>1 DEF JobsShape, Working
  <2>4. ASSUME history' \cap {"overlap", "erased"} = {},
               NEW q \in Stores, q \notin unsaved', lastChangedMtime'[q] = mtime', ~dirty'[q],
               \A v \in Jobs : pc'[v] \in Working /\ op'[v].store = q
                               => pc'[v] = "stat"
        PROVE  recordMap'[q] \in {file', NoRecords}
    <3>1. CASE q = p
      BY <2>1, <3>1
    <3>2. CASE q # p
      <4>1. \A v \in Jobs : pc[v] \in Working /\ op[v].store = q => pc'[v] = pc[v]
        BY <2>1, <3>2
      <4>2. \A v \in Jobs : pc[v] \in Working /\ op[v].store = q => pc[v] = "stat"
        BY <2>2, <2>4, <4>1
      <4> QED
        BY <2>1, <2>2, <2>4, <3>2, <4>2 DEF Cached
    <3> QED
      BY <3>1, <3>2
  <2> QED
    BY <2>1, <2>2, <2>3, <2>4 DEF Cached, Working
<1>17. CASE UNCHANGED vars
  BY <1>17, SMTT(60)
     DEF JobsShape, Rests, Working, Jobs, MapsShape, FlagsShape,
         TimesShape, NothingBefore, Alone, LockIsTheWriters, BeginInit,
         Active, Busy, Disturbs, Outdated, Empties, Drops, Cached, vars,
         fileVars, storeVars, frameVars, ghosts
<1>18. ASSUME NEW w \in Jobs, ReadFails(w)
      PROVE  Cached'
  BY <1>18, SMTT(60)
     DEF ReadFails, At, store, JobsShape, Rests, Working, Jobs,
         MapsShape, FlagsShape, TimesShape, NothingBefore, Alone,
         LockIsTheWriters, BeginInit, Active, Busy, Disturbs, Outdated,
         Empties, Drops, Cached, vars, fileVars, storeVars, frameVars, ghosts
<1>19. ASSUME NEW w \in Jobs, NEW noted \in BOOLEAN, NotingFails(w, noted)
      PROVE  Cached'
  BY <1>19, SMTT(60)
     DEF NotingFails, Unlocked, At, store, JobsShape, Rests, Working, Jobs,
         MapsShape, FlagsShape, TimesShape, NothingBefore, Alone,
         LockIsTheWriters, BeginInit, Active, Busy, Disturbs, Outdated,
         Empties, Drops, Cached, vars, fileVars, storeVars, frameVars, ghosts
<1> QED
  BY <1>1, <1>2, <1>3, <1>4, <1>5, <1>6, <1>7, <1>8, <1>9, <1>10, <1>11,
     <1>12, <1>13, <1>14, <1>15, <1>16, <1>17, <1>18, <1>19 DEF Next

\* Store p has something to do or to write
Engaged(p) ==
    dirty[p] \/ p \in unsaved \/ \E w \in Jobs : pc[w] \in Working /\ op[w].store = p

\* While the stores take turns, one at most is at work or has changes that are
\* not written: they are in its Map until they are in the file
Turns ==
    history \subseteq {"failure"} =>
        /\ \A p, q \in Stores : Engaged(p) /\ Engaged(q) => p = q
        /\ \A p \in Stores : dirty[p] \/ p \in unsaved => recordMap[p] = acked
        /\ \A p \in Stores : dirty[p] => recordMap[p] # NoRecords
        /\ history = {} => unsaved = {}
        /\ \A w \in Jobs : pc[w] = "stat" /\ recordMap[op[w].store] = NoRecords
                           => file = NoRecords
        /\ \A w \in Jobs : pc[w] \in Working \ {"stat"} => ~dirty[op[w].store]
        /\ \A w \in Jobs : pc[w] \in {"creating", "reading", "renamed"} =>
              op[w].store \notin unsaved
        /\ \A w \in Jobs : pc[w] \in {"locking", "writing", "renamed"} =>
              recordMap[op[w].store] = acked
        /\ (\A p \in Stores : ~dirty[p] /\ p \notin unsaved)
           /\ (\A w \in Jobs : pc[w] \notin {"locking", "writing"})
           => file = acked

\* A change reaches the Map and acked at once, and a write the file
LEMMA TurnsStep ==
    ASSUME JobsShape, MapsShape, FlagsShape, TimesShape, NothingBefore, Alone,
           LockIsTheWriters, Cached, Turns, [Next]_vars
    PROVE  Turns'
<1>1. ASSUME NEW w \in Calls, NEW o \in [store : Stores, kind : Kinds, id : Ids],
             CallInit(w, o)
      PROVE  Turns'
  BY <1>1, SMTT(60)
     DEF CallInit, BeginInit, At, Begin, store, JobsShape, Rests, Working,
         Jobs, MapsShape, FlagsShape, TimesShape, NothingBefore, Alone,
         LockIsTheWriters, Active, Busy, Disturbs, Outdated, Empties, Drops,
         Cached, Turns, Engaged, vars, fileVars, storeVars, frameVars,
         ghosts
<1>2. ASSUME NEW w \in Calls, NEW o \in [store : Stores, kind : Kinds, id : Ids],
             CallStat(w, o)
      PROVE  Turns'
  BY <1>2, SMTT(60)
     DEF CallStat, At, Begin, store, JobsShape, Rests, Working, Jobs,
         MapsShape, FlagsShape, TimesShape, NothingBefore, Alone,
         LockIsTheWriters, BeginInit, Active, Busy, Disturbs, Outdated,
         Empties, Drops, Cached, Turns, Engaged, vars, fileVars, storeVars,
         frameVars, ghosts
<1>3. ASSUME NEW w \in Calls, NEW o \in [store : Stores, kind : Kinds, id : Ids],
             CallDelete(w, o)
      PROVE  Turns'
  <2> SUFFICES ASSUME history' \subseteq {"failure"}
               PROVE  Turns'
    BY DEF Turns
  <2>0. o.store \in Stores /\ Body(w, o, recordMap[o.store])
    BY <1>3 DEF CallDelete
  <2>1. /\ history \subseteq history' /\ Outdated(o.store) \subseteq history'
        /\ "emptied" \notin history' =>
              (dirty'[o.store] => recordMap'[o.store] # NoRecords)
        /\ "overlap" \notin history' =>
              \A v \in Jobs : pc[v] \in Working => op[v].store # o.store
        /\ "contention" \notin history' =>
              /\ \A v \in Jobs : pc[v] \in Working => op[v].store = o.store
              /\ \A q \in Stores : dirty[q] \/ q \in unsaved => q = o.store
        /\ pc[w] = "idle" /\ op' = [op EXCEPT ![w] = o] /\ UNCHANGED <<file, unsaved>>
    BY <1>3, BeginsAlone DEF CallDelete, Jobs, fileVars
  <2>2. /\ \A v \in Jobs : pc[v] \notin Working
        /\ \A q \in Stores : dirty[q] \/ q \in unsaved => q = o.store
        /\ history \subseteq {"failure"} /\ "stale" \notin Outdated(o.store)
    BY <2>1
  <2>3. recordMap[o.store] = acked
    <3>1. CASE dirty[o.store] \/ o.store \in unsaved
      BY <2>0, <2>2, <3>1 DEF Turns
    <3>2. CASE ~dirty[o.store] /\ o.store \notin unsaved
      <4>1. recordMap[o.store] = file
        BY <2>2, <3>2 DEF Outdated
      <4> QED
        BY <2>2, <3>2, <4>1 DEF Turns, Working, JobsShape
    <3> QED
      BY <3>1, <3>2
  <2>4. /\ pc' = [pc EXCEPT ![w] = "done"]
        /\ \A q \in Stores : q # o.store => dirty'[q] = dirty[q]
        /\ recordMap'[o.store] = acked'
        /\ \/ dirty'[o.store] = dirty[o.store] /\ acked' = acked
           \/ dirty'[o.store] = TRUE
    BY <2>0, <2>3 DEF Body, Change, At, MapsShape, FlagsShape
  <2>5. \A v \in Jobs : pc'[v] \notin Working
    BY <2>2, <2>4 DEF JobsShape, Working
  <2> QED
    BY <2>0, <2>1, <2>2, <2>4, <2>5 DEF Turns, Engaged, Working
<1>4. ASSUME NEW w \in Calls, NEW o \in [store : Stores, kind : Kinds, id : Ids],
             CallFlush(w, o)
      PROVE  Turns'
  BY <1>4, SMTT(60)
     DEF CallFlush, BeginWrite, Written, At, Begin, store, JobsShape,
         Rests, Working, Jobs, MapsShape, FlagsShape, TimesShape,
         NothingBefore, Alone, LockIsTheWriters, BeginInit, Active, Busy,
         Disturbs, Outdated, Empties, Drops, Cached, Turns, Engaged, vars,
         fileVars, storeVars, frameVars, ghosts
<1>5. ASSUME NEW w \in Calls, NEW o \in [store : Stores, kind : Kinds, id : Ids],
             CallExit(w, o)
      PROVE  Turns'
  <2> SUFFICES ASSUME history' \subseteq {"failure"}
               PROVE  Turns'
    BY DEF Turns
  <2>0. o.store \in Stores /\ ~dirty[o.store] /\ Dies(o.store, {w}) /\ UNCHANGED acked
    BY <1>5 DEF CallExit
  <2>1. /\ history \subseteq history'
        /\ "overlap" \notin history' =>
              \A v \in Jobs : pc[v] \in Working => op[v].store # o.store
        /\ "contention" \notin history' =>
              /\ \A v \in Jobs : pc[v] \in Working => op[v].store = o.store
              /\ \A q \in Stores : dirty[q] \/ q \in unsaved => q = o.store
        /\ Drops(o.store) \subseteq history'
        /\ pc[w] = "idle" /\ op' = [op EXCEPT ![w] = o] /\ UNCHANGED <<file, unsaved>>
    BY <1>5, BeginsAlone DEF CallExit, Jobs, fileVars
  <2>2. /\ \A v \in Jobs : pc[v] \notin Working
        /\ \A q \in Stores : ~dirty[q] /\ q \notin unsaved
        /\ file' = acked'
    BY <2>0, <2>1 DEF Turns, Working, Drops
  <2>3. /\ \A v \in Jobs : pc'[v] \notin Working
        /\ \A q \in Stores : ~dirty'[q]
    BY <2>0, <2>2 DEF Dies, JobsShape, FlagsShape, Working
  <2> QED
    BY <2>1, <2>2, <2>3 DEF Turns, Engaged, Working
<1>6. ASSUME NEW w \in Flushers, NEW p \in Stores, Debounce(w, p)
      PROVE  Turns'
  BY <1>6, SMTT(60)
     DEF Debounce, BeginWrite, Written, At, Begin, store, JobsShape,
         Rests, Working, Jobs, MapsShape, FlagsShape, TimesShape,
         NothingBefore, Alone, LockIsTheWriters, BeginInit, Active, Busy,
         Disturbs, Outdated, Empties, Drops, Cached, Turns, Engaged, vars,
         fileVars, storeVars, frameVars, ghosts
<1>7. ASSUME NEW w \in Jobs, CreateFile(w)
      PROVE  Turns'
  BY <1>7, SMTT(60)
     DEF CreateFile, At, store, JobsShape, Rests, Working, Jobs,
         MapsShape, FlagsShape, TimesShape, NothingBefore, Alone,
         LockIsTheWriters, BeginInit, Active, Busy, Disturbs, Outdated,
         Empties, Drops, Cached, Turns, Engaged, vars, fileVars, storeVars,
         frameVars, ghosts
<1>8. ASSUME NEW w \in Jobs, Read(w)
      PROVE  Turns'
  BY <1>8, SMTT(60)
     DEF Read, Body, Change, At, store, JobsShape, Rests, Working, Jobs,
         MapsShape, FlagsShape, TimesShape, NothingBefore, Alone,
         LockIsTheWriters, BeginInit, Active, Busy, Disturbs, Outdated,
         Empties, Drops, Cached, Turns, Engaged, vars, fileVars, storeVars,
         frameVars, ghosts
<1>9. ASSUME NEW w \in Jobs, StatUnchanged(w)
      PROVE  Turns'
  <2> SUFFICES ASSUME history' \subseteq {"failure"}
               PROVE  Turns'
    BY DEF Turns
  <2> DEFINE s == op[w].store
  <2>1. /\ s \in Stores /\ pc[w] = "stat" /\ Body(w, op[w], recordMap[s])
        /\ mtime = lastChangedMtime[s]
        /\ UNCHANGED <<file, op, unsaved>>
        /\ history \subseteq history' /\ Empties(s, recordMap'[s]) \subseteq history'
    BY <1>9 DEF StatUnchanged, FileChanged, JobsShape, Working, store, fileVars,
       frameVars
  <2>2. \A q \in Stores : Engaged(q) => q = s
    BY <2>1 DEF Turns, Engaged, Working
  <2>3. \A v \in Jobs : pc[v] \in Working => v = w
    <3> SUFFICES ASSUME NEW v \in Jobs, pc[v] \in Working
                 PROVE  v = w
      OBVIOUS
    <3>1. op[v].store = s
      BY <2>2 DEF JobsShape, Engaged
    <3> QED
      BY <2>1, <3>1 DEF Alone, Working
  <2>4. recordMap[s] = acked
    <3>1. CASE dirty[s] \/ s \in unsaved
      BY <2>1, <3>1 DEF Turns
    <3>2. CASE ~dirty[s] /\ s \notin unsaved
      <4>1. file = acked
        BY <2>1, <2>2, <2>3, <3>2 DEF Turns, Engaged, Working
      <4>2. recordMap[s] \in {file, NoRecords}
        BY <2>1, <2>3, <3>2 DEF Cached
      <4> QED
        BY <2>1, <4>1, <4>2 DEF Turns
    <3> QED
      BY <3>1, <3>2
  <2>5. /\ pc' = [pc EXCEPT ![w] = "done"]
        /\ \A q \in Stores : q # s => dirty'[q] = dirty[q]
        /\ recordMap'[s] = acked'
        /\ \/ dirty'[s] = dirty[s] /\ acked' = acked
           \/ dirty'[s] = TRUE
    BY <2>1, <2>4 DEF Body, Change, At, MapsShape, FlagsShape
  <2>6. \A v \in Jobs : pc'[v] \notin Working
    BY <2>3, <2>5 DEF JobsShape, Working
  <2>7. \A q \in Stores : dirty'[q] \/ q \in unsaved' => q = s
    BY <2>1, <2>2, <2>5 DEF Engaged
  <2>8. dirty'[s] => recordMap'[s] # NoRecords
    BY <2>1 DEF Empties
  <2>9. (\A q \in Stores : ~dirty'[q] /\ q \notin unsaved') => file' = acked'
    <3> SUFFICES ASSUME \A q \in Stores : ~dirty'[q] /\ q \notin unsaved'
                 PROVE  file' = acked'
      OBVIOUS
    <3>1. acked' = acked /\ \A q \in Stores : ~dirty[q] /\ q \notin unsaved
      BY <2>1, <2>5
    <3> QED
      BY <2>1, <2>3, <3>1 DEF Turns, Working
  <2> HIDE DEF s
  <2> QED
    BY <2>1, <2>5, <2>6, <2>7, <2>8, <2>9 DEF Turns, Engaged, Working
<1>10. ASSUME NEW w \in Jobs, StatChanged(w)
      PROVE  Turns'
  BY <1>10, SMTT(60)
     DEF StatChanged, BeginWrite, Written, BeginInit, At, store,
         FileChanged, JobsShape, Rests, Working, Jobs, MapsShape,
         FlagsShape, TimesShape, NothingBefore, Alone, LockIsTheWriters,
         Active, Busy, Disturbs, Outdated, Empties, Drops, Cached, Turns,
         Engaged, vars, fileVars, storeVars, frameVars, ghosts
<1>11. ASSUME NEW w \in Jobs, Lock(w)
      PROVE  Turns'
  BY <1>11, SMTT(60)
     DEF Lock, At, store, JobsShape, Rests, Working, Jobs, MapsShape,
         FlagsShape, TimesShape, NothingBefore, Alone, LockIsTheWriters,
         BeginInit, Active, Busy, Disturbs, Outdated, Empties, Drops, Cached,
         Turns, Engaged, vars, fileVars, storeVars, frameVars, ghosts
<1>12. ASSUME NEW w \in Jobs, Rename(w)
      PROVE  Turns'
  BY <1>12, SMTT(60)
     DEF Rename, At, store, JobsShape, Rests, Working, Jobs, MapsShape,
         FlagsShape, TimesShape, NothingBefore, Alone, LockIsTheWriters,
         BeginInit, Active, Busy, Disturbs, Outdated, Empties, Drops, Cached,
         Turns, Engaged, vars, fileVars, storeVars, frameVars, ghosts
<1>13. ASSUME NEW w \in Jobs, Release(w)
      PROVE  Turns'
  BY <1>13, SMTT(60)
     DEF Release, Written, BeginInit, At, store, JobsShape, Rests,
         Working, Jobs, MapsShape, FlagsShape, TimesShape, NothingBefore,
         Alone, LockIsTheWriters, Active, Busy, Disturbs, Outdated,
         Empties, Drops, Cached, Turns, Engaged, vars, fileVars, storeVars,
         frameVars, ghosts
<1>14. ASSUME NEW w \in Jobs, ReleaseAndExit(w)
      PROVE  Turns'
  <2> SUFFICES ASSUME history' \subseteq {"failure"}
               PROVE  Turns'
    BY DEF Turns
  <2>0. /\ op[w].store \in Stores /\ pc[w] = "renamed" /\ Dies(op[w].store, {w})
        /\ UNCHANGED <<file, acked, history, op, unsaved>>
    BY <1>14 DEF ReleaseAndExit, JobsShape, Working, store, fileVars, frameVars, ghosts
  <2>1. \A q \in Stores : Engaged(q) => q = op[w].store
    BY <2>0 DEF Turns, Engaged, Working
  <2>2. \A q \in Stores : ~dirty[q] /\ q \notin unsaved
    BY <2>0, <2>1 DEF Turns, Engaged, Working
  <2>3. \A v \in Jobs : pc[v] \in Working => v = w
    <3> SUFFICES ASSUME NEW v \in Jobs, pc[v] \in Working
                 PROVE  v = w
      OBVIOUS
    <3>1. op[v].store = op[w].store
      BY <2>1 DEF JobsShape, Engaged
    <3> QED
      BY <2>0, <3>1 DEF Alone, Working
  <2>4. file' = acked'
    BY <2>0, <2>2, <2>3 DEF Turns, Working
  <2>5. /\ \A v \in Jobs : pc'[v] \notin Working
        /\ \A q \in Stores : ~dirty'[q]
    BY <2>0, <2>2, <2>3 DEF Dies, JobsShape, FlagsShape, Working
  <2> QED
    BY <2>0, <2>2, <2>4, <2>5 DEF Turns, Engaged, Working
<1>15. ASSUME NEW w \in Jobs, WriteFails(w)
      PROVE  Turns'
  BY <1>15, SMTT(60)
     DEF WriteFails, Unlocked, At, store, JobsShape, Rests, Working, Jobs,
         MapsShape, FlagsShape, TimesShape, NothingBefore, Alone,
         LockIsTheWriters, BeginInit, Active, Busy, Disturbs, Outdated,
         Empties, Drops, Cached, Turns, Engaged, vars, fileVars, storeVars,
         frameVars, ghosts
<1>16. ASSUME NEW p \in Stores, Crash(p)
      PROVE  Turns'
  BY <1>16, SMTT(60)
     DEF Crash, Dies, store, JobsShape, Rests, Working, Jobs, MapsShape,
         FlagsShape, TimesShape, NothingBefore, Alone, LockIsTheWriters,
         BeginInit, Active, Busy, Disturbs, Outdated, Empties, Drops, Cached,
         Turns, Engaged, vars, fileVars, storeVars, frameVars, ghosts
<1>17. CASE UNCHANGED vars
  BY <1>17, SMTT(60)
     DEF JobsShape, Rests, Working, Jobs, MapsShape, FlagsShape,
         TimesShape, NothingBefore, Alone, LockIsTheWriters, BeginInit,
         Active, Busy, Disturbs, Outdated, Empties, Drops, Cached, Turns,
         Engaged, vars, fileVars, storeVars, frameVars, ghosts
<1>18. ASSUME NEW w \in Jobs, ReadFails(w)
      PROVE  Turns'
  BY <1>18, SMTT(60)
     DEF ReadFails, At, store, JobsShape, Rests, Working, Jobs,
         MapsShape, FlagsShape, TimesShape, NothingBefore, Alone,
         LockIsTheWriters, BeginInit, Active, Busy, Disturbs, Outdated,
         Empties, Drops, Cached, Turns, Engaged, vars, fileVars, storeVars,
         frameVars, ghosts
<1>19. ASSUME NEW w \in Jobs, NEW noted \in BOOLEAN, NotingFails(w, noted)
      PROVE  Turns'
  BY <1>19, SMTT(60)
     DEF NotingFails, Unlocked, At, store, JobsShape, Rests, Working, Jobs,
         MapsShape, FlagsShape, TimesShape, NothingBefore, Alone,
         LockIsTheWriters, BeginInit, Active, Busy, Disturbs, Outdated,
         Empties, Drops, Cached, Turns, Engaged, vars, fileVars, storeVars,
         frameVars, ghosts
<1> QED
  BY <1>1, <1>2, <1>3, <1>4, <1>5, <1>6, <1>7, <1>8, <1>9, <1>10, <1>11,
     <1>12, <1>13, <1>14, <1>15, <1>16, <1>17, <1>18, <1>19 DEF Next

\* What holds of the stores and the file in every state
StoreInv ==
    /\ JobsShape /\ MapsShape /\ FlagsShape /\ TimesShape
    /\ DirtyIsArmed /\ LockIsTheWriters
    /\ NothingBefore /\ Alone /\ Cached /\ Turns

\* The stores start at rest, with nothing in their Maps
LEMMA StoreInit == Init => StoreInv
<1> SUFFICES ASSUME Init
             PROVE  StoreInv
  OBVIOUS
<1>1. JobsShape /\ MapsShape /\ FlagsShape /\ TimesShape
  BY DEF Init, JobsShape, MapsShape, FlagsShape, TimesShape, NoOp, Rests, Working
<1>2. DirtyIsArmed /\ LockIsTheWriters
  BY WriterAssumption DEF Init, DirtyIsArmed, LockIsTheWriters, Jobs
<1>3. NothingBefore /\ Alone
  BY DEF Init, NothingBefore, Alone, NoRecords, Rests, Working
<1>4. Cached /\ Turns
  BY DEF Init, Cached, Turns, Engaged, Working
<1> QED
  BY <1>1, <1>2, <1>3, <1>4 DEF StoreInv

LEMMA StoreStep == StoreInv /\ [Next]_vars => StoreInv'
BY JobsShapeStep, MapsShapeStep, FlagsStep, TimesStep, LockStep,
   NothingBeforeStep, AloneStep, CachedStep, TurnsStep DEF StoreInv

\* Whatever calls, flushes, failures and deaths follow, the invariant holds
\* (JsonStorageStore).
THEOREM StoresAreSound == Spec => []StoreInv
BY StoreInit, StoreStep, PTL DEF Spec

\* While the stores take turns, acknowledged changes that the file has not are
\* in the Map of a store that will write them, or whose write has failed
\* (debounce, writeToFile, flushAndReload).
THEOREM AckedChangesAreHeld == Spec => []AckedIsUnderWay
<1>1. StoreInv => AckedIsUnderWay
  <2> SUFFICES ASSUME StoreInv, history \subseteq {"failure"}, file # acked
               PROVE  \E p \in Stores :
                         /\ recordMap[p] = acked
                         /\ \/ dirty[p] /\ armed[p]
                            \/ \E w \in Busy(p) : pc[w] \in {"locking", "writing"}
                            \/ p \in unsaved
    BY DEF AckedIsUnderWay
  <2>1. \/ \E p \in Stores : dirty[p] \/ p \in unsaved
        \/ \E w \in Jobs : pc[w] \in {"locking", "writing"}
    BY DEF StoreInv, Turns
  <2>2. CASE \E p \in Stores : dirty[p] \/ p \in unsaved
    BY <2>2 DEF StoreInv, Turns, DirtyIsArmed
  <2>3. ASSUME NEW w \in Jobs, pc[w] \in {"locking", "writing"}
        PROVE  /\ op[w].store \in Stores /\ recordMap[op[w].store] = acked
               /\ w \in Busy(op[w].store)
    BY <2>3 DEF StoreInv, Turns, JobsShape, Working, Busy, Active, store
  <2> QED
    BY <2>1, <2>2, <2>3
<1> QED
  BY <1>1, StoresAreSound, PTL

\* The lock is held by the job that writes and by no other, whichever way the
\* writes end (writeToFile).
THEOREM WritersHoldTheLock == Spec => []LockIsTheWriters
<1>1. StoreInv => LockIsTheWriters
  BY DEF StoreInv
<1> QED
  BY <1>1, StoresAreSound, PTL

\* A store at rest that remembers the file's time, its last write not failed,
\* has the file's records or none (reloadIfChanged, flushAndReload,
\* writeToFile).
THEOREM CacheFollowsFile == Spec => []CleanCacheIsFile
<1>1. StoreInv => CleanCacheIsFile
  <2> SUFFICES ASSUME StoreInv, history \cap {"overlap", "erased"} = {},
                      NEW p \in Stores \ unsaved, Busy(p) = {}, ~dirty[p], ~FileChanged(p)
               PROVE  recordMap[p] \in {file, NoRecords}
    BY DEF CleanCacheIsFile
  <2>1. \A w \in Jobs : pc[w] \in Working => op[w].store # p
    BY DEF Busy, Active, store, Working
  <2> QED
    BY <2>1 DEF StoreInv, Cached, FileChanged
<1> QED
  BY <1>1, StoresAreSound, PTL

\* While the stores take turns and nothing fails, what the calls have
\* acknowledged is what the next call finds (create, update, delete, get,
\* flushNow and the exit).
THEOREM TurnsLoseNothing == Spec => []TurnsKeepAcked
<1>1. StoreInv => TurnsKeepAcked
  <2> SUFFICES ASSUME StoreInv, history = {}, Active = {}, NEW p \in Stores,
                      \A q \in Stores \ {p} : ~dirty[q]
               PROVE  View(p) = acked
    BY DEF TurnsKeepAcked
  <2>1. \A w \in Jobs : pc[w] \notin Working
    BY DEF Active, Working
  <2>2. CASE dirty[p]
    BY <2>2 DEF StoreInv, Turns, View
  <2>3. CASE ~dirty[p]
    <3>1. file = acked /\ unsaved = {}
      BY <2>1, <2>3 DEF StoreInv, Turns, Working
    <3>2. ~FileChanged(p) => recordMap[p] \in {file, NoRecords}
      BY <2>1, <2>3, <3>1 DEF StoreInv, Cached, FileChanged
    <3> QED
      BY <2>3, <3>1, <3>2 DEF View
  <2> QED
    BY <2>2, <2>3
<1> QED
  BY <1>1, StoresAreSound, PTL
=============================================================================
