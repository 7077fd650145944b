----------------------------- MODULE SdCleaner -----------------------------
(***************************************************************************)
(* Keeping room on the SD card.  The main thread measures the free space   *)
(* every three seconds and broadcasts LOWER_FREE_SDSIZE when there is too  *)
(* little; RecordManager broadcasts it too when the user presses "record"  *)
(* on a full card, and waits for CLEAN_SDSIZE_COMPLETE.  The receiver,     *)
(* SDCardLowerSizeCleaner, starts a thread that deletes the oldest video   *)
(* files.  Its flag isCleaningNow and its ArrayList are shared by all      *)
(* these threads without a lock; an add is a load of the size and a store. *)
(* ArrayList is Android's: an iterator throws ConcurrentModification-      *)
(* Exception when it has elements left and the list has been modified, and *)
(* clear() modifies a list with elements only.  The growth of its array is *)
(* left out.  Files count one unit of space each.                          *)
(***************************************************************************)
EXTENDS FileOrder

CONSTANTS
  Cleaners,    \* threads that may clean at a time
  Waiters,     \* RecordManager instances: one for each press of "record"
  Capacity,    \* size of the card
  minFreeSize, cleanSize,  \* VariableKeeper.APP_CONSTANT.sdCard_*
  MaxRequests, \* bound: LOWER_FREE_SDSIZE broadcasts not yet delivered
  MaxMoves     \* bound: times somebody else frees or takes space

VideoFiles == 1..Len(Dates)

ASSUME CleanerAssumption ==
  /\ {Capacity, minFreeSize, cleanSize, MaxRequests, MaxMoves} \subseteq Nat
  /\ minFreeSize <= cleanSize /\ 1 <= MaxRequests
  /\ Len(Dates) <= Capacity
  /\ IsFiniteSet(Cleaners)

VARIABLES
  files,          \* video files on the card
  created,        \* files created so far
  other,          \* space taken by other data
  moves,          \* times somebody else has freed or taken space
  activity,       \* VariableKeeper.mCurrentActivity is not null
  rewrite,        \* the setting "overwrite old recordings"
  freeSize,       \* VariableKeeper.sdCard_CurrentFreeSize
  requests,       \* LOWER_FREE_SDSIZE broadcasts not yet delivered
  isCleaningNow,
  filelists,      \* the ArrayList the field refers to, or Null
  heap,           \* the ArrayLists: their sizes and their arrays
  thread,         \* step each cleaner thread is at
  own,            \* its local variables
  broken,         \* threads whose list has been modified under their iterator
  waiter,         \* RecordManager instances
  mainAlive       \* the main thread has not died of an exception

card == <<files, created, other, moves>>
lists == <<filelists, heap>>
cleaner == <<isCleaningNow, lists, thread, own, broken>>
vars == <<card, activity, rewrite, freeSize, requests, cleaner, waiter,
          mainAlive>>

Free == Capacity - other - Cardinality(files)

\* As many lists as the threads and the field can refer to at a time.
Lists == 1..(Cardinality(Cleaners) + 1)
Null == 0
NoBean == [file |-> Null, date |-> 0]
EmptyList == [size |-> 0, array |-> <<>>]
Elements(l) == SubSeq(heap[l].array, 1, heap[l].size)

\* The locals of a thread: the list it works on; what its iterator has left,
\* or the size it has read; the names it has still to add; the bean it adds,
\* or the sorted copy of the list.
Nothing == [list |-> Null, n |-> 0, names |-> <<>>, beans |-> <<>>]

\* The program starts on a card with some files, and measures it.
Init ==
  /\ created \in 0..Len(Dates) /\ files = 1..created
  /\ other \in 0..(Capacity - created) /\ moves = 0
  /\ activity \in BOOLEAN /\ rewrite \in BOOLEAN
  /\ freeSize = Free
  /\ requests = IF Free > minFreeSize THEN 0 ELSE 1
  /\ isCleaningNow = FALSE
  /\ filelists = 1 /\ heap = [l \in Lists |-> EmptyList]
  /\ thread = [k \in Cleaners |-> "idle"]
  /\ own = [k \in Cleaners |-> Nothing]
  /\ broken = {}
  /\ waiter = [w \in Waiters |-> "off"]
  /\ mainAlive = TRUE

-----------------------------------------------------------------------------
\* The card: recorders create files, and other programs come and go.

NewFile ==
  /\ created < Len(Dates) /\ Free > 0
  /\ created' = created + 1
  /\ files' = files \cup {created + 1}
  /\ UNCHANGED <<other, moves, activity, rewrite, freeSize, requests, cleaner,
                 waiter, mainAlive>>

OtherData ==
  /\ moves < MaxMoves
  /\ moves' = moves + 1
  /\ other' \in {other - 1, other + 1} \cap 0..(Capacity - Cardinality(files))
  /\ UNCHANGED <<files, created, activity, rewrite, freeSize, requests, cleaner,
                 waiter, mainAlive>>

-----------------------------------------------------------------------------
\* The main thread.

OpenDesktop ==
  /\ mainAlive
  /\ activity' = TRUE
  /\ UNCHANGED <<card, rewrite, freeSize, requests, cleaner, waiter, mainAlive>>

ToggleRewrite ==
  /\ mainAlive
  /\ rewrite' = ~rewrite
  /\ UNCHANGED <<card, activity, freeSize, requests, cleaner, waiter, mainAlive>>

\* The user deletes a file on the review screen.
DeleteByHand ==
  /\ mainAlive /\ activity
  /\ moves < MaxMoves /\ moves' = moves + 1
  /\ \E f \in files : files' = files \ {f}
  /\ UNCHANGED <<created, other, activity, rewrite, freeSize, requests,
                 cleaner, waiter, mainAlive>>

Ask == requests < MaxRequests /\ requests' = requests + 1

\* SDCardSizeMonitorHandler.Track, at every pulse of the timer.
Track ==
  /\ mainAlive
  /\ freeSize' = Free
  /\ IF Free < minFreeSize THEN Ask ELSE UNCHANGED requests
  /\ UNCHANGED <<card, activity, rewrite, cleaner, waiter, mainAlive>>

\* new RecordManager(): with too little space and the setting it asks for
\* space and waits.  Otherwise it records (NewFile) or refuses, and is done.
PressRecord(w) ==
  /\ mainAlive /\ activity /\ waiter[w] = "off"
  /\ freeSize <= minFreeSize /\ rewrite
  /\ waiter' = [waiter EXCEPT ![w] = "waiting"]
  /\ Ask
  /\ UNCHANGED <<card, activity, rewrite, freeSize, cleaner, mainAlive>>

\* SDCardLowerSizeCleaner.onSafeReceive.
DeliverRequest ==
  /\ mainAlive /\ requests > 0
  /\ requests' = requests - 1
  /\ IF isCleaningNow THEN UNCHANGED thread
     ELSE \E k \in Cleaners :
            thread[k] = "idle" /\ thread' = [thread EXCEPT ![k] = "test"]
  /\ UNCHANGED <<card, activity, rewrite, freeSize, isCleaningNow, lists, own,
                 broken, waiter, mainAlive>>

\* CLEAN_SDSIZE_COMPLETE at a waiting RecordManager: it unregisters itself,
\* forgets its receiver, and unregisters null, which throws; record() is
\* never reached.
DeliverComplete(w) ==
  /\ mainAlive /\ waiter[w] = "told"
  /\ waiter' = [waiter EXCEPT ![w] = "off"]
  /\ mainAlive' = FALSE
  /\ UNCHANGED <<card, activity, rewrite, freeSize, requests, cleaner>>

-----------------------------------------------------------------------------
\* A cleaner thread, SDCardLowerSizeCleaner.run.

Move(k, from, to) ==
  /\ thread[k] = from
  /\ thread' = [thread EXCEPT ![k] = to]
  /\ UNCHANGED <<created, other, moves, activity, rewrite, requests, mainAlive>>

\* The steps of deleteOldFile and of the clearing of the list.
ListStep(k, from, to) ==
  Move(k, from, to) /\ UNCHANGED <<freeSize, isCleaningNow, waiter>>

\* A step that uses nothing but the thread's own variables and the list.
Quietly(k, from, to) == ListStep(k, from, to) /\ UNCHANGED <<files, broken>>

\* An exception ends the thread: the list is null, has no element, has a null
\* element, or has been modified.
Dies(k, from) ==
  /\ ListStep(k, from, "idle")
  /\ own' = [own EXCEPT ![k] = Nothing]
  /\ broken' = broken \ {k}
  /\ UNCHANGED files

TestFlag(k) ==
  /\ Move(k, "test", IF isCleaningNow THEN "idle" ELSE "set")
  /\ UNCHANGED <<files, freeSize, isCleaningNow, lists, own, broken, waiter>>

SetFlag(k) ==
  /\ Move(k, "set", "decide")
  /\ isCleaningNow' = TRUE
  /\ UNCHANGED <<files, freeSize, lists, own, broken, waiter>>

\* Without the setting, or with enough space, or with no activity to show a
\* toast on, the thread ends here and the flag stays set.
Decide(k) ==
  /\ Move(k, "decide",
       IF rewrite /\ freeSize < minFreeSize /\ activity THEN "scan" ELSE "idle")
  /\ UNCHANGED <<files, freeSize, isCleaningNow, lists, own, broken, waiter>>

-----------------------------------------------------------------------------
\* refreshFileList.

\* listFiles gives the names in any order.
ListFiles(k) ==
  /\ Quietly(k, "scan", "add")
  /\ \E s \in [1..Cardinality(files) -> files] :
       /\ \A f \in files : \E i \in DOMAIN s : s[i] = f
       /\ own' = [own EXCEPT ![k].names = s]
  /\ UNCHANGED lists

\* With no list there is nothing to add to.
AddTest(k) ==
  /\ \/ /\ own[k].names = <<>>
        /\ Quietly(k, "add", "log")
        /\ UNCHANGED own
     \/ /\ own[k].names # <<>> /\ filelists = Null
        /\ Quietly(k, "add", "add")
        /\ own' = [own EXCEPT ![k].names = Tail(@)]
     \/ /\ own[k].names # <<>> /\ filelists # Null
        /\ Quietly(k, "add", "load")
        /\ UNCHANGED own
  /\ UNCHANGED lists

\* lastModified() of a file that is gone is 0.
Bean(f) == [file |-> f, date |-> IF f \in files THEN Dates[f] ELSE 0]

\* The field is read again: the list may be null by now.
AddLoad(k) ==
  /\ IF filelists = Null THEN Dies(k, "load")
     ELSE /\ Quietly(k, "load", "store")
          /\ own' = [own EXCEPT ![k] =
               [list |-> filelists, n |-> heap[filelists].size,
                names |-> Tail(own[k].names),
                beans |-> <<Bean(Head(own[k].names))>>]]
  /\ UNCHANGED lists

Modified(l) ==
  {j \in Cleaners : thread[j] \in {"logging", "delete", "measure"} /\ own[j].list = l}

\* array[n] = bean; size = n + 1, whatever has happened to the list since n
\* was read.
AddStore(k) ==
  LET l == own[k].list
      at == own[k].n + 1
      len == Len(heap[l].array)
  IN /\ ListStep(k, "store", "add")
     /\ heap' = [heap EXCEPT ![l] =
          [size |-> at,
           array |-> [i \in 1..(IF at > len THEN at ELSE len) |->
                        IF i = at THEN own[k].beans[1]
                        ELSE IF i <= len THEN @.array[i] ELSE NoBean]]]
     /\ own' = [own EXCEPT ![k] = [Nothing EXCEPT !.names = own[k].names]]
     /\ broken' = broken \cup Modified(l)
     /\ UNCHANGED <<files, filelists>>

-----------------------------------------------------------------------------
\* deleteOldFile after the list has been filled.

\* An iterator over the list: how many elements it has left.
Iterator == [Nothing EXCEPT !.list = filelists, !.n = heap[filelists].size]

HasNull(l) == \E i \in 1..heap[l].size : heap[l].array[i] = NoBean

\* The log of the size, and the loop that logs the elements.
LogStart(k) ==
  /\ IF filelists = Null THEN Dies(k, "log")
     ELSE Quietly(k, "log", "logging") /\ own' = [own EXCEPT ![k] = Iterator]
  /\ UNCHANGED lists

LogEnd(k) ==
  /\ IF own[k].n > 0 /\ (k \in broken \/ HasNull(own[k].list))
     THEN Dies(k, "logging")
     ELSE /\ ListStep(k, "logging", "sort")
          /\ own' = [own EXCEPT ![k] = Nothing]
          /\ broken' = broken \ {k}
          /\ UNCHANGED files
  /\ UNCHANGED lists

\* Collections.sort sorts a copy of the elements and writes it back; it ends
\* with an exception if the list has grown.
SortCopy(k) ==
  /\ IF filelists = Null THEN Dies(k, "sort")
     ELSE IF HasNull(filelists) THEN Dies(k, "sort")
     ELSE /\ Quietly(k, "sort", "write")
          /\ \E s \in Sorted(Elements(filelists)) :
               own' = [own EXCEPT ![k] = [Nothing EXCEPT !.list = filelists,
                                                         !.beans = s]]
  /\ UNCHANGED lists

SortWrite(k) ==
  LET l == own[k].list
      s == own[k].beans
  IN /\ thread[k] = "write"
     /\ IF heap[l].size > Len(s) THEN Dies(k, "write")
        ELSE Quietly(k, "write", "first") /\ own' = [own EXCEPT ![k] = Nothing]
     /\ heap' = [heap EXCEPT ![l].array =
          [i \in DOMAIN @ |->
             IF i <= heap[l].size /\ i <= Len(s) THEN s[i] ELSE @[i]]]
     /\ UNCHANGED filelists

\* The log of the first element: there may be none.
GetFirst(k) ==
  /\ IF filelists = Null THEN Dies(k, "first")
     ELSE IF heap[filelists].size = 0 THEN Dies(k, "first")
     ELSE Quietly(k, "first", "iterate") /\ UNCHANGED own
  /\ UNCHANGED lists

Iterate(k) ==
  /\ IF filelists = Null THEN Dies(k, "iterate")
     ELSE Quietly(k, "iterate", "delete") /\ own' = [own EXCEPT ![k] = Iterator]
  /\ UNCHANGED lists

\* The element the iterator comes to next.
NextBean(k) == heap[own[k].list].array[heap[own[k].list].size - own[k].n + 1]

\* Mutant of Delete: the iterator skips every second file.
DeleteEveryOther(k) ==
  /\ ListStep(k, "delete", "measure")
  /\ own[k].n > 0 /\ k \notin broken /\ NextBean(k) # NoBean
  /\ files' = files \ {NextBean(k).file}
  /\ own' = [own EXCEPT ![k].n = @ - 2]
  /\ UNCHANGED <<lists, broken>>

Delete(k) ==
  /\ ListStep(k, "delete", "measure")
  /\ own[k].n > 0 /\ k \notin broken /\ NextBean(k) # NoBean
  /\ files' = files \ {NextBean(k).file}
  /\ own' = [own EXCEPT ![k].n = @ - 1]
  /\ UNCHANGED <<lists, broken>>

NothingLeft(k) ==
  /\ Quietly(k, "delete", "clear")
  /\ own[k].n = 0
  /\ UNCHANGED <<lists, own>>

IteratorThrows(k) ==
  /\ Dies(k, "delete")
  /\ own[k].n > 0 /\ (k \notin broken => NextBean(k) = NoBean)
  /\ UNCHANGED lists

\* Mutant of Measure: the loop is not left when there is room.
MeasureNoEnd(k) ==
  /\ Move(k, "measure", "delete")
  /\ freeSize' = Free
  /\ UNCHANGED <<files, isCleaningNow, lists, own, broken, waiter>>

Measure(k) ==
  /\ Move(k, "measure", IF Free > cleanSize THEN "clear" ELSE "delete")
  /\ freeSize' = Free
  /\ UNCHANGED <<files, isCleaningNow, lists, own, broken, waiter>>

-----------------------------------------------------------------------------
\* run after deleteOldFile.

\* if (filelists != null)
ClearTest(k) ==
  /\ ListStep(k, "clear", IF filelists = Null THEN "reset" ELSE "empty")
  /\ own' = [own EXCEPT ![k] = Nothing]
  /\ broken' = broken \ {k}
  /\ UNCHANGED <<files, lists>>

\* filelists.clear(): the first size places of the array become null.
Empty(k) ==
  /\ IF filelists = Null THEN Dies(k, "empty") /\ UNCHANGED heap
     ELSE /\ ListStep(k, "empty", "null")
          /\ heap' = [heap EXCEPT ![filelists] =
               [size |-> 0,
                array |-> [i \in DOMAIN @.array |->
                             IF i <= @.size THEN NoBean ELSE @.array[i]]]]
          /\ broken' = IF heap[filelists].size = 0 THEN broken
                       ELSE broken \cup Modified(filelists)
          /\ UNCHANGED <<files, own>>
  /\ UNCHANGED filelists

SetNull(k) ==
  /\ Quietly(k, "null", "new")
  /\ filelists' = Null
  /\ UNCHANGED <<heap, own>>

\* new ArrayList: the first that nobody refers to.
Unused(l) == l # filelists /\ \A j \in Cleaners : own[j].list # l

NewList(k) ==
  /\ Quietly(k, "new", "reset")
  /\ \E l \in Lists :
       /\ Unused(l) /\ \A m \in 1..(l - 1) : ~Unused(m)
       /\ filelists' = l
       /\ heap' = [heap EXCEPT ![l] = EmptyList]
  /\ UNCHANGED own

ResetFlag(k) ==
  /\ Move(k, "reset", "send")
  /\ isCleaningNow' = FALSE
  /\ UNCHANGED <<files, freeSize, lists, own, broken, waiter>>

SendComplete(k) ==
  /\ Move(k, "send", "idle")
  /\ waiter' = [w \in Waiters |-> IF waiter[w] = "waiting" THEN "told"
                                                           ELSE waiter[w]]
  /\ UNCHANGED <<files, freeSize, isCleaningNow, lists, own, broken>>

Fill(k) == ListFiles(k) \/ AddTest(k) \/ AddLoad(k) \/ AddStore(k)

DeleteOldFile(k) ==
  \/ LogStart(k) \/ LogEnd(k) \/ SortCopy(k) \/ SortWrite(k) \/ GetFirst(k)
  \/ Iterate(k) \/ Delete(k) \/ NothingLeft(k) \/ IteratorThrows(k) \/ Measure(k)

Renew(k) == ClearTest(k) \/ Empty(k) \/ SetNull(k) \/ NewList(k)

Clean(k) ==
  \/ TestFlag(k) \/ SetFlag(k) \/ Decide(k)
  \/ Fill(k) \/ DeleteOldFile(k) \/ Renew(k)
  \/ ResetFlag(k) \/ SendComplete(k)

Next ==
  \/ NewFile \/ OtherData
  \/ OpenDesktop \/ ToggleRewrite \/ DeleteByHand \/ Track \/ DeliverRequest
  \/ \E w \in Waiters : PressRecord(w) \/ DeliverComplete(w)
  \/ \E k \in Cleaners : Clean(k)

Spec == Init /\ [][Next]_vars

-----------------------------------------------------------------------------

ThreadSteps ==
  {"idle", "test", "set", "decide", "scan", "add", "load", "store", "log",
   "logging", "sort", "write", "first", "iterate", "delete", "measure", "clear",
   "empty", "null", "new", "reset", "send"}
WaiterSteps == {"off", "waiting", "told"}

Locals ==
  [list : Lists \cup {Null}, n : Nat, names : Seq(VideoFiles), beans : Seq(Beans)]

ListOK ==
  /\ filelists \in Lists \cup {Null}
  /\ heap \in [Lists -> [size : Nat, array : Seq(Beans \cup {NoBean})]]
  /\ \A l \in Lists : heap[l].size <= Len(heap[l].array)
  /\ own \in [Cleaners -> Locals]
  /\ \A k \in Cleaners :
       /\ thread[k] = "load" => own[k].names # <<>>
       /\ thread[k] = "store" => own[k].beans # <<>>
  /\ broken \subseteq Cleaners

SdTypeOK ==
  /\ files \subseteq 1..created /\ created \in 0..Len(Dates)
  /\ other \in 0..Capacity /\ Free >= 0
  /\ moves \in 0..MaxMoves
  /\ activity \in BOOLEAN /\ rewrite \in BOOLEAN
  /\ isCleaningNow \in BOOLEAN /\ mainAlive \in BOOLEAN
  /\ freeSize \in 0..Capacity
  /\ requests \in 0..MaxRequests
  /\ thread \in [Cleaners -> ThreadSteps]
  /\ ListOK
  /\ waiter \in [Waiters -> WaiterSteps]

\* SDCardLowerSizeCleaner.java:69: what is deleted is the oldest of the files.
OldestFirst ==
  [][\A k \in Cleaners : thread[k] = "delete" /\ thread'[k] = "measure" =>
       \A f \in files \ files', g \in files : Dates[f] <= Dates[g]]_vars

\* Threads that may delete a file without another look at the free space.
Armed ==
  {k \in Cleaners : thread[k] \in {"scan", "add", "load", "store", "log", "logging",
                                   "sort", "write", "first", "iterate", "delete"}}

\* A cleaner leaves files alone once there is room: each thread that cleans
\* goes at most one file past cleanSize (and past what others free meanwhile),
\* those that are about to delete included, although they measure and delete
\* in any order, and fill, sort and clear each other's list
\* (SDCardLowerSizeCleaner.java:81-90).
OvershootBounded ==
  [][\A k \in Cleaners :
       thread[k] = "delete" /\ thread'[k] = "measure" /\ files' # files =>
         Free' + Cardinality(Armed') <= cleanSize + Cardinality(Cleaners) + moves]_vars

\* SDCardLowerSizeCleaner.java:51: at the end of a cleaning the flag is reset,
\* for the next one.
FlagReset == (\A k \in Cleaners : thread[k] = "idle") => ~isCleaningNow
=============================================================================
