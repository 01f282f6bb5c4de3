--------------------------------- MODULE Log ---------------------------------
(***************************************************************************)
(* The logger (src/ext/agoo/log.c): any thread logs entries, the log       *)
(* thread writes them to the log file and rotates the files, and Ruby code *)
(* flushes and shuts the logger down (rlog.c).                             *)
(*                                                                         *)
(* The ring of entries is a sequence here.  It has room for Size - 1: the  *)
(* entry popped last keeps its slot until the next pop, so the log thread  *)
(* writes it out of the ring.  (ready is never set, so an entry that was   *)
(* popped counts as gone from the queue.)  The pipe that wakes the log     *)
(* thread up only shortens its wait and is left out.                       *)
(***************************************************************************)
EXTENDS Naturals, Sequences, FiniteSets

CONSTANTS
    Writers,    \* threads that log
    Size,       \* the number of slots of the ring
    MaxSize,    \* max_size, in entries here
    MaxFiles,   \* max_files, the number of archived files
    MaxLog,     \* bound on the entries of a writer
    Ops         \* what Ruby code asks for: "flush", "shutdown"

ASSUME LogAssumption ==
    /\ Size \in Nat /\ Size >= 2
    /\ MaxSize \in Nat \ {0} /\ MaxFiles \in Nat /\ MaxLog \in Nat
    /\ Ops \subseteq {"flush", "shutdown"}

Entries == Writers \X (1..MaxLog)

VARIABLES
    queue,      \* the entries between head and tail
    hand,       \* the entry the log thread writes, at head
    push_lock,  \* the spin flag
    wpc,        \* wpc[w] is where w is in agoo_log_catv
    count,      \* count[w] is the number of entries w began to log
    done,       \* agoo_log.done
    thread,     \* the log thread is "on", "over" or joined, "none"
    files,      \* the current file and the archived ones, the newest first
    buf,        \* what stdio still buffers of the current file
    freed,      \* agoo_log.q was freed
    rpc,        \* where Ruby is in flush or shutdown
    mark,       \* the number of entries logged when that call began
    logged,     \* every entry put on the ring, in that order
    removed,    \* the number of entries in files that were removed
    wild        \* a writer used the ring after it was freed

wVars == <<push_lock, wpc, count, logged>>
fVars == <<files, buf, removed>>
rVars == <<rpc, mark, done, freed>>
vars == <<queue, hand, thread, wild, wVars, fVars, rVars>>

Init ==
    /\ queue = <<>> /\ hand = <<>>
    /\ push_lock = FALSE
    /\ wpc = [w \in Writers |-> "idle"]
    /\ count = [w \in Writers |-> 0]
    /\ done = FALSE
    /\ thread = "on"
    /\ files = <<<<>>>> /\ buf = <<>>
    /\ freed = FALSE
    /\ rpc = "idle" /\ mark = 0
    /\ logged = <<>>
    /\ removed = 0
    /\ wild = FALSE

-----------------------------------------------------------------------------
(* agoo_log_catv *)

WGoto(w, from, to) == wpc[w] = from /\ wpc' = [wpc EXCEPT ![w] = to]

\* The category is on and the logger is not shut down.
LogCall(w) ==
    /\ WGoto(w, "idle", "lock")
    /\ ~done
    /\ count[w] < MaxLog
    /\ count' = [count EXCEPT ![w] = @ + 1]
    /\ UNCHANGED <<queue, hand, thread, wild, push_lock, logged, fVars, rVars>>

\* Spin on push_lock.
LogLock(w) ==
    /\ WGoto(w, "lock", "room")
    /\ ~push_lock
    /\ push_lock' = TRUE
    /\ UNCHANGED <<queue, hand, thread, wild, count, logged, fVars, rVars>>

\* Without a log thread the entry goes to stdout.
LogDirect(w) ==
    /\ WGoto(w, "room", "idle")
    /\ thread = "none"
    /\ push_lock' = FALSE
    /\ UNCHANGED <<queue, hand, thread, wild, count, logged, fVars, rVars>>

\* Wait for head to move on.
LogRoom(w) ==
    /\ WGoto(w, "room", "put")
    /\ thread # "none"
    /\ Len(queue) < Size - 1
    /\ UNCHANGED <<queue, hand, thread, wild, push_lock, count, logged, fVars,
                   rVars>>

\* Defect: the entry goes before those that wait.
PutFront(w) == queue' = <<<<w, count[w]>>>> \o queue

Put(w) == queue' = Append(queue, <<w, count[w]>>)

\* The slot is filled and tail moved on: the ring may be freed by now.
LogPut(w) ==
    /\ WGoto(w, "put", "unlock")
    /\ IF freed
         THEN wild' = TRUE /\ UNCHANGED <<queue, logged>>
         ELSE /\ Put(w)
              /\ logged' = Append(logged, <<w, count[w]>>)
              /\ UNCHANGED wild
    /\ UNCHANGED <<hand, thread, push_lock, count, fVars, rVars>>

\* Defect: push_lock is not cleared.
LogKeepsLock(w) ==
    /\ WGoto(w, "unlock", "idle")
    /\ UNCHANGED <<queue, hand, thread, wild, push_lock, count, logged, fVars,
                   rVars>>

LogUnlock(w) ==
    /\ WGoto(w, "unlock", "idle")
    /\ push_lock' = FALSE
    /\ UNCHANGED <<queue, hand, thread, wild, count, logged, fVars, rVars>>

-----------------------------------------------------------------------------
(* The log thread *)

Pop ==
    /\ thread = "on" /\ hand = <<>> /\ queue # <<>>
    /\ hand' = <<Head(queue)>>
    /\ queue' = Tail(queue)
    /\ UNCHANGED <<thread, wild, wVars, fVars, rVars>>

\* Defect: the files with a number from max_files on are removed.
KeepFewer(all) == SubSeq(all, 1, IF Len(all) > MaxFiles THEN MaxFiles ELSE Len(all))

\* remove_old_logs: those with a number above max_files are removed.
Keep(all) ==
    SubSeq(all, 1, IF Len(all) > MaxFiles + 1 THEN MaxFiles + 1 ELSE Len(all))

\* agoo_log_rotate with the current file s: the archived files move up by one.
Rotate(s) ==
    LET all == <<<<>>, s>> \o Tail(files)
    IN  /\ files' = Keep(all)
        /\ removed' = removed + IF Len(all) > Len(Keep(all)) THEN Len(all[Len(all)]) ELSE 0

\* The entry is written, and the files are rotated when the file is full.
WriteOut ==
    /\ thread = "on" /\ hand # <<>>
    /\ IF Len(files[1]) + Len(buf) + 1 >= MaxSize
         THEN Rotate(files[1] \o buf \o hand) /\ buf' = <<>>
         ELSE buf' = buf \o hand /\ UNCHANGED <<files, removed>>
    /\ hand' = <<>>
    /\ UNCHANGED <<queue, thread, wild, wVars, rVars>>

\* Defect: the thread ends as soon as it is told to.
OverWhenDone == done /\ hand = <<>>

\* It ends once it is told to and has nothing left to write.
Over == done /\ hand = <<>> /\ queue = <<>>

End ==
    /\ thread = "on" /\ Over
    /\ thread' = "over"
    /\ UNCHANGED <<queue, hand, wild, wVars, fVars, rVars>>

-----------------------------------------------------------------------------
(* Ruby: Agoo::Log.flush and Agoo::Log.shutdown *)

Call(op) ==
    /\ op \in Ops /\ rpc = "idle" /\ ~done
    /\ rpc' = op
    /\ mark' = Len(logged)
    /\ UNCHANGED <<queue, hand, thread, wild, wVars, fVars, done, freed>>

\* agoo_log_flush: the queue is empty, so what stdio has is written to disk.
Flushed ==
    /\ rpc = "flush" /\ queue = <<>>
    /\ rpc' = "flushed"
    /\ files' = [files EXCEPT ![1] = @ \o buf]
    /\ buf' = <<>>
    /\ UNCHANGED <<queue, hand, thread, wild, wVars, removed, mark, done, freed>>

\* It gives up after its timeout.
FlushTimeout ==
    /\ rpc = "flush" /\ queue # <<>>
    /\ rpc' = "idle"
    /\ UNCHANGED <<queue, hand, thread, wild, wVars, fVars, mark, done, freed>>

Return ==
    /\ rpc = "flushed"
    /\ rpc' = "idle"
    /\ UNCHANGED <<queue, hand, thread, wild, wVars, fVars, mark, done, freed>>

\* agoo_log_close: the thread is told to end, ...
CloseDone ==
    /\ rpc = "shutdown" /\ ~done
    /\ done' = TRUE
    /\ UNCHANGED <<queue, hand, thread, wild, wVars, fVars, rpc, mark, freed>>

\* ... it is joined, the file is closed and the ring freed.
CloseJoin ==
    /\ rpc = "shutdown" /\ done /\ thread = "over"
    /\ thread' = "none"
    /\ files' = [files EXCEPT ![1] = @ \o buf]
    /\ buf' = <<>>
    /\ UNCHANGED <<queue, hand, wild, wVars, removed, rVars>>

CloseFree ==
    /\ rpc = "shutdown" /\ thread = "none"
    /\ rpc' = "closed"
    /\ freed' = TRUE
    /\ queue' = <<>>
    /\ UNCHANGED <<hand, thread, wild, wVars, fVars, mark, done>>

-----------------------------------------------------------------------------
Write(w) ==
    LogLock(w) \/ LogDirect(w) \/ LogRoom(w) \/ LogPut(w) \/ LogUnlock(w)
Thread == Pop \/ WriteOut \/ End
Ruby == Flushed \/ FlushTimeout \/ Return \/ CloseDone \/ CloseJoin \/ CloseFree

Next ==
    \/ \E w \in Writers : LogCall(w) \/ Write(w)
    \/ Thread \/ Ruby \/ \E op \in Ops : Call(op)

Spec == Init /\ [][Next]_vars

\* Each thread goes on.  The spin flag is not fair: a writer gets it in the end
\* because the others log no more than MaxLog entries.
FairSpec ==
    /\ Spec
    /\ \A w \in Writers : WF_vars(Write(w))
    /\ WF_vars(Thread) /\ WF_vars(Ruby)

-----------------------------------------------------------------------------
(* What the logger promises *)

\* The files s hold the entries that were put on the ring in the order of the
\* calls, each once and without a gap, from the first of the oldest file that is
\* kept up to the n-th at least: file i has those after cut[i] up to cut[i - 1].
Hold(s, n) ==
    \E cut \in [0..Len(s) -> 0..Len(logged)] :
        /\ cut[Len(s)] = removed /\ cut[0] >= n
        /\ \A i \in 1..Len(s) :
              cut[i] <= cut[i - 1] /\ s[i] = SubSeq(logged, cut[i] + 1, cut[i - 1])

\* The files with what stdio still buffers of the current one.
Written == [files EXCEPT ![1] = @ \o buf]

\* The type invariant: the entries that wait leave the slot of the entry popped
\* last alone (log.c:526-529).
TypeOK ==
    /\ queue \in Seq(Entries) /\ Len(queue) <= Size - 1
    /\ hand \in {<<>>} \cup {<<e>> : e \in Entries}
    /\ push_lock \in BOOLEAN
    /\ wpc \in [Writers -> {"idle", "lock", "room", "put", "unlock"}]
    /\ count \in [Writers -> 0..MaxLog]
    /\ thread \in {"on", "over", "none"}
    /\ files \in Seq(Seq(Entries)) /\ buf \in Seq(Entries)
    /\ rpc \in {"idle", "closed", "flushed"} \cup Ops
    /\ {done, freed, wild} \subseteq BOOLEAN
    /\ logged \in Seq(Entries)
    /\ mark \in 0..Len(logged) /\ removed \in 0..Len(logged)

\* The files hold the entries in order; and no more is removed than the limit on
\* the archived files asks for, whichever call comes between a rotation and the
\* next (log.c:117-147, 235-309, 504-544).
FilesInOrder ==
    /\ Hold(Written, 0)
    /\ removed > 0 => Len(files) = MaxFiles + 1

\* Agoo::Log.shutdown has written what was logged before it was called
\* (rlog.c:118-128, log.c:311-340, 381-407).
ShutdownFlushes == rpc = "closed" => Hold(files, mark)

\* Agoo::Log.flush has when it returns without a timeout (rlog.c:319-334,
\* log.c:342-356).
FlushWrites == rpc = "flushed" => Hold(files, mark)

\* Shutdown loses nothing that was logged by the time it returns.
ShutdownLosesNothing == rpc = "closed" => Hold(files, Len(logged)) /\ ~wild

\* agoo_log_catv returns: the spin on the lock and the wait for room end
\* (log.c:510-529), also while the logger is shut down.
LogReturns == \A w \in Writers : wpc[w] = "lock" ~> wpc[w] = "idle"

\* An entry on the ring reaches the file, also when the logger is told to shut
\* down before the log thread gets to it; only an entry logged during the
\* shutdown may be left (log.c:311-340).
EntriesWritten ==
    \A n \in 1..(MaxLog * Cardinality(Writers)) :
        Len(logged) >= n
            ~> (Hold(Written, n) \/ (done /\ n > mark))
=============================================================================
