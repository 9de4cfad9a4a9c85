------------------------------- MODULE RWLock -------------------------------
(***************************************************************************)
(* The read-write lock of src/kernel/sync.c.                               *)
(*                                                                         *)
(* Every operation runs with interrupts disabled and is atomic up to       *)
(* scheduler_schedule() in a wait loop; a woken thread re-tests the loop   *)
(* condition in a later step.  The code counts readers and does not know   *)
(* them; reading, the set of threads that believe they hold a read lock,   *)
(* is what the callers know.  Callers unlock what they hold and do not     *)
(* lock it twice.                                                          *)
(***************************************************************************)
EXTENDS Integers, Sequences, FiniteSets, Functions, KernelThreads

CONSTANTS Preferences   \* the preferences tried

ASSUME RWLockAssumption ==
    /\ IsFiniteSet(Thread)
    /\ NULL \notin Thread
    /\ Preferences \subseteq {"WRITER", "READER"}

VARIABLES preference, reader_count, writer, writer_wait_count,
          readers, writers,  \* the two wait lists, head first
          rw_status,            \* where each thread is in a wait loop
          reading            \* the threads that hold the lock for reading

rwLockVars == <<reader_count, writer, writer_wait_count, readers, writers>>
rwVars == <<preference, rwLockVars, rw_status, reading>>

RWStatus == {"run", "rd_blocked", "rd_woken", "wr_blocked", "wr_woken"}

In(s) == {t \in Thread : rw_status[t] = s}

(* Threads inside rwlock_wrlock that have not got the lock yet.            *)
WriterWaits == In("wr_blocked") \cup In("wr_woken")

rwlock_init ==
    /\ preference \in Preferences
    /\ reader_count = 0 /\ writer = NULL /\ writer_wait_count = 0
    /\ readers = <<>> /\ writers = <<>>
    /\ rw_status = [t \in Thread |-> "run"]
    /\ reading = {}

(* The caller runs and holds nothing.                                      *)
Idle(t) == rw_status[t] = "run" /\ t \notin reading /\ writer # t

(* Mutation: readers ignore the writers that wait.                         *)
ReadBarredByWriterOnly == writer # NULL

ReadBarred == writer # NULL \/ (preference = "WRITER" /\ writer_wait_count > 0)

(* Mutation: a writer looks at the writer only.                            *)
WriteBarredByWriterOnly == writer # NULL

WriteBarred == writer # NULL \/ reader_count > 0

StartRead(t) ==
    /\ ~ReadBarred
    /\ reader_count' = reader_count + 1
    /\ reading' = reading \cup {t}
    /\ rw_status' = [rw_status EXCEPT ![t] = "run"]
    /\ UNCHANGED <<preference, writer, writer_wait_count, readers, writers>>

BlockRead(t) ==
    /\ ReadBarred
    /\ readers' = Append(readers, t)
    /\ rw_status' = [rw_status EXCEPT ![t] = "rd_blocked"]
    /\ UNCHANGED <<preference, reader_count, writer, writer_wait_count, writers, reading>>

rwlock_rdlock(t) ==
    /\ Idle(t) \/ rw_status[t] = "rd_woken"
    /\ StartRead(t) \/ BlockRead(t)

rwlock_tryrdlock(t) ==
    /\ Idle(t)
    /\ \/ StartRead(t)
       \/ ReadBarred /\ UNCHANGED rwVars

(* The first pass through the wait loop announces the writer.              *)
Announced(t) == IF rw_status[t] = "run" THEN 1 ELSE 0

(* Mutation: the writer that gets the lock stays announced.                *)
StartWriteStaysAnnounced(t) ==
    /\ ~WriteBarred
    /\ writer_wait_count' = writer_wait_count + Announced(t)
    /\ writer' = t
    /\ rw_status' = [rw_status EXCEPT ![t] = "run"]
    /\ UNCHANGED <<preference, reader_count, readers, writers, reading>>

StartWrite(t) ==
    /\ ~WriteBarred
    /\ writer_wait_count' = writer_wait_count + Announced(t) - 1
    /\ writer' = t
    /\ rw_status' = [rw_status EXCEPT ![t] = "run"]
    /\ UNCHANGED <<preference, reader_count, readers, writers, reading>>

BlockWrite(t) ==
    /\ WriteBarred
    /\ writer_wait_count' = writer_wait_count + Announced(t)
    /\ writers' = Append(writers, t)
    /\ rw_status' = [rw_status EXCEPT ![t] = "wr_blocked"]
    /\ UNCHANGED <<preference, reader_count, writer, readers, reading>>

rwlock_wrlock(t) ==
    /\ Idle(t) \/ rw_status[t] = "wr_woken"
    /\ StartWrite(t) \/ BlockWrite(t)

rwlock_trywrlock(t) ==
    /\ Idle(t)
    /\ \/ /\ ~WriteBarred
          /\ writer' = t
          /\ UNCHANGED <<preference, reader_count, writer_wait_count, readers, writers,
                         rw_status, reading>>
       \/ WriteBarred /\ UNCHANGED rwVars

(* The thread states after waking the readers R and the writers W.         *)
Wake(R, W) ==
    rw_status' = [t \in Thread |-> CASE t \in R -> "rd_woken"
                                  [] t \in W -> "wr_woken"
                                  [] OTHER -> rw_status[t]]

WakeWriter ==
    /\ writers' = Tail(writers)
    /\ Wake({}, {Head(writers)})
    /\ UNCHANGED readers

WakeNobody == UNCHANGED <<readers, writers, rw_status>>

(* Mutation: the last reader wakes nobody.                                 *)
LastReaderWakesNobody == WakeNobody

LastReaderWakes ==
    IF reader_count = 1 /\ writers # <<>> THEN WakeWriter ELSE WakeNobody

rwlock_rdunlock(t) ==
    /\ rw_status[t] = "run" /\ t \in reading
    /\ reader_count' = reader_count - 1
    /\ LastReaderWakes
    /\ reading' = reading \ {t}
    /\ UNCHANGED <<preference, writer, writer_wait_count>>

(* Mutation: with writers in the list, only a writer is woken.             *)
WakeEitherKind ==
    IF writers # <<>> THEN WakeWriter
    ELSE /\ readers' = <<>>
         /\ Wake(Range(readers), {})
         /\ UNCHANGED writers

(* All readers wake; the writer after them too, since nobody reads yet.    *)
WakeReadersAndWriter ==
    /\ readers' = <<>>
    /\ IF reader_count = 0 /\ writers # <<>>
         THEN writers' = Tail(writers) /\ Wake(Range(readers), {Head(writers)})
         ELSE UNCHANGED writers /\ Wake(Range(readers), {})

rwlock_wrunlock(t) ==
    /\ rw_status[t] = "run"
    /\ \/ writer # t /\ UNCHANGED rwVars
       \/ /\ writer = t
          /\ writer' = NULL
          /\ IF preference = "WRITER" /\ writers # <<>>
               THEN WakeWriter
               ELSE WakeReadersAndWriter
          /\ UNCHANGED <<preference, reader_count, writer_wait_count, reading>>

OnlyReader == reader_count = 1 /\ writer = NULL

(* The caller holds a read lock, or nobody does and the call fails.        *)
rwlock_upgrade(t) ==
    /\ rw_status[t] = "run" /\ (t \in reading \/ reader_count = 0)
    /\ \/ reader_count = 0 /\ UNCHANGED rwVars
       \/ /\ reader_count > 0 /\ OnlyReader
          /\ reader_count' = reader_count - 1
          /\ writer' = t
          /\ reading' = reading \ {t}
          /\ UNCHANGED <<preference, writer_wait_count, readers, writers, rw_status>>
       \/ reader_count > 0 /\ ~OnlyReader /\ UNCHANGED rwVars

rwlock_downgrade(t) ==
    /\ rw_status[t] = "run"
    /\ \/ writer # t /\ UNCHANGED rwVars
       \/ /\ writer = t
          /\ writer' = NULL
          /\ reader_count' = reader_count + 1
          /\ readers' = <<>>
          /\ Wake(Range(readers), {})
          /\ reading' = reading \cup {t}
          /\ UNCHANGED <<preference, writer_wait_count, writers>>

RWLockNext == \E t \in Thread :
    \/ rwlock_rdlock(t) \/ rwlock_tryrdlock(t) \/ rwlock_rdunlock(t)
    \/ rwlock_wrlock(t) \/ rwlock_trywrlock(t) \/ rwlock_wrunlock(t)
    \/ rwlock_upgrade(t) \/ rwlock_downgrade(t)

RWLockSpec == rwlock_init /\ [][RWLockNext]_rwVars

-----------------------------------------------------------------------------
(* Every variable stays in its range.                                      *)
RWTypeOK ==
    /\ preference \in Preferences
    /\ reader_count \in Nat /\ writer_wait_count \in Nat
    /\ writer \in Thread \cup {NULL}
    /\ readers \in Seq(Thread) /\ writers \in Seq(Thread)
    /\ rw_status \in [Thread -> RWStatus]
    /\ reading \subseteq Thread

(* The two counters are what their names say: reader_count the threads     *)
(* that read, writer_wait_count the threads inside rwlock_wrlock without    *)
(* the lock.  A drift would bar readers or writers for ever.               *)
CountsExact ==
    /\ reader_count = Cardinality(reading)
    /\ writer_wait_count = Cardinality(WriterWaits)

(* Each list holds exactly the threads that block on it, each once.        *)
RWWaitListsExact ==
    /\ IsInjective(readers) /\ Range(readers) = In("rd_blocked")
    /\ IsInjective(writers) /\ Range(writers) = In("wr_blocked")

(* No wake-up is lost: a reader stays in its list only while something     *)
(* bars it, a writer only while the lock is held or a woken writer is on   *)
(* its way (the wake-ups of rdunlock, wrunlock and downgrade).             *)
RWNoLostWakeup ==
    /\ readers # <<>> => ReadBarred
    /\ writers # <<>> => WriteBarred \/ In("wr_woken") # {}

(* "New readers block when a writer is waiting" (sync.h): with writer      *)
(* preference a waiting writer is overtaken by no reader, except a writer  *)
(* that downgrades.                                                        *)
WriterPreferred ==
    [][preference = "WRITER" /\ WriterWaits # {} => reading' \ reading \subseteq {writer}]_rwVars

(* "Prevents writer starvation" (sync.h): with writer preference a writer  *)
(* in the list is eventually woken to retry.                               *)
WriterGetsWoken ==
    \A t \in Thread : (preference = "WRITER" /\ rw_status[t] = "wr_blocked")
                        ~> (rw_status[t] = "wr_woken")

(* With reader preference a reader in the list is eventually woken.        *)
ReaderGetsWoken ==
    \A t \in Thread : (preference = "READER" /\ rw_status[t] = "rd_blocked")
                        ~> (rw_status[t] = "rd_woken")

(* The lock implements the abstract read-write lock.                       *)
RWView == INSTANCE ReadersWriter WITH writing <- writer

ImplementsReadersWriter == RWView!RWSpec
=============================================================================
