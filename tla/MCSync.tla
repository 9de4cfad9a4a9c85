------------------------------- MODULE MCSync -------------------------------
(***************************************************************************)
(* Model-checking instance of the synchronisation primitives and of the    *)
(* keyboard, whose buffer is guarded by one of them.  A behaviour          *)
(* exercises one part, chosen in the initial state; the variables of the   *)
(* others keep their initial values.                                       *)
(***************************************************************************)
EXTENDS Semaphore, CondVar, RWLock, Keyboard

CONSTANTS t1, t2, t3,
          Tested   \* the parts exercised

(* base_priority: three different levels.                                  *)
Levels == [t \in Thread |-> CASE t = t1 -> 1 [] t = t2 -> 2 [] OTHER -> 3]

(* A reader with every call, then boards for the modifiers, the dead key   *)
(* and the editing keys, where only the handler matters.                   *)
Typing ==
    {[keys |-> {Key("c"), Key("n")}, calls |-> {"getchar", "nonblock", "clear"}],
     [keys |-> {Key("LCTRL"), Key("LALT"), ExtKey("LALT"), Key("LSHIFT")}, calls |-> {}],
     [keys |-> {ExtKey("LALT"), Key("tilde"), Key("n"), Key("LSHIFT")}, calls |-> {}],
     [keys |-> {Key("CAPSLOCK"), Key("n"), ExtKey("UP_ARROW"), Key("PAGE_UP")}, calls |-> {}],
     [keys |-> {Key("LCTRL"), Key("c")}, calls |-> {}]}

VARIABLE tested

syncVars == <<tested, semVars, condVars, rwVars, keyboardVars>>

(* What a primitive leaves alone when another one is exercised.            *)
Sem(A) == tested = "semaphore" /\ A /\ UNCHANGED <<tested, condVars, rwVars, keyboardVars>>
Mtx(A) == tested = "mutex" /\ A /\ UNCHANGED <<tested, semVars, cvVars, rwVars, keyboardVars>>
Cv(A) == tested = "condvar" /\ A /\ UNCHANGED <<tested, semVars, rwVars, keyboardVars>>
Rw(A) == tested = "rwlock" /\ A /\ UNCHANGED <<tested, semVars, condVars, keyboardVars>>
Kbd(A) == tested = "keyboard" /\ A /\ UNCHANGED <<tested, semVars, condVars, rwVars>>

Init ==
    /\ tested \in Tested
    /\ semaphore_init /\ condvar_init /\ rwlock_init /\ KeyboardInit
    /\ tested # "mutex" => type = "NORMAL"
    /\ tested # "rwlock" => preference = "WRITER"
    /\ tested # "keyboard" => board = CHOOSE b \in Boards : TRUE

Next == Sem(SemNext) \/ Mtx(MutexNext) \/ Cv(CVNext) \/ Rw(RWLockNext) \/ Kbd(KeyboardNext)

(* READY threads are dispatched, the timer ticks, a thread that holds a    *)
(* lock eventually releases it, and a reader inside keyboard_getchar goes  *)
(* on.                                                                     *)
Fairness ==
    /\ WF_syncVars(Sem(SemTick))
    /\ WF_syncVars(Kbd(ReaderGoesOn))
    /\ \A t \in Thread :
         /\ WF_syncVars(Sem(sem_status[t] = "woken" /\ sem_wait(t)))
         /\ WF_syncVars(Sem(sem_timedwait(t)))
         /\ WF_syncVars(Mtx(mutex_lock_resume(t) /\ UNCHANGED type))
         /\ []<>(tested = "mutex" => owner # t \/ mutex_status[t] = "blocked")
         /\ WF_syncVars(Cv(CVReturn(t)))
         /\ WF_syncVars(Cv(ClientLocks(t) /\ mutex_status[t] = "woken"))
         /\ WF_syncVars(Cv(condvar_wait(t) \/ ClientUnlocks(t)))
         /\ WF_syncVars(Rw(rw_status[t] = "rd_woken" /\ rwlock_rdlock(t)))
         /\ WF_syncVars(Rw(rw_status[t] = "wr_woken" /\ rwlock_wrlock(t)))
         /\ WF_syncVars(Rw(rwlock_rdunlock(t) \/ (writer = t /\ rwlock_wrunlock(t))))

(* No thread waits for ever beside what it waits for: units get used, and  *)
(* blocked lockers, writers (writer preference) and readers (reader        *)
(* preference) are woken to retry, and those of a broadcast return.        *)
WaitersGetWoken ==
    /\ UnitsGetUsed /\ BlockedGetsWoken /\ WriterGetsWoken /\ ReaderGetsWoken
    /\ WaitersReturn

Spec == Init /\ [][Next]_syncVars /\ Fairness
=============================================================================
