---------------------------- MODULE ReadersWriter ----------------------------
(***************************************************************************)
(* What a read-write lock promises: any number of readers or one writer;   *)
(* the only reader may become the writer, the writer may become a reader,  *)
(* without the lock being free in between.                                 *)
(***************************************************************************)
CONSTANTS Thread, NULL

VARIABLES reading,  \* the threads that hold the lock for reading
          writing   \* the thread that holds it for writing, or NULL

rwView == <<reading, writing>>

RWInit == reading = {} /\ writing = NULL

StartRead(t) ==
    /\ writing = NULL /\ t \notin reading
    /\ reading' = reading \cup {t}
    /\ UNCHANGED writing

EndRead(t) ==
    /\ t \in reading
    /\ reading' = reading \ {t}
    /\ UNCHANGED writing

StartWrite(t) ==
    /\ writing = NULL /\ reading = {}
    /\ writing' = t
    /\ UNCHANGED reading

EndWrite(t) ==
    /\ writing = t
    /\ writing' = NULL
    /\ UNCHANGED reading

Upgrade(t) ==
    /\ writing = NULL /\ reading = {t}
    /\ reading' = {} /\ writing' = t

Downgrade(t) ==
    /\ writing = t /\ reading = {}
    /\ reading' = {t} /\ writing' = NULL

RWNext == \E t \in Thread : \/ StartRead(t) \/ EndRead(t)
                            \/ StartWrite(t) \/ EndWrite(t)
                            \/ Upgrade(t) \/ Downgrade(t)

RWSpec == RWInit /\ [][RWNext]_rwView
=============================================================================
