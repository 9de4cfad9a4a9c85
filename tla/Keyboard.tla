------------------------------ MODULE Keyboard ------------------------------
(***************************************************************************)
(* The PS/2 keyboard: the interrupt handler that turns scancodes into      *)
(* characters, the circular buffer, and the thread that reads it.  An      *)
(* interrupt may come between any two steps of the reader; the handler     *)
(* itself is not interrupted.  The reader is the shell, which calls its    *)
(* commands in its own thread; a program that polls the keyboard with      *)
(* SYS_KBHIT while the shell reads is a second reader, left out here.      *)
(***************************************************************************)
EXTENDS Integers, Sequences, FiniteSets

CONSTANTS KEYBOARD_BUFFER_SIZE,
          Boards       \* the uses of which Init picks one: the keys, and the calls of the reader

VARIABLES
    board,        \* the keys that are used and the functions that are called
    held,         \* the keys that are down
    wire,         \* the bytes that wait in the controller
    mods,         \* ctrl_pressed, shift_pressed, alt_pressed, altgr_pressed, capslock_active, e0_prefix
    dead,         \* pending_dead_key
    buffer, kb_head, kb_tail,
    units,        \* the count of keyboard_sem
    sem_ready,    \* keyboard_sem_initialized
    reader,       \* where the reading thread is
    got,          \* the character it has loaded
    pending       \* history: the characters put and neither read nor cleared

boardVars == <<board, held, wire>>
decoderVars == <<mods, dead>>
queueVars == <<buffer, kb_head, kb_tail, pending>>
readerVars == <<units, sem_ready, reader, got>>
keyboardVars == <<boardVars, decoderVars, queueVars, readerVars>>

None == "none"
Small == {"c", "n"}
Large == [c |-> "C", n |-> "N"]
Letters == Small \cup {Large[ch] : ch \in Small}

(* A key sends its code when it goes down and again, marked, when it comes *)
(* up; an extended key sends the prefix first.                             *)
Key(code) == [code |-> code, ext |-> FALSE]
ExtKey(code) == [code |-> code, ext |-> TRUE]
(* The keys a board may have.  The right Ctrl key is not among them: the   *)
(* handler ignores its release.                                            *)
Printing == {"c", "n", "tilde"}
Codes == Printing \cup {"LCTRL", "LSHIFT", "LALT", "CAPSLOCK", "PAGE_UP", "UP_ARROW"}
Keys == {Key(c) : c \in Codes} \cup {ExtKey("LALT"), ExtKey("UP_ARROW")}

ASSUME KeyboardAssumption ==
    /\ KEYBOARD_BUFFER_SIZE \in Nat \ {0}
    /\ \A b \in Boards : b.keys \subseteq Keys

Byte(code, up) == [code |-> code, up |-> up]
Bytes(k, up) == (IF k.ext THEN <<Byte("E0", FALSE)>> ELSE <<>>) \o <<Byte(k.code, up)>>

(* The active keymap: a letter key, and a key that has the dead tilde.     *)
Keymap ==
    [normal |-> [c |-> "c", n |-> "n", tilde |-> None],
     shift |-> [c |-> "C", n |-> "N", tilde |-> None],
     altgr |-> [c |-> None, n |-> None, tilde |-> "DEAD_KEY_TILDE"]]

DeadKeys == {"DEAD_KEY_TILDE"}

keymap_resolve_dead_key(dk, ch) ==
    CASE ch = "n" -> "n with tilde"
      [] ch = "N" -> "N with tilde"
      [] OTHER -> ch

-----------------------------------------------------------------------------
KeyboardInit ==
    /\ board \in Boards /\ held = {} /\ wire = <<>>
    /\ mods = [ctrl |-> FALSE, shift |-> FALSE, alt |-> FALSE, altgr |-> FALSE,
               caps |-> FALSE, e0 |-> FALSE]
    /\ dead = None
    /\ buffer = [i \in 0 .. KEYBOARD_BUFFER_SIZE - 1 |-> None]
    /\ kb_head = 0 /\ kb_tail = 0 /\ pending = <<>>
    /\ units = 0 /\ sem_ready = FALSE /\ reader = "out" /\ got = None

(* The user presses and releases keys; the controller holds the bytes of   *)
(* one key event.                                                          *)
KeyMoves(k) ==
    /\ wire = <<>>
    /\ held' = IF k \in held THEN held \ {k} ELSE held \cup {k}
    /\ wire' = Bytes(k, k \in held)
    /\ UNCHANGED <<board, decoderVars, queueVars, readerVars>>

-----------------------------------------------------------------------------
(* Mutation: the unit is not posted.                                       *)
PostKeyForgotten == UNCHANGED <<units, reader>>

(* sem_post on keyboard_sem, whose maximum is the size of the buffer.      *)
PostKey ==
    IF units < KEYBOARD_BUFFER_SIZE
    THEN units' = units + 1 /\ reader' = IF reader = "blocked" THEN "wait" ELSE reader
    ELSE UNCHANGED <<units, reader>>

(* Mutation: a full buffer is written to.                                  *)
HasRoomAlways == TRUE

HasRoom == (kb_head + 1) % KEYBOARD_BUFFER_SIZE # kb_tail

keyboard_buffer_put(ch) ==
    /\ IF HasRoom
       THEN /\ buffer' = [buffer EXCEPT ![kb_head] = ch]
            /\ kb_head' = (kb_head + 1) % KEYBOARD_BUFFER_SIZE
            /\ pending' = Append(pending, ch)
            /\ IF sem_ready THEN PostKey ELSE UNCHANGED <<units, reader>>
       ELSE UNCHANGED <<buffer, kb_head, pending, units, reader>>
    /\ UNCHANGED <<kb_tail, sem_ready, got>>

(* The table is chosen by the modifiers.                                   *)
Translated(code) ==
    CASE mods.altgr /\ Keymap.altgr[code] # None -> Keymap.altgr[code]
      [] ~(mods.altgr /\ Keymap.altgr[code] # None) /\ mods.shift -> Keymap.shift[code]
      [] OTHER -> Keymap.normal[code]

(* Caps Lock inverts Shift, for letters.                                   *)
Cased(ch) ==
    CASE ch \in Small /\ mods.caps # mods.shift -> Large[ch]
      [] ch \in Letters \ Small /\ mods.caps -> CHOOSE s \in Small : Large[s] = ch
      [] OTHER -> ch

(* A key that is no modifier: a dead key waits for the next character,     *)
(* which Ctrl+C does not use up.                                           *)
Typed(ch) ==
    CASE ch = None -> UNCHANGED <<dead, queueVars, readerVars>>
      [] ch \in DeadKeys -> dead' = ch /\ UNCHANGED <<queueVars, readerVars>>
      [] mods.ctrl /\ ch \in {"c", "C"} -> keyboard_buffer_put("KEY_CTRL_C") /\ UNCHANGED dead
      [] OTHER -> /\ dead' = None
                  /\ keyboard_buffer_put(
                       Cased(IF dead = None THEN ch ELSE keymap_resolve_dead_key(dead, ch)))

Set(field, value) ==
    /\ mods' = [mods EXCEPT ![field] = value, !.e0 = FALSE]
    /\ UNCHANGED <<dead, queueVars, readerVars>>

(* Mutation: the release of AltGr is taken for that of Alt.                *)
ReleasedIgnoresPrefix(code) ==
    CASE code = "LCTRL" -> Set("ctrl", FALSE)
      [] code = "LSHIFT" -> Set("shift", FALSE)
      [] code = "LALT" -> Set("alt", FALSE)
      [] OTHER -> Set("e0", FALSE)

Released(code) ==
    CASE mods.e0 /\ code = "LALT" -> Set("altgr", FALSE)
      [] ~mods.e0 /\ code = "LCTRL" -> Set("ctrl", FALSE)
      [] ~mods.e0 /\ code = "LSHIFT" -> Set("shift", FALSE)
      [] ~mods.e0 /\ code = "LALT" -> Set("alt", FALSE)
      [] OTHER -> Set("e0", FALSE)

Pressed(code) ==
    CASE mods.e0 /\ code = "LALT" -> Set("altgr", TRUE)
      [] ~mods.e0 /\ code = "LALT" -> Set("alt", TRUE)
      [] code = "LCTRL" -> Set("ctrl", TRUE)
      [] code = "LSHIFT" -> Set("shift", TRUE)
      [] code = "CAPSLOCK" -> Set("caps", ~mods.caps)
      [] code = "PAGE_UP" -> Set("e0", FALSE)
      [] code = "UP_ARROW" -> /\ mods' = [mods EXCEPT !.e0 = FALSE]
                              /\ keyboard_buffer_put("KEY_UP") /\ UNCHANGED dead
      [] OTHER -> mods' = [mods EXCEPT !.e0 = FALSE] /\ Typed(Translated(code))

keyboard_handler_c ==
    /\ wire # <<>> /\ wire' = Tail(wire)
    /\ LET b == Head(wire) IN
         CASE b.code = "E0" -> mods' = [mods EXCEPT !.e0 = TRUE] /\ UNCHANGED <<dead, queueVars, readerVars>>
           [] b.code # "E0" /\ b.up -> Released(b.code)
           [] OTHER -> Pressed(b.code)
    /\ UNCHANGED <<board, held>>

-----------------------------------------------------------------------------
keyboard_has_char == kb_head # kb_tail

At(place) == reader' = place

(* keyboard_buffer_get loads the character and then advances kb_tail; an   *)
(* interrupt may come in between.                                          *)
Load == got' = buffer[kb_tail] /\ At("got") /\ UNCHANGED <<units, sem_ready, queueVars>>

Advance ==
    /\ kb_tail' = (kb_tail + 1) % KEYBOARD_BUFFER_SIZE
    /\ pending' = Tail(pending)
    /\ UNCHANGED <<buffer, kb_head>>

keyboard_buffer_get ==
    /\ reader = "got" /\ Advance /\ At("out")
    /\ got' = None /\ UNCHANGED <<units, sem_ready>>

(* The call creates the semaphore the first time, and flags it as created  *)
(* one step later.                                                         *)
keyboard_getchar ==
    /\ reader = "out"
    /\ IF sem_ready THEN At("test") /\ UNCHANGED units ELSE At("flag") /\ units' = 0
    /\ UNCHANGED <<sem_ready, got, queueVars>>

FlagSemaphore ==
    /\ reader = "flag" /\ sem_ready' = TRUE /\ At("test")
    /\ UNCHANGED <<units, got, queueVars>>

(* A character that is there is taken without its unit.                    *)
TestBuffer ==
    /\ reader = "test"
    /\ \/ keyboard_has_char /\ Load
       \/ ~keyboard_has_char /\ At("wait") /\ UNCHANGED <<units, sem_ready, got, queueVars>>

(* sem_timedwait: the timeout only ends a wait that has not begun, because *)
(* the scheduler does not wake a thread that blocks here (Semaphore).      *)
WaitKey ==
    /\ reader = "wait"
    /\ \/ units > 0 /\ units' = units - 1 /\ At("taken")
       \/ units = 0 /\ At("blocked") /\ UNCHANGED units
       \/ units = 0 /\ At("recheck") /\ UNCHANGED units
    /\ UNCHANGED <<sem_ready, got, queueVars>>

(* A unit may stand for a character that has been read without it.         *)
TakeKey ==
    /\ reader = "taken"
    /\ \/ keyboard_has_char /\ Load
       \/ ~keyboard_has_char /\ At("recheck") /\ UNCHANGED <<units, sem_ready, got, queueVars>>

RecheckBuffer ==
    /\ reader = "recheck"
    /\ \/ keyboard_has_char /\ Load
       \/ ~keyboard_has_char /\ At("wait") /\ UNCHANGED <<units, sem_ready, got, queueVars>>

keyboard_getchar_nonblock == reader = "out" /\ keyboard_has_char /\ Load

(* Two stores, with an interrupt possible between them.                    *)
keyboard_clear_buffer ==
    /\ \/ reader = "out" /\ kb_head' = 0 /\ pending' = <<>> /\ At("clear") /\ UNCHANGED kb_tail
       \/ reader = "clear" /\ kb_tail' = 0 /\ At("out") /\ UNCHANGED <<kb_head, pending>>
    /\ UNCHANGED <<buffer, units, sem_ready, got>>

ReaderGoesOn ==
    /\ FlagSemaphore \/ TestBuffer \/ WaitKey \/ TakeKey \/ RecheckBuffer \/ keyboard_buffer_get
    /\ UNCHANGED <<boardVars, decoderVars>>

ReaderCalls ==
    /\ \/ "getchar" \in board.calls /\ keyboard_getchar
       \/ "nonblock" \in board.calls /\ keyboard_getchar_nonblock
       \/ "clear" \in board.calls /\ keyboard_clear_buffer
    /\ UNCHANGED <<boardVars, decoderVars>>

KeyboardNext ==
    \/ \E k \in board.keys : KeyMoves(k)
    \/ keyboard_handler_c \/ ReaderGoesOn \/ ReaderCalls

KeyboardSpec == KeyboardInit /\ [][KeyboardNext]_keyboardVars

-----------------------------------------------------------------------------
(* The characters between kb_tail and kb_head.                             *)
Buffered ==
    [i \in 1 .. (kb_head - kb_tail) % KEYBOARD_BUFFER_SIZE |->
        buffer[(kb_tail + i - 1) % KEYBOARD_BUFFER_SIZE]]

(* Whatever the interrupts do between the steps of keyboard_buffer_get and *)
(* keyboard_clear_buffer, the buffer holds the accepted characters in the  *)
(* order they were typed, and the one a reader has loaded is the oldest.   *)
KeysInOrder ==
    /\ reader # "clear" => Buffered = pending
    /\ reader = "got" => pending # <<>> /\ got = Head(pending)

(* keyboard_getchar: a reader that waits gets a key that is typed, however *)
(* the units of the semaphore and the characters have drifted apart.       *)
KeyGetsRead ==
    (reader \notin {"out", "clear"} /\ pending # <<>>) ~> reader = "got"

(* keyboard_handler_c: when the controller has delivered every byte, a     *)
(* modifier is on only while a key that sets it is down.                   *)
ModifiersMatch ==
    wire = <<>> =>
        /\ mods.ctrl => \E k \in held : k.code = "LCTRL"
        /\ mods.shift => \E k \in held : k.code = "LSHIFT"
        /\ mods.alt => Key("LALT") \in held
        /\ mods.altgr => ExtKey("LALT") \in held
        /\ ~mods.e0
=============================================================================
