--------------------------- MODULE KeyboardProofs ---------------------------
(***************************************************************************)
(* The keyboard's circular buffer, for every size of it and every set of   *)
(* keys: what is typed comes out in order, whatever the interrupts do      *)
(* between the steps of the reader.  And the decoder: the modifiers are    *)
(* those of the keys that are down.                                        *)
(***************************************************************************)
EXTENDS Keyboard, TLAPS

N == KEYBOARD_BUFFER_SIZE

(* The characters keyboard_handler_c puts in the buffer.                   *)
Char == Letters \cup {"n with tilde", "N with tilde", "KEY_CTRL_C", "KEY_UP"}

(* An index that has been advanced by less than the size of the buffer.    *)
Wrap(x) == IF x < N THEN x ELSE x - N

QueueTypeOK ==
    /\ kb_head \in 0 .. N - 1 /\ kb_tail \in 0 .. N - 1
    /\ buffer \in [0 .. N - 1 -> Char \cup {None}]
    /\ pending \in Seq(Char)

WireByte == [code : Codes \cup {"E0"}, up : BOOLEAN]

WireTypeOK == board \in Boards /\ wire \in Seq(WireByte)

(* The pending characters lie from kb_tail up to kb_head.                  *)
FromTail ==
    /\ Len(pending) = IF kb_tail <= kb_head THEN kb_head - kb_tail ELSE kb_head - kb_tail + N
    /\ \A i \in 1 .. Len(pending) : pending[i] = buffer[Wrap(kb_tail + i - 1)]

(* Between the two stores of keyboard_clear_buffer they lie from 0 on, and *)
(* kb_head, which counts as full before it reaches kb_tail, has not        *)
(* wrapped.                                                                *)
FromZero ==
    /\ kb_head = Len(pending) /\ (kb_tail > 0 => kb_head < kb_tail)
    /\ \A i \in 1 .. Len(pending) : pending[i] = buffer[i - 1]

(* The character that has been loaded is still the oldest.                 *)
GotOldest == reader = "got" => pending # <<>> /\ got = Head(pending)

(* The inductive invariant.  KeysInOrder says nothing of the time between  *)
(* the stores of keyboard_clear_buffer; FromZero does.                     *)
KeyboardIInv ==
    /\ QueueTypeOK /\ WireTypeOK /\ GotOldest
    /\ reader # "clear" => FromTail
    /\ reader = "clear" => FromZero

(* Remainders by the size of the buffer, as the code computes its indices. *)
LEMMA Mod ==
    /\ \A x \in 0 .. 2 * N - 1 : x % N = Wrap(x)
    /\ \A x \in -N .. N - 1 : x % N = IF x >= 0 THEN x ELSE x + N
<1> N \in Nat \ {0}
  BY KeyboardAssumption DEF N
<1>1. \A x \in 0 .. N - 1 : x % N = x
  OBVIOUS
<1>2. \A x \in N .. 2 * N - 1 : x % N = x - N
  OBVIOUS
<1>3. \A x \in -N .. -1 : x % N = x + N
  OBVIOUS
<1> QED BY <1>1, <1>2, <1>3 DEF Wrap

(* A character put in a buffer that is not empty leaves the oldest one.    *)
LEMMA AppendHead ==
    ASSUME NEW S, NEW s \in Seq(S), NEW e \in S, s # <<>>
    PROVE  Append(s, e) # <<>> /\ Head(Append(s, e)) = Head(s)
OBVIOUS

(* keyboard_buffer_put, called by the handler at any step of the reader.   *)
LEMMA PutStep ==
    ASSUME QueueTypeOK, GotOldest, reader # "clear" => FromTail, reader = "clear" => FromZero,
           NEW ch \in Char, keyboard_buffer_put(ch)
    PROVE  /\ QueueTypeOK' /\ GotOldest'
           /\ reader' # "clear" => FromTail'
           /\ reader' = "clear" => FromZero'
<1> N \in Nat \ {0}
  BY KeyboardAssumption DEF N
<1>1. (kb_head + 1) % N = Wrap(kb_head + 1)
  BY Mod DEF QueueTypeOK
<1>2. (reader' = "clear") <=> (reader = "clear")
  BY DEF keyboard_buffer_put, PostKey
<1>3. (reader' = "got") <=> (reader = "got")
  BY DEF keyboard_buffer_put, PostKey
<1>4. CASE ~HasRoom
  <2>1. UNCHANGED <<buffer, kb_head, kb_tail, pending, got>>
    BY <1>4 DEF keyboard_buffer_put
  <2> QED BY <1>2, <1>3, <2>1 DEF QueueTypeOK, GotOldest, FromTail, FromZero
<1>5. CASE HasRoom
  <2>1. /\ buffer' = [buffer EXCEPT ![kb_head] = ch] /\ kb_head' = Wrap(kb_head + 1)
        /\ pending' = Append(pending, ch) /\ kb_tail' = kb_tail /\ got' = got
        /\ Wrap(kb_head + 1) # kb_tail
    BY <1>1, <1>5 DEF keyboard_buffer_put, HasRoom, N
  <2>2. QueueTypeOK'
    BY <2>1 DEF QueueTypeOK, Wrap
  <2>3. /\ Len(pending') = Len(pending) + 1 /\ Len(pending) \in Nat
        /\ \A i \in 1 .. Len(pending) : pending'[i] = pending[i]
        /\ pending'[Len(pending) + 1] = ch
    BY <2>1 DEF QueueTypeOK
  <2>4. GotOldest'
    <3>1. pending # <<>> => pending' # <<>> /\ Head(pending') = Head(pending)
      <4>1. pending \in Seq(Char)
        BY DEF QueueTypeOK
      <4> QED BY <2>1, <4>1, AppendHead, Zenon
    <3> QED BY <1>3, <2>1, <3>1 DEF GotOldest
  <2>5. ASSUME reader # "clear" PROVE FromTail'
    <3>1. FromTail
      BY <2>5
    <3>2. Len(pending') = IF kb_tail' <= kb_head' THEN kb_head' - kb_tail' ELSE kb_head' - kb_tail' + N
      <4>1. Len(pending) = IF kb_tail <= kb_head THEN kb_head - kb_tail ELSE kb_head - kb_tail + N
        BY <3>1 DEF FromTail
      <4>2. kb_head \in 0 .. N - 1 /\ kb_tail \in 0 .. N - 1
        BY DEF QueueTypeOK
      <4>3. CASE kb_head + 1 < N
        BY <2>1, <2>3, <4>1, <4>2, <4>3 DEF Wrap
      <4>4. CASE kb_head + 1 = N
        BY <2>1, <2>3, <4>1, <4>2, <4>4 DEF Wrap
      <4> QED BY <4>2, <4>3, <4>4
    <3>3. \A i \in 1 .. Len(pending) :
            /\ Wrap(kb_tail + i - 1) \in 0 .. N - 1 /\ Wrap(kb_tail + i - 1) # kb_head
      BY <3>1 DEF FromTail, QueueTypeOK, Wrap
    <3>4. Wrap(kb_tail + (Len(pending) + 1) - 1) = kb_head
      BY <2>1, <3>1 DEF FromTail, QueueTypeOK, Wrap
    <3>5. \A i \in 1 .. Len(pending') : pending'[i] = buffer'[Wrap(kb_tail' + i - 1)]
      <4> SUFFICES ASSUME NEW i \in 1 .. Len(pending') PROVE pending'[i] = buffer'[Wrap(kb_tail + i - 1)]
        BY <2>1
      <4>1. CASE i = Len(pending) + 1
        BY <2>1, <2>3, <3>4, <4>1 DEF QueueTypeOK
      <4>2. CASE i \in 1 .. Len(pending)
        BY <2>1, <2>3, <3>1, <3>3, <4>2 DEF QueueTypeOK, FromTail
      <4> QED BY <2>3, <4>1, <4>2
    <3> QED BY <3>2, <3>5 DEF FromTail, Wrap
  <2>6. ASSUME reader = "clear" PROVE FromZero'
    <3>1. FromZero
      BY <2>6
    <3>2. kb_head + 1 < N /\ kb_head' = kb_head + 1
      BY <2>1, <3>1 DEF FromZero, QueueTypeOK, Wrap
    <3>3. kb_head' = Len(pending') /\ (kb_tail' > 0 => kb_head' < kb_tail')
      BY <2>1, <2>3, <3>1, <3>2 DEF FromZero, QueueTypeOK, Wrap
    <3>4. \A i \in 1 .. Len(pending') : pending'[i] = buffer'[i - 1]
      BY <2>1, <2>3, <3>1 DEF FromZero, QueueTypeOK
    <3> QED BY <3>3, <3>4 DEF FromZero
  <2> QED BY <1>2, <2>2, <2>4, <2>5, <2>6
<1> QED BY <1>4, <1>5

(* What a key types, whatever the modifiers and the dead key are.          *)
LEMMA TypedChar ==
    ASSUME NEW code \in Printing
    PROVE  /\ Translated(code) \in Letters \cup {None} \cup DeadKeys
           /\ \A ch \in Letters : Cased(IF dead = None THEN ch ELSE keymap_resolve_dead_key(dead, ch)) \in Char
<1>1. Letters = {"c", "n", "C", "N"}
  BY DEF Letters, Small, Large
<1>2. Translated(code) \in Letters \cup {None} \cup DeadKeys
  BY <1>1 DEF Translated, Keymap, Printing, DeadKeys, None
<1>3. \A ch \in Letters : keymap_resolve_dead_key(dead, ch) \in Letters \cup {"n with tilde", "N with tilde"}
  BY <1>1 DEF keymap_resolve_dead_key
<1>4. \A ch \in Letters \cup {"n with tilde", "N with tilde"} : Cased(ch) \in Char
  <2>1. (CHOOSE s \in Small : Large[s] = "C") \in Small /\ (CHOOSE s \in Small : Large[s] = "N") \in Small
    <3>1. (\E s \in Small : Large[s] = "C") /\ (\E s \in Small : Large[s] = "N")
      BY DEF Small, Large
    <3> QED BY <3>1
  <2>2. \A ch \in {"c", "n"} : Cased(ch) \in Char
    <3>1. Large["c"] = "C" /\ Large["n"] = "N"
      BY DEF Large
    <3> QED BY <1>1, <3>1 DEF Cased, Char, Small
  <2>3. \A ch \in {"n with tilde", "N with tilde"} : Cased(ch) \in Char
    BY <1>1 DEF Cased, Char, Small
  <2>4. Cased("C") \in Char
    BY <1>1, <2>1 DEF Cased, Char, Small
  <2>5. Cased("N") \in Char
    BY <1>1, <2>1 DEF Cased, Char, Small
  <2> QED BY <1>1, <2>2, <2>3, <2>4, <2>5
<1> QED BY <1>2, <1>3, <1>4

(* The interrupt handler: it puts a character or leaves the queue alone.   *)
LEMMA HandlerStep ==
    ASSUME KeyboardIInv, keyboard_handler_c
    PROVE  KeyboardIInv'
<1> USE DEF KeyboardIInv
<1> DEFINE b == Head(wire)
<1>1. WireTypeOK' /\ b.code \in Codes \cup {"E0"}
  <2>1. wire # <<>> /\ wire' = Tail(wire) /\ board' = board
    BY DEF keyboard_handler_c
  <2>2. b \in WireByte /\ Tail(wire) \in Seq(WireByte)
    BY <2>1 DEF WireTypeOK
  <2>3. b.code \in Codes \cup {"E0"}
    BY <2>2 DEF WireByte
  <2> QED BY <2>1, <2>2, <2>3 DEF WireTypeOK
<1>2. CASE UNCHANGED <<queueVars, readerVars>>
  BY <1>1, <1>2 DEF queueVars, readerVars, QueueTypeOK, GotOldest, FromTail, FromZero
<1>3. CASE \E ch \in Char : keyboard_buffer_put(ch)
  BY <1>1, <1>3, PutStep
<1>4. b.code \in Printing /\ Typed(Translated(b.code)) =>
         UNCHANGED <<queueVars, readerVars>> \/ \E ch \in Char : keyboard_buffer_put(ch)
  <2> SUFFICES ASSUME b.code \in Printing, Typed(Translated(b.code)), ~UNCHANGED <<queueVars, readerVars>>
               PROVE  \E ch \in Char : keyboard_buffer_put(ch)
    OBVIOUS
  <2> DEFINE ch == Translated(b.code)
  <2>1. ch \in Letters
    <3>1. ch # None
      BY DEF Typed, None, DeadKeys
    <3>2. ch \notin DeadKeys
      BY DEF Typed, None, DeadKeys
    <3> QED BY <3>1, <3>2, TypedChar
  <2>2. "KEY_CTRL_C" \in Char
    BY DEF Char
  <2> QED BY <2>1, <2>2, TypedChar DEF Typed
<1>5. UNCHANGED <<queueVars, readerVars>> \/ \E ch \in Char : keyboard_buffer_put(ch)
  <2>1. CASE b.code = "E0"
    BY <2>1 DEF keyboard_handler_c
  <2>2. CASE b.code # "E0" /\ b.up
    BY <2>2 DEF keyboard_handler_c, Released, Set
  <2>3. CASE b.code # "E0" /\ ~b.up
    <3>1. Pressed(b.code)
      BY <2>3 DEF keyboard_handler_c
    <3>2. "KEY_UP" \in Char
      BY DEF Char
    <3> QED BY <1>1, <1>4, <2>3, <3>1, <3>2 DEF Pressed, Set, Codes
  <2> QED BY <2>1, <2>2, <2>3
<1> QED BY <1>2, <1>3, <1>5

(* The reader.  Loading takes the oldest character without removing it.    *)
LEMMA LoadStep ==
    ASSUME KeyboardIInv, reader # "clear", keyboard_has_char, Load, UNCHANGED boardVars
    PROVE  KeyboardIInv'
<1> USE DEF KeyboardIInv
<1> N \in Nat \ {0}
  BY KeyboardAssumption DEF N
<1>1. UNCHANGED <<buffer, kb_head, kb_tail, pending, board, wire>> /\ reader' = "got" /\ got' = buffer[kb_tail]
  BY DEF Load, At, queueVars, boardVars
<1>2. Len(pending) >= 1 /\ pending # <<>>
  BY DEF FromTail, QueueTypeOK, keyboard_has_char
<1>3. Head(pending) = buffer[kb_tail]
  BY <1>2 DEF FromTail, QueueTypeOK, Wrap
<1>4. GotOldest'
  BY <1>1, <1>2, <1>3 DEF GotOldest
<1> QED BY <1>1, <1>4 DEF QueueTypeOK, WireTypeOK, FromTail

(* keyboard_buffer_get's second step removes it.                           *)
LEMMA GetStep ==
    ASSUME KeyboardIInv, keyboard_buffer_get, UNCHANGED boardVars
    PROVE  KeyboardIInv'
<1> USE DEF KeyboardIInv
<1> N \in Nat \ {0}
  BY KeyboardAssumption DEF N
<1>1. /\ UNCHANGED <<buffer, kb_head, board, wire>> /\ reader = "got" /\ reader' = "out"
      /\ pending' = Tail(pending) /\ pending # <<>>
  BY DEF keyboard_buffer_get, Advance, At, boardVars, GotOldest
<1>2. kb_tail' = Wrap(kb_tail + 1)
  <2>1. (kb_tail + 1) % N = Wrap(kb_tail + 1)
    BY Mod DEF QueueTypeOK
  <2> QED BY <2>1 DEF keyboard_buffer_get, Advance, N
<1>3. /\ pending' \in Seq(Char) /\ Len(pending') = Len(pending) - 1 /\ Len(pending) \in Nat \ {0}
      /\ \A i \in 1 .. Len(pending') : pending'[i] = pending[i + 1]
  BY <1>1 DEF QueueTypeOK
<1>4. QueueTypeOK'
  BY <1>1, <1>2, <1>3 DEF QueueTypeOK, Wrap
<1>5. FromTail'
  <2>1. FromTail
    BY <1>1
  <2>2. Len(pending') = IF kb_tail' <= kb_head' THEN kb_head' - kb_tail' ELSE kb_head' - kb_tail' + N
    <3>1. Len(pending) = IF kb_tail <= kb_head THEN kb_head - kb_tail ELSE kb_head - kb_tail + N
      BY <2>1 DEF FromTail
    <3>2. kb_head \in 0 .. N - 1 /\ kb_tail \in 0 .. N - 1
      BY DEF QueueTypeOK
    <3>3. CASE kb_tail + 1 < N
      BY <1>1, <1>2, <1>3, <3>1, <3>2, <3>3 DEF Wrap
    <3>4. CASE kb_tail + 1 = N
      BY <1>1, <1>2, <1>3, <3>1, <3>2, <3>4 DEF Wrap
    <3> QED BY <3>2, <3>3, <3>4
  <2>3. \A i \in 1 .. Len(pending') : Wrap(kb_tail' + i - 1) = Wrap(kb_tail + (i + 1) - 1)
    BY <1>2, <1>3, <2>1 DEF FromTail, QueueTypeOK, Wrap
  <2>4. \A i \in 1 .. Len(pending') : pending'[i] = buffer'[Wrap(kb_tail' + i - 1)]
    BY <1>1, <1>3, <2>1, <2>3 DEF FromTail
  <2> QED BY <2>2, <2>4 DEF FromTail, Wrap
<1> QED BY <1>1, <1>4, <1>5 DEF WireTypeOK, GotOldest

(* The two stores of keyboard_clear_buffer.                                *)
LEMMA ClearStep ==
    ASSUME KeyboardIInv, keyboard_clear_buffer, UNCHANGED boardVars
    PROVE  KeyboardIInv'
<1> USE DEF KeyboardIInv
<1> N \in Nat \ {0}
  BY KeyboardAssumption DEF N
<1>1. WireTypeOK'
  BY DEF WireTypeOK, boardVars
<1>2. CASE reader = "out"
  <2>1. /\ kb_head' = 0 /\ pending' = <<>> /\ reader' = "clear" /\ UNCHANGED <<kb_tail, buffer>>
    BY <1>2 DEF keyboard_clear_buffer, At
  <2>2. QueueTypeOK' /\ GotOldest'
    BY <2>1 DEF QueueTypeOK, GotOldest
  <2>3. FromZero'
    BY <2>1 DEF FromZero, QueueTypeOK
  <2> QED BY <1>1, <2>1, <2>2, <2>3
<1>3. CASE reader = "clear"
  <2>1. /\ kb_tail' = 0 /\ reader' = "out" /\ UNCHANGED <<kb_head, pending, buffer>>
    BY <1>3 DEF keyboard_clear_buffer, At
  <2>2. QueueTypeOK' /\ GotOldest'
    BY <2>1 DEF QueueTypeOK, GotOldest
  <2>3. FromTail'
    BY <1>3, <2>1 DEF FromZero, FromTail, QueueTypeOK, Wrap
  <2> QED BY <1>1, <2>1, <2>2, <2>3
<1> QED BY <1>2, <1>3 DEF keyboard_clear_buffer

(* The steps of the reader that only move it on.                           *)
LEMMA MoveStep ==
    ASSUME KeyboardIInv, reader \notin {"clear", "got"}, reader' \notin {"clear", "got"},
           UNCHANGED queueVars, UNCHANGED <<board, wire>>
    PROVE  KeyboardIInv'
BY DEF KeyboardIInv, queueVars, QueueTypeOK, WireTypeOK, GotOldest, FromTail

(* Every step of the keyboard keeps the inductive invariant.               *)
LEMMA KeyboardInductive == KeyboardIInv /\ [KeyboardNext]_keyboardVars => KeyboardIInv'
<1> SUFFICES ASSUME KeyboardIInv, [KeyboardNext]_keyboardVars PROVE KeyboardIInv'
  OBVIOUS
<1>1. ASSUME NEW k \in board.keys, KeyMoves(k) PROVE KeyboardIInv'
  <2>1. k \in Keys
    BY <1>1, KeyboardAssumption DEF KeyboardIInv, WireTypeOK
  <2>2. k.code \in Codes
    BY <2>1 DEF Keys, Key, ExtKey, Codes
  <2>3. wire' \in Seq(WireByte)
    <3>1. Byte(k.code, k \in held) \in WireByte /\ Byte("E0", FALSE) \in WireByte
      BY <2>2 DEF Byte, WireByte
    <3>2. \A x, y \in WireByte : <<>> \o <<y>> \in Seq(WireByte) /\ <<x>> \o <<y>> \in Seq(WireByte)
      OBVIOUS
    <3> QED BY <1>1, <3>1, <3>2 DEF KeyMoves, Bytes
  <2>4. WireTypeOK'
    BY <1>1, <2>3 DEF WireTypeOK, KeyMoves, KeyboardIInv
  <2> QED BY <1>1, <2>4 DEF KeyMoves, KeyboardIInv, queueVars, readerVars, QueueTypeOK, GotOldest, FromTail, FromZero
<1>2. CASE keyboard_handler_c
  BY <1>2, HandlerStep
<1>3. CASE ReaderGoesOn
  <2> USE <1>3 DEF ReaderGoesOn
  <2>1. CASE keyboard_buffer_get
    BY <2>1, GetStep
  <2>2. CASE FlagSemaphore
    BY <2>2, MoveStep DEF FlagSemaphore, At, boardVars
  <2>3. CASE TestBuffer
    BY <2>3, MoveStep, LoadStep DEF TestBuffer, At, boardVars
  <2>4. CASE WaitKey
    BY <2>4, MoveStep DEF WaitKey, At, boardVars
  <2>5. CASE TakeKey
    BY <2>5, MoveStep, LoadStep DEF TakeKey, At, boardVars
  <2>6. CASE RecheckBuffer
    BY <2>6, MoveStep, LoadStep DEF RecheckBuffer, At, boardVars
  <2> QED BY <2>1, <2>2, <2>3, <2>4, <2>5, <2>6
<1>4. CASE ReaderCalls
  <2> USE <1>4 DEF ReaderCalls
  <2>1. CASE keyboard_getchar
    BY <2>1, MoveStep DEF keyboard_getchar, At, boardVars
  <2>2. CASE keyboard_getchar_nonblock
    BY <2>2, LoadStep DEF keyboard_getchar_nonblock
  <2>3. CASE keyboard_clear_buffer
    BY <2>3, ClearStep
  <2> QED BY <2>1, <2>2, <2>3
<1>5. CASE UNCHANGED keyboardVars
  BY <1>5 DEF keyboardVars, boardVars, queueVars, readerVars, KeyboardIInv, QueueTypeOK, WireTypeOK,
              GotOldest, FromTail, FromZero
<1> QED BY <1>1, <1>2, <1>3, <1>4, <1>5 DEF KeyboardNext

(* The empty buffer of boot.                                               *)
LEMMA KeyboardInitial == KeyboardInit => KeyboardIInv
<1> SUFFICES ASSUME KeyboardInit PROVE KeyboardIInv
  OBVIOUS
<1> N \in Nat \ {0}
  BY KeyboardAssumption DEF N
<1> USE DEF KeyboardInit
<1>1. QueueTypeOK
  BY DEF QueueTypeOK, N
<1>2. WireTypeOK /\ GotOldest
  BY DEF WireTypeOK, GotOldest
<1>3. FromTail
  BY DEF FromTail
<1> QED BY <1>1, <1>2, <1>3 DEF KeyboardIInv

(* KEYBOARD_BUFFER_SIZE of any value: keyboard_buffer_get hands out the    *)
(* accepted characters in the order they were typed, also when interrupts  *)
(* come between its steps or between those of keyboard_clear_buffer.       *)
THEOREM KeyboardOrder == KeyboardSpec => []KeysInOrder
<1>1. KeyboardIInv => KeysInOrder
  <2> SUFFICES ASSUME KeyboardIInv, reader # "clear" PROVE Buffered = pending
    BY DEF KeyboardIInv, KeysInOrder, GotOldest
  <2> N \in Nat \ {0}
    BY KeyboardAssumption DEF N
  <2> USE DEF KeyboardIInv
  <2>1. (kb_head - kb_tail) % N = Len(pending)
    <3>1. kb_head - kb_tail \in -N .. N - 1
      BY DEF QueueTypeOK
    <3>2. (kb_head - kb_tail) % N = IF kb_head - kb_tail >= 0 THEN kb_head - kb_tail ELSE kb_head - kb_tail + N
      BY <3>1, Mod
    <3>3. Len(pending) = IF kb_tail <= kb_head THEN kb_head - kb_tail ELSE kb_head - kb_tail + N
      BY DEF FromTail
    <3> QED BY <3>2, <3>3 DEF QueueTypeOK
  <2>2. \A i \in 1 .. Len(pending) : buffer[(kb_tail + i - 1) % N] = pending[i]
    <3> SUFFICES ASSUME NEW i \in 1 .. Len(pending) PROVE buffer[(kb_tail + i - 1) % N] = pending[i]
      OBVIOUS
    <3>1. kb_tail + i - 1 \in 0 .. 2 * N - 1
      BY DEF FromTail, QueueTypeOK
    <3>2. (kb_tail + i - 1) % N = Wrap(kb_tail + i - 1)
      BY <3>1, Mod
    <3> QED BY <3>2 DEF FromTail
  <2>3. pending = [i \in 1 .. Len(pending) |-> pending[i]]
    BY DEF QueueTypeOK
  <2> QED BY <2>1, <2>2, <2>3 DEF Buffered, N
<1> QED BY KeyboardInitial, KeyboardInductive, <1>1, PTL DEF KeyboardSpec
-----------------------------------------------------------------------------
(* The decoder of scancodes.                                               *)

Flags == [ctrl : BOOLEAN, shift : BOOLEAN, alt : BOOLEAN, altgr : BOOLEAN,
          caps : BOOLEAN, e0 : BOOLEAN]

(* A modifier is on only while its key is in h.                            *)
OnlyBy(h) ==
    /\ mods.ctrl => Key("LCTRL") \in h
    /\ mods.shift => Key("LSHIFT") \in h
    /\ mods.alt => Key("LALT") \in h
    /\ mods.altgr => ExtKey("LALT") \in h

(* What is left on the wire of the event of key k.                         *)
Arriving(k, up) ==
    \/ wire = <<Byte("E0", FALSE), Byte(k.code, up)>> /\ k.ext /\ ~mods.e0
    \/ wire = <<Byte(k.code, up)>> /\ (mods.e0 <=> k.ext)

(* The inductive invariant: while the bytes of a key event arrive, the     *)
(* modifier of that key may be behind, and e0_prefix says whether its      *)
(* prefix has been seen.                                                   *)
Decoding ==
    \/ wire = <<>> /\ ~mods.e0 /\ OnlyBy(held)
    \/ \E k \in Keys, up \in BOOLEAN :
         (up <=> k \notin held) /\ OnlyBy(held \cup {k}) /\ Arriving(k, up)

DecoderIInv == board \in Boards /\ mods \in Flags /\ Decoding

(* The six flags are stored one at a time, and e0_prefix with each.        *)
LEMMA SetFlag ==
    ASSUME mods \in Flags, NEW value \in BOOLEAN,
           NEW field \in {"ctrl", "shift", "alt", "altgr", "caps", "e0"}, field = "e0" => ~value,
           mods' = [mods EXCEPT ![field] = value, !.e0 = FALSE]
    PROVE  /\ mods' \in Flags /\ ~mods'.e0
           /\ mods'.ctrl = IF field = "ctrl" THEN value ELSE mods.ctrl
           /\ mods'.shift = IF field = "shift" THEN value ELSE mods.shift
           /\ mods'.alt = IF field = "alt" THEN value ELSE mods.alt
           /\ mods'.altgr = IF field = "altgr" THEN value ELSE mods.altgr
<1>1. mods' = [mods EXCEPT ![field] = value, !["e0"] = FALSE]
  OBVIOUS
<1>2. mods' \in Flags
  BY <1>1 DEF Flags
<1>3. mods'.e0 = FALSE
  BY <1>1 DEF Flags
<1>4. mods'.ctrl = IF field = "ctrl" THEN value ELSE mods.ctrl
  BY <1>1 DEF Flags
<1>5. mods'.shift = IF field = "shift" THEN value ELSE mods.shift
  BY <1>1 DEF Flags
<1>6. mods'.alt = IF field = "alt" THEN value ELSE mods.alt
  BY <1>1 DEF Flags
<1>7. mods'.altgr = IF field = "altgr" THEN value ELSE mods.altgr
  BY <1>1 DEF Flags
<1> QED BY <1>2, <1>3, <1>4, <1>5, <1>6, <1>7

(* The keys that set modifiers, told apart.                                *)
LEMMA KeyFields ==
    ASSUME NEW k \in Keys
    PROVE  /\ k.code \in Codes /\ k.code # "E0" /\ k.ext \in BOOLEAN
           /\ k.ext => k.code \in {"LALT", "UP_ARROW"}
           /\ k = Key("LCTRL") => k.code = "LCTRL"
           /\ k = Key("LSHIFT") => k.code = "LSHIFT"
           /\ k = Key("LALT") => k.code = "LALT" /\ ~k.ext
           /\ k = ExtKey("LALT") => k.code = "LALT" /\ k.ext
           /\ k.code = "LCTRL" => k = Key("LCTRL")
           /\ k.code = "LSHIFT" => k = Key("LSHIFT")
           /\ k.code = "LALT" /\ ~k.ext => k = Key("LALT")
           /\ k.code = "LALT" /\ k.ext => k = ExtKey("LALT")
<1>1. \A c : Key(c).code = c /\ ExtKey(c).code = c
  BY DEF Key, ExtKey
<1>2. \A c : Key(c).ext = FALSE
  BY DEF Key
<1>3. \A c : ExtKey(c).ext = TRUE
  BY DEF ExtKey
<1>4. Codes = {"c", "n", "tilde", "LCTRL", "LSHIFT", "LALT", "CAPSLOCK", "PAGE_UP", "UP_ARROW"}
  BY DEF Codes, Printing
<1>5. CASE \E c \in Codes : k = Key(c)
  BY <1>1, <1>2, <1>3, <1>4, <1>5
<1>6. CASE k \in {ExtKey("LALT"), ExtKey("UP_ARROW")}
  <2>1. k.ext = TRUE /\ k.code \in {"LALT", "UP_ARROW"} /\ (k.code = "LALT" => k = ExtKey("LALT"))
    BY <1>1, <1>3, <1>6
  <2>2. \A c : k # Key(c)
    BY <1>2, <2>1
  <2>3. k.ext \in BOOLEAN /\ k.ext
    BY <2>1, Zenon
  <2>4. k.code \in Codes /\ k.code # "E0" /\ k.code # "LCTRL" /\ k.code # "LSHIFT"
    BY <1>4, <2>1
  <2> QED BY <1>1, <2>1, <2>2, <2>3, <2>4, Zenon
<1> QED BY <1>5, <1>6 DEF Keys

(* The bytes of a key, put together.                                       *)
LEMMA Concats ==
    ASSUME NEW x, NEW y
    PROVE  <<x>> \o <<y>> = <<x, y>> /\ <<>> \o <<y>> = <<y>>
<1>1. <<x>> \in Seq({x, y}) /\ <<y>> \in Seq({x, y}) /\ <<>> \in Seq({x, y})
  OBVIOUS
<1>2. /\ <<x>> \o <<y>> \in Seq({x, y}) /\ Len(<<x>> \o <<y>>) = 2
      /\ (<<x>> \o <<y>>)[1] = x /\ (<<x>> \o <<y>>)[2] = y
  BY <1>1
<1>3. /\ <<>> \o <<y>> \in Seq({x, y}) /\ Len(<<>> \o <<y>>) = 1
      /\ (<<>> \o <<y>>)[1] = y
  BY <1>1
<1>4. \A s \in Seq({x, y}) : Len(s) = 2 => s = <<s[1], s[2]>>
  OBVIOUS
<1>5. \A s \in Seq({x, y}) : Len(s) = 1 => s = <<s[1]>>
  OBVIOUS
<1> QED BY <1>2, <1>3, <1>4, <1>5, Zenon

(* The user moves a key when the wire is empty.                            *)
LEMMA KeyMovesStep ==
    ASSUME DecoderIInv, NEW k \in board.keys, KeyMoves(k)
    PROVE  DecoderIInv'
<1>1. k \in Keys
  BY KeyboardAssumption DEF DecoderIInv
<1>2. wire = <<>> /\ board' = board /\ mods' = mods
  BY DEF KeyMoves, decoderVars
<1>3. ~mods.e0 /\ OnlyBy(held)
  <2>1. \A x, y : <<>> # <<x>> /\ <<>> # <<x, y>>
    OBVIOUS
  <2> QED BY <1>2, <2>1, Zenon DEF DecoderIInv, Decoding, Arriving
<1>4. PICK up \in BOOLEAN : (up <=> k \in held) /\ wire' = Bytes(k, up)
  <2>1. (k \in held) = TRUE \/ (k \in held) = FALSE
    OBVIOUS
  <2> QED BY <2>1, Zenon DEF KeyMoves
<1>5. (up <=> k \notin held') /\ held \subseteq held' \cup {k}
  BY <1>4 DEF KeyMoves
<1>6. /\ mods'.ctrl => Key("LCTRL") \in held' \cup {k}
      /\ mods'.shift => Key("LSHIFT") \in held' \cup {k}
      /\ mods'.alt => Key("LALT") \in held' \cup {k}
      /\ mods'.altgr => ExtKey("LALT") \in held' \cup {k}
      /\ ~mods'.e0
  BY <1>2, <1>3, <1>5 DEF OnlyBy
<1>7. \/ wire' = <<Byte("E0", FALSE), Byte(k.code, up)>> /\ k.ext
      \/ wire' = <<Byte(k.code, up)>> /\ ~k.ext
  BY <1>4, Concats, Zenon DEF Bytes
<1>8. Decoding'
  BY <1>1, <1>5, <1>6, <1>7, Zenon DEF Decoding, Arriving, OnlyBy
<1> QED BY <1>2, <1>8, Zenon DEF DecoderIInv

(* keyboard_handler_c on the last byte of an event.                        *)
LEMMA EventStep ==
    ASSUME DecoderIInv, NEW k \in Keys, NEW up \in BOOLEAN, up <=> k \notin held,
           OnlyBy(held \cup {k}), wire = <<Byte(k.code, up)>>, mods.e0 <=> k.ext,
           keyboard_handler_c
    PROVE  mods' \in Flags /\ ~mods'.e0 /\ OnlyBy(held)'
<1>1. mods \in Flags /\ held' = held
  BY DEF DecoderIInv, keyboard_handler_c
<1>2. /\ k.code \in Codes /\ k.code # "E0"
      /\ IF up THEN Released(k.code) ELSE Pressed(k.code)
  <2>1. Head(wire) = Byte(k.code, up)
    OBVIOUS
  <2>2. Byte(k.code, up).code = k.code
    BY DEF Byte
  <2>3. Byte(k.code, up).up = up
    BY DEF Byte
  <2> QED BY <2>1, <2>2, <2>3, KeyFields, Zenon DEF keyboard_handler_c
<1>3. PICK field \in {"ctrl", "shift", "alt", "altgr", "caps", "e0"}, value \in BOOLEAN :
        /\ mods' \in Flags /\ ~mods'.e0
        /\ mods'.ctrl = IF field = "ctrl" THEN value ELSE mods.ctrl
        /\ mods'.shift = IF field = "shift" THEN value ELSE mods.shift
        /\ mods'.alt = IF field = "alt" THEN value ELSE mods.alt
        /\ mods'.altgr = IF field = "altgr" THEN value ELSE mods.altgr
        /\ up => ~value
        /\ k = Key("LCTRL") => field = "ctrl"
        /\ k = Key("LSHIFT") => field = "shift"
        /\ k = Key("LALT") => field = "alt"
        /\ k = ExtKey("LALT") => field = "altgr"
        /\ field = "ctrl" => k = Key("LCTRL")
        /\ field = "shift" => k = Key("LSHIFT")
        /\ field = "alt" => k = Key("LALT")
        /\ field = "altgr" => k = ExtKey("LALT")
  <2>1. PICK field \in {"ctrl", "shift", "alt", "altgr", "caps", "e0"}, value \in BOOLEAN :
          /\ mods' = [mods EXCEPT ![field] = value, !.e0 = FALSE] /\ (field = "e0" => ~value)
          /\ up => ~value
          /\ k.code = "LCTRL" <=> field = "ctrl"
          /\ k.code = "LSHIFT" <=> field = "shift"
          /\ k.code = "LALT" /\ ~k.ext <=> field = "alt"
          /\ k.code = "LALT" /\ k.ext <=> field = "altgr"
    <3>1. CASE up
      BY <1>2, <3>1, KeyFields DEF Released, Set
    <3>2. CASE ~up
      BY <1>2, <3>2, KeyFields DEF Pressed, Set
    <3> QED BY <3>1, <3>2
  <2> QED BY <1>1, <2>1, SetFlag, KeyFields
<1>4. \A x : x \in held \cup {k} => x \in held \/ x = k
  OBVIOUS
<1>5. ~up => k \in held
  OBVIOUS
<1>6. mods'.ctrl => Key("LCTRL") \in held
  BY <1>3, <1>4, <1>5 DEF OnlyBy
<1>7. mods'.shift => Key("LSHIFT") \in held
  BY <1>3, <1>4, <1>5 DEF OnlyBy
<1>8. mods'.alt => Key("LALT") \in held
  BY <1>3, <1>4, <1>5 DEF OnlyBy
<1>9. mods'.altgr => ExtKey("LALT") \in held
  BY <1>3, <1>4, <1>5 DEF OnlyBy
<1> QED BY <1>1, <1>3, <1>6, <1>7, <1>8, <1>9, Zenon DEF OnlyBy

(* keyboard_handler_c: the prefix is remembered, the code is decoded.      *)
LEMMA DecodeStep ==
    ASSUME DecoderIInv, keyboard_handler_c
    PROVE  DecoderIInv'
<1>1. wire # <<>> /\ wire' = Tail(wire) /\ board' = board /\ held' = held
  BY DEF keyboard_handler_c
<1>2. PICK k \in Keys, up \in BOOLEAN :
        (up <=> k \notin held) /\ OnlyBy(held \cup {k}) /\ Arriving(k, up)
  BY <1>1, Zenon DEF DecoderIInv, Decoding
<1>3. CASE wire = <<Byte("E0", FALSE), Byte(k.code, up)>> /\ k.ext /\ ~mods.e0
  <2>1. Head(wire) = Byte("E0", FALSE) /\ Tail(wire) = <<Byte(k.code, up)>>
    BY <1>3
  <2>2. Byte("E0", FALSE).code = "E0"
    BY DEF Byte
  <2>3. mods' = [mods EXCEPT !.e0 = TRUE]
    BY <2>1, <2>2, Zenon DEF keyboard_handler_c
  <2>4. mods \in Flags
    BY DEF DecoderIInv
  <2>5. mods' \in Flags
    BY <2>3, <2>4 DEF Flags
  <2>6. mods'.e0 = TRUE
    BY <2>3, <2>4 DEF Flags
  <2>7. mods'.ctrl = mods.ctrl /\ mods'.shift = mods.shift /\ mods'.alt = mods.alt /\ mods'.altgr = mods.altgr
    BY <2>3, <2>4 DEF Flags
  <2>8. OnlyBy(held \cup {k})'
    BY <1>2, <1>1, <2>7, Zenon DEF OnlyBy
  <2>9. Arriving(k, up)'
    BY <1>1, <1>3, <2>1, <2>6, Zenon DEF Arriving
  <2>10. Decoding'
    BY <1>1, <1>2, <2>8, <2>9, Zenon DEF Decoding
  <2> QED BY <1>1, <2>5, <2>10, Zenon DEF DecoderIInv
<1>4. CASE wire = <<Byte(k.code, up)>> /\ (mods.e0 <=> k.ext)
  <2>1. mods' \in Flags /\ ~mods'.e0 /\ OnlyBy(held)'
    BY <1>2, <1>4, EventStep
  <2>2. wire' = <<>>
    BY <1>1, <1>4
  <2> QED BY <1>1, <2>1, <2>2, Zenon DEF DecoderIInv, Decoding
<1> QED BY <1>2, <1>3, <1>4, Zenon DEF Arriving

LEMMA DecoderInductive == DecoderIInv /\ [KeyboardNext]_keyboardVars => DecoderIInv'
<1> SUFFICES ASSUME DecoderIInv, [KeyboardNext]_keyboardVars PROVE DecoderIInv'
  OBVIOUS
<1>1. ASSUME UNCHANGED <<boardVars, decoderVars>> PROVE DecoderIInv'
  <2>1. UNCHANGED <<board, held, wire, mods>>
    BY <1>1, Zenon DEF boardVars, decoderVars
  <2>2. \A k, up : Arriving(k, up) => Arriving(k, up)'
    BY <2>1, Zenon DEF Arriving
  <2>3. \A h : OnlyBy(h) => OnlyBy(h)'
    BY <2>1, Zenon DEF OnlyBy
  <2>4. Decoding'
    BY <2>1, <2>2, <2>3, Zenon DEF DecoderIInv, Decoding
  <2> QED BY <2>1, <2>4, Zenon DEF DecoderIInv
<1>2. CASE ReaderGoesOn \/ ReaderCalls
  BY <1>1, <1>2, Zenon DEF ReaderGoesOn, ReaderCalls
<1>3. CASE UNCHANGED keyboardVars
  BY <1>1, <1>3, Zenon DEF keyboardVars
<1>4. CASE \E k \in board.keys : KeyMoves(k)
  BY <1>4, KeyMovesStep
<1>5. CASE keyboard_handler_c
  BY <1>5, DecodeStep
<1> QED BY <1>2, <1>3, <1>4, <1>5, Zenon DEF KeyboardNext

(* Whatever keys are pressed and released, in any order, a modifier of     *)
(* keyboard_handler_c is on only while its key is down, Alt and AltGr told *)
(* apart by the prefix, and no prefix is left over.                        *)
THEOREM ModifiersFollowKeys == KeyboardSpec => []ModifiersMatch
<1>1. KeyboardInit => DecoderIInv
  <2> SUFFICES ASSUME KeyboardInit PROVE DecoderIInv
    OBVIOUS
  <2>1. mods = [ctrl |-> FALSE, shift |-> FALSE, alt |-> FALSE, altgr |-> FALSE,
                caps |-> FALSE, e0 |-> FALSE]
    BY DEF KeyboardInit
  <2>2. mods \in Flags
    BY <2>1 DEF Flags
  <2>3. mods.ctrl = FALSE /\ mods.shift = FALSE /\ mods.alt = FALSE
    BY <2>1
  <2>4. mods.altgr = FALSE /\ mods.e0 = FALSE
    BY <2>1
  <2> QED BY <2>2, <2>3, <2>4, Zenon DEF KeyboardInit, DecoderIInv, Decoding, OnlyBy
<1>2. DecoderIInv => ModifiersMatch
  <2> SUFFICES ASSUME DecoderIInv, wire = <<>> PROVE ~mods.e0 /\ OnlyBy(held)
    <3>1. Key("LCTRL").code = "LCTRL" /\ Key("LSHIFT").code = "LSHIFT"
      BY DEF Key
    <3> QED BY <3>1, Zenon DEF ModifiersMatch, OnlyBy
  <2>1. \A x, y : <<>> # <<x>> /\ <<>> # <<x, y>>
    OBVIOUS
  <2> QED BY <2>1, Zenon DEF DecoderIInv, Decoding, Arriving
<1> QED BY <1>1, <1>2, DecoderInductive, PTL DEF KeyboardSpec
=============================================================================
