-------------------------- MODULE LifecycleProofs --------------------------
(***************************************************************************)
(* The exit of threads, for every number of threads, programs and joiners: *)
(* thread_join never sleeps on a thread that has exited and never returns  *)
(* before it has, the reaper's list chains each zombie once, and no object *)
(* of a process is freed twice or left behind by a failed creation.        *)
(***************************************************************************)
EXTENDS Lifecycle, ListLemmas, FiniteSetTheorems

Object == Base \cup {"file", "phdrs", "segbuf", "stack_buffer", "thread"}

StageSet == [take : SUBSET Object, drop : SUBSET Object, undo : SUBSET Object]

(* What a program holds when stage i of its creation begins.               *)
HeldAt(p, i) ==
    CASE i \in {1, 2} -> {}
      [] i = 3 -> {"proc"}
      [] i = 4 -> {"proc", "kernel_stack"}
      [] i \in {6, 7} -> Base \cup {"file"}
      [] i \in {8, 9, 10} -> Base \cup {"file", "phdrs"}
      [] i = 11 -> Base \cup {"file", "phdrs", "segbuf"}
      [] i = 14 /\ p \in WithArgs -> Base \cup {"stack_buffer"}
      [] i = Running(p) -> Base \cup {"thread"}
      [] OTHER -> Base

(* A stage begins with h and ends with k, or with nothing when it fails.   *)
Leads(s, h, k) == s.undo = h /\ (h \cup s.take) \ s.drop = k

(* Only the last stage creates the thread.                                 *)
Creates(s) == "thread" \in s.take

(* Functions called one after the other.                                   *)
LEMMA ConcatAt ==
    ASSUME NEW s \in Seq(StageSet), NEW u \in Seq(StageSet)
    PROVE  /\ s \o u \in Seq(StageSet) /\ Len(s \o u) = Len(s) + Len(u)
           /\ \A i \in 1 .. Len(s) : (s \o u)[i] = s[i]
           /\ \A i \in 1 .. Len(u) : (s \o u)[Len(s) + i] = u[i]
OBVIOUS

(* The fields of a stage.                                                  *)
LEMMA StageIs ==
    ASSUME NEW take \in SUBSET Object, NEW drop \in SUBSET Object, NEW undo \in SUBSET Object
    PROVE  /\ Stage(take, drop, undo) \in StageSet
           /\ Stage(take, drop, undo).take = take
           /\ Stage(take, drop, undo).drop = drop
           /\ Stage(take, drop, undo).undo = undo
BY DEF StageSet, Stage

(* elf_load_file: the caller's objects are freed with those of the loader. *)
LEMMA LoadTable ==
    /\ elf_load_file \in Seq(StageSet) /\ Len(elf_load_file) = 7
    /\ \A i \in 1 .. 7 : ~Creates(elf_load_file[i])
    /\ Leads(elf_load_file[1], Base, Base \cup {"file"})
    /\ Leads(elf_load_file[2], Base \cup {"file"}, Base \cup {"file"})
    /\ Leads(elf_load_file[3], Base \cup {"file"}, Base \cup {"file", "phdrs"})
    /\ Leads(elf_load_file[4], Base \cup {"file", "phdrs"}, Base \cup {"file", "phdrs"})
    /\ Leads(elf_load_file[5], Base \cup {"file", "phdrs"}, Base \cup {"file", "phdrs"})
    /\ Leads(elf_load_file[6], Base \cup {"file", "phdrs"}, Base \cup {"file", "phdrs", "segbuf"})
    /\ Leads(elf_load_file[7], Base \cup {"file", "phdrs", "segbuf"}, Base)
<1> DEFINE a == Stage({"file"}, {}, {})
           b == Stage({}, {}, {"file"})
           c == Stage({"phdrs"}, {}, {"file"})
           d == Stage({}, {}, {"phdrs", "file"})
           e == Stage({"segbuf"}, {}, {"phdrs", "file"})
           f == Stage({}, {"segbuf", "phdrs", "file"}, {"segbuf", "phdrs", "file"})
           L(s) == Stage(s.take, s.drop, s.undo \cup Base)
<1>1. LoadStages = <<a, b, c, d, d, e, f>>
  BY DEF LoadStages
<1>2. /\ {} \in SUBSET Object /\ {"file"} \in SUBSET Object /\ {"phdrs"} \in SUBSET Object
      /\ {"phdrs", "file"} \in SUBSET Object /\ {"segbuf"} \in SUBSET Object
      /\ {"segbuf", "phdrs", "file"} \in SUBSET Object /\ Base \in SUBSET Object
  BY DEF Object
<1>3. /\ a \in StageSet /\ b \in StageSet /\ c \in StageSet
      /\ d \in StageSet /\ e \in StageSet /\ f \in StageSet
  BY <1>2, StageIs
<1>4. ASSUME NEW s \in StageSet
      PROVE  L(s) \in StageSet /\ L(s).take = s.take /\ L(s).drop = s.drop /\ L(s).undo = s.undo \cup Base
  <2>1. s.take \in SUBSET Object /\ s.drop \in SUBSET Object /\ s.undo \cup Base \in SUBSET Object
    BY <1>2 DEF StageSet
  <2> QED BY <2>1, StageIs
<1>5. /\ a.take = {"file"} /\ a.drop = {} /\ a.undo = {}
      /\ b.take = {} /\ b.drop = {} /\ b.undo = {"file"}
      /\ c.take = {"phdrs"} /\ c.drop = {} /\ c.undo = {"file"}
      /\ d.take = {} /\ d.drop = {} /\ d.undo = {"phdrs", "file"}
      /\ e.take = {"segbuf"} /\ e.drop = {} /\ e.undo = {"phdrs", "file"}
      /\ f.take = {} /\ f.drop = {"segbuf", "phdrs", "file"} /\ f.undo = {"segbuf", "phdrs", "file"}
  BY <1>2, StageIs
<1>6. elf_load_file = [i \in 1 .. 7 |-> L(LoadStages[i])]
  BY <1>1 DEF elf_load_file
<1> HIDE DEF a, b, c, d, e, f, L
<1>7. \A i \in 1 .. 7 : LoadStages[i] \in StageSet
  BY <1>1, <1>3
<1>8. elf_load_file \in Seq(StageSet) /\ Len(elf_load_file) = 7
  BY <1>4, <1>6, <1>7
<1>9. /\ elf_load_file[1] = L(a) /\ elf_load_file[2] = L(b) /\ elf_load_file[3] = L(c)
      /\ elf_load_file[4] = L(d) /\ elf_load_file[5] = L(d) /\ elf_load_file[6] = L(e)
      /\ elf_load_file[7] = L(f)
  BY <1>1, <1>6
<1>10. \A i \in 1 .. 7 : ~Creates(elf_load_file[i])
  <2>1. /\ "thread" \notin a.take /\ "thread" \notin b.take /\ "thread" \notin c.take
        /\ "thread" \notin d.take /\ "thread" \notin e.take /\ "thread" \notin f.take
    BY <1>5
  <2>2. /\ ~Creates(L(a)) /\ ~Creates(L(b)) /\ ~Creates(L(c))
        /\ ~Creates(L(d)) /\ ~Creates(L(e)) /\ ~Creates(L(f))
    BY <1>3, <1>4, <2>1, Zenon DEF Creates
  <2>3. \A i \in 1 .. 7 : i = 1 \/ i = 2 \/ i = 3 \/ i = 4 \/ i = 5 \/ i = 6 \/ i = 7
    OBVIOUS
  <2> QED BY <1>9, <2>2, <2>3, Zenon
<1>11. Leads(L(a), Base, Base \cup {"file"}) /\ Leads(L(b), Base \cup {"file"}, Base \cup {"file"})
  BY <1>3, <1>4, <1>5 DEF Leads, Base
<1>12. Leads(L(c), Base \cup {"file"}, Base \cup {"file", "phdrs"})
  BY <1>3, <1>4, <1>5 DEF Leads, Base
<1>13. Leads(L(d), Base \cup {"file", "phdrs"}, Base \cup {"file", "phdrs"})
  BY <1>3, <1>4, <1>5 DEF Leads, Base
<1>14. Leads(L(e), Base \cup {"file", "phdrs"}, Base \cup {"file", "phdrs", "segbuf"})
  BY <1>3, <1>4, <1>5 DEF Leads, Base
<1>15. Leads(L(f), Base \cup {"file", "phdrs", "segbuf"}, Base)
  BY <1>3, <1>4, <1>5 DEF Leads, Base
<1> QED BY <1>8, <1>9, <1>10, <1>11, <1>12, <1>13, <1>14, <1>15

(* Up to the mapping of the user stack.                                    *)
LEMMA ImageTable ==
    /\ ImageStages \in Seq(StageSet) /\ Len(ImageStages) = 12
    /\ \A i \in 1 .. 12 : ~Creates(ImageStages[i])
    /\ Leads(ImageStages[1], {}, {})
    /\ Leads(ImageStages[2], {}, {"proc"})
    /\ Leads(ImageStages[3], {"proc"}, {"proc", "kernel_stack"})
    /\ Leads(ImageStages[4], {"proc", "kernel_stack"}, Base)
    /\ \A i \in 1 .. 7 : ImageStages[4 + i] = elf_load_file[i]
    /\ Leads(ImageStages[12], Base, Base)
<1> DEFINE a == Stage({}, {}, {})
           b == Stage({"proc"}, {}, {})
           c == Stage({"kernel_stack"}, {}, {"proc"})
           d == Stage({"directory"}, {}, {"kernel_stack", "proc"})
           e == Stage({}, {}, Base)
           first == <<a, b, c, d>>
           last == <<e>>
<1>1. ImageStages = (first \o elf_load_file) \o last
  BY DEF ImageStages
<1>2. /\ {} \in SUBSET Object /\ {"proc"} \in SUBSET Object /\ {"kernel_stack"} \in SUBSET Object
      /\ {"directory"} \in SUBSET Object /\ {"kernel_stack", "proc"} \in SUBSET Object
      /\ Base \in SUBSET Object
  BY DEF Object, Base
<1>3. a \in StageSet /\ b \in StageSet /\ c \in StageSet /\ d \in StageSet /\ e \in StageSet
  BY <1>2, StageIs
<1>4. /\ a.take = {} /\ a.drop = {} /\ a.undo = {}
      /\ b.take = {"proc"} /\ b.drop = {} /\ b.undo = {}
      /\ c.take = {"kernel_stack"} /\ c.drop = {} /\ c.undo = {"proc"}
      /\ d.take = {"directory"} /\ d.drop = {} /\ d.undo = {"kernel_stack", "proc"}
      /\ e.take = {} /\ e.drop = {} /\ e.undo = Base
  BY <1>2, StageIs
<1> HIDE DEF a, b, c, d, e
<1>5. /\ first \in Seq(StageSet) /\ Len(first) = 4
      /\ first[1] = a /\ first[2] = b /\ first[3] = c /\ first[4] = d
  BY <1>3
<1>6. last \in Seq(StageSet) /\ Len(last) = 1 /\ last[1] = e
  BY <1>3
<1> HIDE DEF first, last
<1> DEFINE mid == first \o elf_load_file
<1>7. /\ mid \in Seq(StageSet) /\ Len(mid) = 11
      /\ \A i \in 1 .. 4 : mid[i] = first[i]
      /\ \A i \in 1 .. 7 : mid[4 + i] = elf_load_file[i]
  <2>1. elf_load_file \in Seq(StageSet) /\ Len(elf_load_file) = 7
    BY LoadTable, Zenon
  <2>2. 4 \in Nat /\ 7 \in Nat /\ 4 + 7 = 11
    OBVIOUS
  <2>3. first \in Seq(StageSet) /\ Len(first) = 4
    BY <1>5
  <2>4. /\ mid \in Seq(StageSet) /\ Len(mid) = Len(first) + Len(elf_load_file)
        /\ \A i \in 1 .. Len(first) : mid[i] = first[i]
        /\ \A i \in 1 .. Len(elf_load_file) : mid[Len(first) + i] = elf_load_file[i]
    BY <2>1, <2>3, ConcatAt, Zenon
  <2> QED BY <2>1, <2>2, <2>3, <2>4, Zenon
<1> HIDE DEF mid
<1>8. /\ ImageStages \in Seq(StageSet) /\ Len(ImageStages) = 12
      /\ \A i \in 1 .. 11 : ImageStages[i] = mid[i]
      /\ ImageStages[12] = e
  <2>1. 11 \in Nat /\ 1 \in Nat /\ 11 + 1 = 12 /\ 1 \in 1 .. 1
    OBVIOUS
  <2>2. ImageStages = mid \o last
    BY <1>1 DEF mid
  <2>3. mid \in Seq(StageSet) /\ Len(mid) = 11 /\ last \in Seq(StageSet) /\ Len(last) = 1
    BY <1>6, <1>7
  <2>4. /\ mid \o last \in Seq(StageSet) /\ Len(mid \o last) = Len(mid) + Len(last)
        /\ \A i \in 1 .. Len(mid) : (mid \o last)[i] = mid[i]
        /\ \A i \in 1 .. Len(last) : (mid \o last)[Len(mid) + i] = last[i]
    BY <2>3, ConcatAt, Zenon
  <2>5. /\ \A i \in 1 .. 11 : ImageStages[i] = mid[i]
        /\ \A i \in 1 .. 1 : ImageStages[11 + i] = last[i]
    BY <2>2, <2>3, <2>4, Zenon
  <2> QED BY <1>6, <2>1, <2>2, <2>3, <2>4, <2>5, Zenon
<1>9. /\ ImageStages[1] = a /\ ImageStages[2] = b /\ ImageStages[3] = c /\ ImageStages[4] = d
      /\ \A i \in 1 .. 7 : ImageStages[4 + i] = elf_load_file[i]
  BY <1>5, <1>7, <1>8
<1>10. \A i \in 1 .. 12 : ~Creates(ImageStages[i])
  <2>1. ~Creates(a) /\ ~Creates(b) /\ ~Creates(c) /\ ~Creates(d) /\ ~Creates(e)
    BY <1>4 DEF Creates, Base
  <2>2. \A i \in 1 .. 12 : i = 1 \/ i = 2 \/ i = 3 \/ i = 4 \/ i = 12 \/ \E k \in 1 .. 7 : i = 4 + k
    <3> TAKE i \in 1 .. 12
    <3>1. i \in 5 .. 11 => i - 4 \in 1 .. 7 /\ i = 4 + (i - 4)
      OBVIOUS
    <3> QED BY <3>1
  <2>3. \A k \in 1 .. 7 : ~Creates(elf_load_file[k])
    BY LoadTable, Zenon
  <2> QED BY <1>8, <1>9, <2>1, <2>2, <2>3
<1>11. Leads(a, {}, {}) /\ Leads(b, {}, {"proc"}) /\ Leads(c, {"proc"}, {"proc", "kernel_stack"})
  BY <1>4 DEF Leads
<1>12. Leads(d, {"proc", "kernel_stack"}, Base) /\ Leads(e, Base, Base)
  BY <1>4 DEF Leads, Base
<1> QED BY <1>8, <1>9, <1>10, <1>11, <1>12, Zenon

(* What the two functions do after it: the last stage creates the thread.  *)
LEMMA StageTable ==
    ASSUME NEW p \in Program
    PROVE  /\ Len(Stages(p)) = IF p \in WithArgs THEN 15 ELSE 14
           /\ \A i \in 1 .. Len(Stages(p)) :
                 /\ Leads(Stages(p)[i], HeldAt(p, i), HeldAt(p, i + 1))
                 /\ Creates(Stages(p)[i]) <=> i = Len(Stages(p))
<1> DEFINE t == Stage({"thread"}, {}, Base)
           e == Stage({}, {}, Base)
           x == Stage({"stack_buffer"}, {}, Base)
           y == Stage({}, {"stack_buffer"}, {"stack_buffer"} \cup Base)
           tail == IF p \in WithArgs THEN <<x, y>> ELSE <<e>>
           end == <<t>>
<1>1. Stages(p) = (ImageStages \o tail) \o end
  BY DEF Stages, process_execute, process_exec_and_wait, ArgumentStages, ThreadStage
<1>2. /\ {} \in SUBSET Object /\ {"thread"} \in SUBSET Object /\ {"stack_buffer"} \in SUBSET Object
      /\ {"stack_buffer"} \cup Base \in SUBSET Object /\ Base \in SUBSET Object
  BY DEF Object, Base
<1>3. t \in StageSet /\ e \in StageSet /\ x \in StageSet /\ y \in StageSet
  BY <1>2, StageIs
<1>4. /\ t.take = {"thread"} /\ t.drop = {} /\ t.undo = Base
      /\ e.take = {} /\ e.drop = {} /\ e.undo = Base
      /\ x.take = {"stack_buffer"} /\ x.drop = {} /\ x.undo = Base
      /\ y.take = {} /\ y.drop = {"stack_buffer"} /\ y.undo = {"stack_buffer"} \cup Base
  BY <1>2, StageIs
<1> HIDE DEF t, e, x, y
<1>5. end \in Seq(StageSet) /\ Len(end) = 1 /\ end[1] = t
  BY <1>3
<1> DEFINE n == IF p \in WithArgs THEN 2 ELSE 1
<1>6. /\ tail \in Seq(StageSet) /\ Len(tail) = n
      /\ p \in WithArgs => tail[1] = x /\ tail[2] = y
      /\ p \notin WithArgs => tail[1] = e
  BY <1>3
<1> DEFINE both == ImageStages \o tail
<1>7. n \in Nat /\ 12 + n \in Nat /\ n \in 1 .. 2
  OBVIOUS
<1> HIDE DEF tail, n, end
<1>8. /\ both \in Seq(StageSet) /\ Len(both) = 12 + n
      /\ \A i \in 1 .. 12 : both[i] = ImageStages[i]
      /\ \A i \in 1 .. n : both[12 + i] = tail[i]
  <2>1. ImageStages \in Seq(StageSet) /\ Len(ImageStages) = 12 /\ 12 \in Nat
    BY ImageTable
  <2>2. tail \in Seq(StageSet) /\ Len(tail) = n
    BY <1>6
  <2>3. /\ both \in Seq(StageSet) /\ Len(both) = Len(ImageStages) + Len(tail)
        /\ \A i \in 1 .. Len(ImageStages) : both[i] = ImageStages[i]
        /\ \A i \in 1 .. Len(tail) : both[Len(ImageStages) + i] = tail[i]
    BY <2>1, <2>2, ConcatAt, Zenon DEF both
  <2> HIDE DEF both
  <2> QED BY <1>7, <2>1, <2>2, <2>3
<1> HIDE DEF both
<1>a. /\ Len(Stages(p)) = 12 + n + 1
      /\ \A i \in 1 .. 12 + n : Stages(p)[i] = both[i]
      /\ Stages(p)[12 + n + 1] = t
  <2>1. Stages(p) = both \o end
    BY <1>1 DEF both
  <2>2. 1 \in Nat /\ 1 \in 1 .. 1
    OBVIOUS
  <2>3. both \in Seq(StageSet) /\ Len(both) = 12 + n /\ end \in Seq(StageSet) /\ Len(end) = 1
    BY <1>5, <1>8
  <2>4. /\ Len(both \o end) = Len(both) + Len(end)
        /\ \A i \in 1 .. Len(both) : (both \o end)[i] = both[i]
        /\ \A i \in 1 .. Len(end) : (both \o end)[Len(both) + i] = end[i]
    BY <2>3, ConcatAt, Zenon
  <2> QED BY <1>5, <1>7, <2>1, <2>2, <2>3, <2>4
<1> DEFINE s == Stages(p)
<1>9. s[12 + n + 1] = t /\ s[13] = tail[1] /\ (p \in WithArgs => s[14] = tail[2])
  <2>1. \A i \in 1 .. n : s[12 + i] = tail[i]
    BY <1>7, <1>8, <1>a
  <2>2. 1 \in 1 .. n /\ (p \in WithArgs => 2 \in 1 .. n) /\ 12 + 1 = 13 /\ 12 + 2 = 14
    BY <1>7 DEF n
  <2> QED BY <1>a, <2>1, <2>2
<1>10. \A i \in 1 .. 12 : s[i] = ImageStages[i]
  BY <1>7, <1>8, <1>a
<1> HIDE DEF s
<1> DEFINE h(i) == HeldAt(p, i)
<1>11. /\ Len(s) = 12 + n + 1 /\ n = IF p \in WithArgs THEN 2 ELSE 1
  BY <1>a DEF s, n
<1>12. /\ h(1) = {} /\ h(2) = {} /\ h(3) = {"proc"} /\ h(4) = {"proc", "kernel_stack"} /\ h(5) = Base
       /\ h(6) = Base \cup {"file"} /\ h(7) = Base \cup {"file"}
       /\ h(8) = Base \cup {"file", "phdrs"} /\ h(9) = Base \cup {"file", "phdrs"}
       /\ h(10) = Base \cup {"file", "phdrs"} /\ h(11) = Base \cup {"file", "phdrs", "segbuf"}
       /\ h(12) = Base /\ h(13) = Base
  BY <1>11 DEF HeldAt, Running, s
<1>13. /\ p \in WithArgs => h(14) = Base \cup {"stack_buffer"} /\ h(15) = Base /\ h(16) = Base \cup {"thread"}
       /\ p \notin WithArgs => h(14) = Base /\ h(15) = Base \cup {"thread"}
  BY <1>11 DEF HeldAt, Running, s
<1> HIDE DEF h
<1>14. /\ Leads(s[1], h(1), h(2)) /\ Leads(s[2], h(2), h(3)) /\ Leads(s[3], h(3), h(4))
       /\ Leads(s[4], h(4), h(5)) /\ Leads(s[12], h(12), h(13))
  <2>1. /\ s[1] = ImageStages[1] /\ s[2] = ImageStages[2] /\ s[3] = ImageStages[3]
        /\ s[4] = ImageStages[4] /\ s[12] = ImageStages[12]
    BY <1>10
  <2> QED BY <1>12, <2>1, ImageTable, Zenon
<1>15. /\ Leads(s[5], h(5), h(6)) /\ Leads(s[6], h(6), h(7)) /\ Leads(s[7], h(7), h(8))
       /\ Leads(s[8], h(8), h(9)) /\ Leads(s[9], h(9), h(10)) /\ Leads(s[10], h(10), h(11))
       /\ Leads(s[11], h(11), h(12))
  <2>1. /\ s[5] = elf_load_file[1] /\ s[6] = elf_load_file[2] /\ s[7] = elf_load_file[3]
        /\ s[8] = elf_load_file[4] /\ s[9] = elf_load_file[5] /\ s[10] = elf_load_file[6]
        /\ s[11] = elf_load_file[7]
    BY <1>10, ImageTable
  <2> QED BY <1>12, <2>1, LoadTable, Zenon
<1>16. /\ Leads(t, Base, Base \cup {"thread"}) /\ Leads(e, Base, Base)
       /\ Leads(x, Base, Base \cup {"stack_buffer"}) /\ Leads(y, Base \cup {"stack_buffer"}, Base)
  BY <1>4 DEF Leads, Base
<1>17. Creates(t) /\ ~Creates(e) /\ ~Creates(x) /\ ~Creates(y)
  BY <1>4 DEF Creates
<1>18. \A i \in 1 .. 12 : ~Creates(s[i])
  BY <1>10, ImageTable
<1>19. ASSUME NEW i \in 1 .. 12 PROVE Leads(s[i], h(i), h(i + 1))
  BY <1>14, <1>15
<1>20. CASE p \in WithArgs
  <2>1. s[13] = x /\ s[14] = y /\ s[15] = t /\ Len(s) = 15
    BY <1>6, <1>9, <1>11, <1>20
  <2>2. Leads(s[13], h(13), h(14)) /\ Leads(s[14], h(14), h(15)) /\ Leads(s[15], h(15), h(16))
    BY <1>12, <1>13, <1>16, <1>20, <2>1
  <2>3. ASSUME NEW i \in 1 .. 15
        PROVE  Leads(s[i], h(i), h(i + 1)) /\ (Creates(s[i]) <=> i = 15)
    <3>1. CASE i \in 1 .. 12
      BY <1>18, <1>19, <3>1
    <3>2. CASE i \in {13, 14, 15}
      BY <1>17, <2>1, <2>2, <3>2
    <3> QED BY <3>1, <3>2
  <2> QED BY <1>20, <2>1, <2>3 DEF s, h
<1>21. CASE p \notin WithArgs
  <2>1. s[13] = e /\ s[14] = t /\ Len(s) = 14
    BY <1>6, <1>9, <1>11, <1>21
  <2>2. Leads(s[13], h(13), h(14)) /\ Leads(s[14], h(14), h(15))
    BY <1>12, <1>13, <1>16, <1>21, <2>1
  <2>3. ASSUME NEW i \in 1 .. 14
        PROVE  Leads(s[i], h(i), h(i + 1)) /\ (Creates(s[i]) <=> i = 14)
    <3>1. CASE i \in 1 .. 12
      BY <1>18, <1>19, <3>1
    <3>2. CASE i \in {13, 14}
      BY <1>17, <2>1, <2>2, <3>2
    <3> QED BY <3>1, <3>2
  <2> QED BY <1>21, <2>1, <2>3 DEF s, h
<1> QED BY <1>20, <1>21

(* The thread is created by the last stage and by no other.                *)
LEMMA ThreadLast ==
    ASSUME NEW p \in Program
    PROVE  /\ Len(Stages(p)) \in Nat /\ Len(Stages(p)) >= 12
           /\ \A i \in 1 .. Len(Stages(p)) :
                 "thread" \in Stages(p)[i].take => i = Len(Stages(p))
<1>1. /\ Len(Stages(p)) = IF p \in WithArgs THEN 15 ELSE 14
      /\ \A i \in 1 .. Len(Stages(p)) : Creates(Stages(p)[i]) => i = Len(Stages(p))
  BY StageTable
<1> QED BY <1>1 DEF Creates

-----------------------------------------------------------------------------
LifeTypeOK ==
    /\ tstate \in [AThread -> {"none", "live", "zombie", "freed"}]
    /\ join_waiters \in [AThread -> Seq(Joiner)]
    /\ joiner \in [Joiner -> {"idle", "blocked", "woken", "returned", "lost"}]
    /\ target \in [Joiner -> AThread \cup {NoThread}]
    /\ exec \in [Program -> Nat]

(* Who sits in a list is blocked on the thread the list belongs to.        *)
ListedBlocked ==
    \A t \in AThread : \A i \in 1 .. Len(join_waiters[t]) :
       /\ joiner[join_waiters[t][i]] = "blocked" /\ target[join_waiters[t][i]] = t

BlockedListed ==
    \A j \in Joiner : joiner[j] = "blocked" =>
       target[j] \in AThread /\ tstate[target[j]] = "live" /\ j \in Range(join_waiters[target[j]])

AfterExit ==
    \A j \in Joiner : joiner[j] \in {"woken", "returned"} =>
       target[j] \in AThread /\ tstate[target[j]] \in {"zombie", "freed"}

(* A thread has exited once it is on the reaper's list or in its hands.    *)
Exited(t) == t = NoThread \/ (t \in AThread /\ tstate[t] \in {"zombie", "freed"})

ReaperExited ==
    /\ Exited(g_zombie_list) /\ Exited(zombie)
    /\ zombie_next \in [AThread -> AThread \cup {NoThread}]
    /\ \A t \in AThread : Exited(zombie_next[t])
    /\ reaper \in {"store", "process", "thread"} => zombie # NoThread

(* A program has no thread before the last stage of its creation.          *)
NotYet == \A p \in Program : exec[p] \in 1 .. Len(Stages(p)) => tstate[p] = "none"

(* The inductive invariant.  JoinersExact alone is not inductive: the      *)
(* reaper could free a live thread that was on its list, and a creator     *)
(* could bring a joined thread back to life.                               *)
LifeIInv == LifeTypeOK /\ ListedBlocked /\ BlockedListed /\ AfterExit /\ ReaperExited /\ NotYet

(* The invariant holds before any thread exits or is joined.               *)
LEMMA LifeInitIInv == LifeInit => LifeIInv
<1> SUFFICES ASSUME LifeInit PROVE LifeIInv
  OBVIOUS
<1> USE LifeAssumption DEF LifeInit, AThread
<1>1. LifeTypeOK
  BY DEF LifeTypeOK
<1>2. ListedBlocked
  BY DEF ListedBlocked
<1>3. BlockedListed /\ AfterExit
  BY DEF BlockedListed, AfterExit
<1>4. ReaperExited
  BY DEF ReaperExited, Exited
<1>5. NotYet
  BY DEF NotYet
<1> QED BY <1>1, <1>2, <1>3, <1>4, <1>5 DEF LifeIInv

(* The states of threads only move on from "none" to "live" for p.         *)
LEMMA ExecStep ==
    ASSUME LifeIInv, NEW p \in Program,
           ExecSucceeds(p) \/ SegmentEnds(p) \/ ExecFails(p) \/ ExecReturns(p)
    PROVE  LifeIInv'
<1>0. /\ UNCHANGED <<join_waiters, joiner, target, g_zombie_list, zombie_next, reaper, zombie>>
  BY DEF ExecSucceeds, SegmentEnds, ExecFails, ExecReturns, joinVars, reaperVars
<1>1. Len(Stages(p)) \in Nat /\ Len(Stages(p)) >= 12
  BY ThreadLast
<1>2. p \in AThread /\ exec[p] \in Nat
  BY DEF AThread, LifeIInv, LifeTypeOK
<1>3. /\ exec' \in [Program -> Nat]
      /\ \A q \in Program : q # p => exec'[q] = exec[q]
      /\ exec'[p] \in 1 .. Len(Stages(p)) => exec[p] \in 1 .. Len(Stages(p)) - 1 \/ exec[p] \in {10, 11}
  <2>1. CASE ExecSucceeds(p)
    BY <1>1, <1>2, <2>1 DEF ExecSucceeds, LifeIInv, LifeTypeOK
  <2>2. CASE SegmentEnds(p)
    <3>1. /\ exec[p] \in {10, 11}
          /\ exec' = [exec EXCEPT ![p] = 9] \/ exec' = [exec EXCEPT ![p] = 12]
      BY <2>2 DEF SegmentEnds
    <3>2. exec \in [Program -> Nat]
      BY DEF LifeIInv, LifeTypeOK
    <3> QED BY <3>1, <3>2
  <2>3. CASE ExecFails(p)
    BY <1>1, <1>2, <2>3 DEF ExecFails, LifeIInv, LifeTypeOK
  <2>4. CASE ExecReturns(p)
    BY <1>1, <1>2, <2>4 DEF ExecReturns, Running, Started, LifeIInv, LifeTypeOK
  <2> QED BY <2>1, <2>2, <2>3, <2>4
<1>4. \/ tstate' = tstate
      \/ /\ tstate[p] = "none" /\ tstate' = [tstate EXCEPT ![p] = "live"]
         /\ exec'[p] = Len(Stages(p)) + 1
  <2>1. CASE ExecSucceeds(p)
    <3>1. exec[p] \in 1 .. Len(Stages(p)) /\ exec'[p] = exec[p] + 1
      BY <1>2, <2>1 DEF ExecSucceeds, LifeIInv, LifeTypeOK
    <3>2. tstate[p] = "none"
      BY <3>1 DEF LifeIInv, NotYet
    <3>3. CASE "thread" \in StageOf(p).take
      <4>1. exec[p] = Len(Stages(p))
        BY <3>1, <3>3, ThreadLast DEF StageOf
      <4>2. tstate' = [tstate EXCEPT ![p] = "live"]
        BY <2>1, <3>3 DEF ExecSucceeds
      <4> QED BY <3>1, <3>2, <4>1, <4>2
    <3>4. CASE "thread" \notin StageOf(p).take
      <4>1. tstate' = [tstate EXCEPT ![p] = @]
        BY <2>1, <3>4 DEF ExecSucceeds
      <4> QED BY <1>2, <4>1 DEF LifeIInv, LifeTypeOK
    <3> QED BY <3>3, <3>4
  <2>2. CASE SegmentEnds(p) \/ ExecFails(p) \/ ExecReturns(p)
    BY <2>2 DEF SegmentEnds, ExecFails, ExecReturns
  <2> QED BY <2>1, <2>2
<1>5. /\ tstate' \in [AThread -> {"none", "live", "zombie", "freed"}]
      /\ \A t \in AThread : tstate[t] # "none" => tstate'[t] = tstate[t]
  BY <1>2, <1>4, SMTT(30) DEF LifeIInv, LifeTypeOK
<1>6. LifeTypeOK'
  BY <1>0, <1>3, <1>5 DEF LifeIInv, LifeTypeOK
<1>7. ListedBlocked'
  BY <1>0 DEF LifeIInv, ListedBlocked
<1>8. BlockedListed'
  BY <1>0, <1>5 DEF LifeIInv, BlockedListed
<1>9. AfterExit'
  BY <1>0, <1>5 DEF LifeIInv, AfterExit
<1>10. ReaperExited'
  BY <1>0, <1>5 DEF LifeIInv, ReaperExited, Exited
<1>11. NotYet'
  <2> SUFFICES ASSUME NEW q \in Program, exec'[q] \in 1 .. Len(Stages(q)) PROVE tstate'[q] = "none"
    BY DEF NotYet, Stages
  <2>1. q \in AThread
    BY DEF AThread
  <2>2. CASE q # p
    BY <1>2, <1>3, <1>4, <2>1, <2>2 DEF LifeIInv, LifeTypeOK, NotYet
  <2>3. CASE q = p
    BY <1>1, <1>2, <1>3, <1>4, <2>3 DEF LifeIInv, LifeTypeOK, NotYet
  <2> QED BY <2>2, <2>3
<1> QED BY <1>6, <1>7, <1>8, <1>9, <1>10, <1>11 DEF LifeIInv

(* thread_exit wakes everyone in the list and makes its thread a zombie.   *)
LEMMA ExitStep ==
    ASSUME LifeIInv, NEW t \in AThread, thread_exit(t)
    PROVE  LifeIInv'
<1>1. /\ tstate[t] = "live" /\ tstate' = [tstate EXCEPT ![t] = "zombie"]
      /\ joiner' = [j \in Joiner |-> IF j \in Range(join_waiters[t]) THEN "woken" ELSE joiner[j]]
      /\ join_waiters' = [join_waiters EXCEPT ![t] = <<>>]
      /\ UNCHANGED <<target, zombie, exec>>
      /\ zombie_next' = [zombie_next EXCEPT ![t] = g_zombie_list] /\ g_zombie_list' = t
      /\ reaper' = IF reaper = "waiting" THEN "test" ELSE reaper
  BY DEF thread_exit, WakeJoiners, reaper_add_zombie, Push, execVars
<1>2. LifeTypeOK'
  BY <1>1 DEF LifeIInv, LifeTypeOK
<1>3. \A j \in Joiner : j \in Range(join_waiters[t]) => joiner[j] = "blocked" /\ target[j] = t
  <2> SUFFICES ASSUME NEW j \in Joiner, j \in Range(join_waiters[t])
               PROVE  joiner[j] = "blocked" /\ target[j] = t
    OBVIOUS
  <2>1. join_waiters[t] \in Seq(Joiner)
    BY DEF LifeIInv, LifeTypeOK
  <2>2. PICK i \in 1 .. Len(join_waiters[t]) : join_waiters[t][i] = j
    BY <2>1 DEF Range
  <2> QED BY <2>2 DEF LifeIInv, ListedBlocked
<1>4. \A j \in Joiner : joiner[j] = "blocked" /\ target[j] = t => j \in Range(join_waiters[t])
  BY DEF LifeIInv, BlockedListed
<1>5. ListedBlocked'
  <2> SUFFICES ASSUME NEW u \in AThread, NEW i \in 1 .. Len(join_waiters'[u])
               PROVE  joiner'[join_waiters'[u][i]] = "blocked" /\ target'[join_waiters'[u][i]] = u
    BY DEF ListedBlocked
  <2>1. u # t
    BY <1>1 DEF LifeIInv, LifeTypeOK
  <2>2. join_waiters'[u] = join_waiters[u] /\ join_waiters[u] \in Seq(Joiner)
    BY <1>1, <2>1 DEF LifeIInv, LifeTypeOK
  <2>3. join_waiters[u][i] \in Joiner
    BY <2>2
  <2>4. joiner[join_waiters[u][i]] = "blocked" /\ target[join_waiters[u][i]] = u
    BY <2>2 DEF LifeIInv, ListedBlocked
  <2> QED BY <1>1, <1>3, <2>1, <2>2, <2>3, <2>4
<1>6. BlockedListed'
  <2> SUFFICES ASSUME NEW j \in Joiner, joiner'[j] = "blocked"
               PROVE  /\ target[j] \in AThread /\ tstate'[target[j]] = "live"
                      /\ j \in Range(join_waiters'[target[j]])
    BY <1>1 DEF BlockedListed, Range
  <2>1. joiner[j] = "blocked" /\ ~j \in Range(join_waiters[t])
    BY <1>1, SMTT(30)
  <2>2. target[j] # t
    BY <1>4, <2>1
  <2> QED BY <1>1, <2>1, <2>2, SMTT(30) DEF LifeIInv, BlockedListed, LifeTypeOK
<1>7. AfterExit'
  <2> SUFFICES ASSUME NEW j \in Joiner, joiner'[j] \in {"woken", "returned"}
               PROVE  target[j] \in AThread /\ tstate'[target[j]] \in {"zombie", "freed"}
    BY <1>1 DEF AfterExit
  <2>1. CASE j \in Range(join_waiters[t])
    BY <1>1, <1>3, <2>1 DEF LifeIInv, LifeTypeOK
  <2>2. CASE ~j \in Range(join_waiters[t])
    <3>1. joiner[j] \in {"woken", "returned"}
      BY <1>1, <2>2
    <3> QED BY <1>1, <3>1 DEF LifeIInv, LifeTypeOK, AfterExit
  <2> QED BY <2>1, <2>2
<1>8. ReaperExited'
  <2>1. \A u : Exited(u) => Exited(u)'
    BY <1>1 DEF Exited, LifeIInv, LifeTypeOK
  <2>2. Exited(g_zombie_list)'
    BY <1>1 DEF Exited, LifeIInv, LifeTypeOK
  <2>3. Exited(zombie)' /\ (reaper' \in {"store", "process", "thread"} => zombie' # NoThread)
    BY <1>1 DEF Exited, LifeIInv, LifeTypeOK, ReaperExited
  <2>4. zombie_next' \in [AThread -> AThread \cup {NoThread}]
    BY <1>1 DEF Exited, LifeIInv, ReaperExited
  <2>5. \A u \in AThread : Exited(zombie_next[u])'
    BY <1>1 DEF Exited, LifeIInv, LifeTypeOK, ReaperExited
  <2> QED BY <2>2, <2>3, <2>4, <2>5 DEF ReaperExited
<1>9. NotYet'
  BY <1>1 DEF LifeIInv, LifeTypeOK, NotYet, AThread, Stages
<1> QED BY <1>2, <1>5, <1>6, <1>7, <1>8, <1>9 DEF LifeIInv

(* thread_join tests its target with interrupts masked.                    *)
LEMMA JoinStep ==
    ASSUME LifeIInv, NEW j \in Joiner, NEW t \in AThread, JoinTest(j, t),
           joiner[j] \in {"idle", "woken"},
           target' = [target EXCEPT ![j] = t],
           UNCHANGED <<tstate, g_zombie_list, zombie_next, reaper, zombie, exec>>
    PROVE  LifeIInv'
<1>1. ReaperExited' /\ NotYet'
  BY DEF LifeIInv, ReaperExited, Exited, NotYet, Stages
<1>2. \A u \in AThread : \A i \in 1 .. Len(join_waiters[u]) :
         join_waiters[u][i] \in Joiner /\ join_waiters[u][i] # j
  BY DEF LifeIInv, LifeTypeOK, ListedBlocked
<1>3. CASE /\ tstate[t] \in {"zombie", "freed"} /\ join_waiters' = join_waiters
           /\ \E outcome \in {"returned", "lost"} : joiner' = [joiner EXCEPT ![j] = outcome]
  <2>1. LifeTypeOK'
    BY <1>3 DEF LifeIInv, LifeTypeOK
  <2>2. ListedBlocked'
    BY <1>2, <1>3 DEF LifeIInv, LifeTypeOK, ListedBlocked
  <2>3. BlockedListed'
    BY <1>3 DEF LifeIInv, LifeTypeOK, BlockedListed
  <2>4. AfterExit'
    BY <1>3 DEF LifeIInv, LifeTypeOK, AfterExit
  <2> QED BY <1>1, <2>1, <2>2, <2>3, <2>4 DEF LifeIInv
<1>4. CASE /\ tstate[t] = "live" /\ joiner' = [joiner EXCEPT ![j] = "blocked"]
           /\ join_waiters' = [join_waiters EXCEPT ![t] = Append(@, j)]
  <2>0. /\ join_waiters[t] \in Seq(Joiner) /\ join_waiters'[t] = Append(join_waiters[t], j)
        /\ \A u \in AThread : u # t => join_waiters'[u] = join_waiters[u]
    BY <1>4 DEF LifeIInv, LifeTypeOK
  <2>1. LifeTypeOK'
    BY <1>4, SMTT(30) DEF LifeIInv, LifeTypeOK
  <2>2. /\ Len(join_waiters'[t]) = Len(join_waiters[t]) + 1
        /\ join_waiters'[t][Len(join_waiters[t]) + 1] = j
        /\ \A i \in 1 .. Len(join_waiters[t]) : join_waiters'[t][i] = join_waiters[t][i]
        /\ Len(join_waiters[t]) \in Nat
    BY <2>0, SMTT(30)
  <2>3. ListedBlocked'
    <3> SUFFICES ASSUME NEW u \in AThread, NEW i \in 1 .. Len(join_waiters'[u])
                 PROVE  joiner'[join_waiters'[u][i]] = "blocked" /\ target'[join_waiters'[u][i]] = u
      BY DEF ListedBlocked
    <3>1. CASE i \in 1 .. Len(join_waiters[u]) /\ join_waiters'[u][i] = join_waiters[u][i]
      <4>1. /\ join_waiters[u][i] \in Joiner /\ join_waiters[u][i] # j
            /\ joiner[join_waiters[u][i]] = "blocked" /\ target[join_waiters[u][i]] = u
        BY <1>2, <3>1 DEF LifeIInv, ListedBlocked
      <4> QED BY <1>4, <3>1, <4>1 DEF LifeIInv, LifeTypeOK
    <3>2. CASE u = t /\ i = Len(join_waiters[t]) + 1
      BY <1>4, <2>2, <3>2 DEF LifeIInv, LifeTypeOK
    <3> QED BY <2>0, <2>2, <3>1, <3>2, SMTT(30)
  <2>4. BlockedListed'
    <3> SUFFICES ASSUME NEW k \in Joiner, joiner'[k] = "blocked"
                 PROVE  /\ target'[k] \in AThread /\ tstate'[target'[k]] = "live"
                        /\ k \in Range(join_waiters'[target'[k]])
      BY DEF BlockedListed, Range
    <3>1. CASE k = j
      <4>1. target'[k] = t
        BY <3>1 DEF LifeIInv, LifeTypeOK
      <4> QED BY <1>4, <2>2, <3>1, <4>1 DEF Range
    <3>2. CASE k # j
      <4>1. target'[k] = target[k] /\ joiner[k] = "blocked"
        BY <1>4, <3>2 DEF LifeIInv, LifeTypeOK
      <4>2. target[k] \in AThread /\ tstate[target[k]] = "live" /\ k \in Range(join_waiters[target[k]])
        BY <4>1 DEF LifeIInv, BlockedListed
      <4>3. k \in Range(join_waiters'[target[k]])
        <5>1. CASE target[k] = t
          BY <2>2, <4>2, <5>1 DEF Range
        <5>2. CASE target[k] # t
          BY <2>0, <4>2, <5>2
        <5> QED BY <5>1, <5>2
      <4> QED BY <4>1, <4>2, <4>3
    <3> QED BY <3>1, <3>2
  <2>5. AfterExit'
    BY <1>4 DEF LifeIInv, LifeTypeOK, AfterExit
  <2> QED BY <1>1, <2>1, <2>3, <2>4, <2>5 DEF LifeIInv
<1> QED BY <1>3, <1>4 DEF JoinTest

(* The reaper frees a thread that has exited.                              *)
LEMMA ReapStep ==
    ASSUME LifeIInv, ReaperStep
    PROVE  LifeIInv'
<1>1. UNCHANGED <<join_waiters, joiner, target, exec>>
  BY DEF ReaperStep, ReaperTest, ReaperWaits, ReaperStore, ReaperProcess, ReaperThread, joinVars, execVars
<1>2. \/ tstate' = tstate
      \/ reaper = "thread" /\ tstate' = [tstate EXCEPT ![zombie] = "freed"]
  BY DEF ReaperStep, ReaperTest, ReaperWaits, ReaperStore, ReaperProcess, ReaperThread
<1>3. /\ tstate' \in [AThread -> {"none", "live", "zombie", "freed"}]
      /\ \A t \in AThread : tstate[t] \in {"zombie", "freed"} => tstate'[t] \in {"zombie", "freed"}
      /\ \A t \in AThread : tstate[t] \in {"none", "live"} => tstate'[t] = tstate[t]
  BY <1>2, Zenon DEF LifeIInv, LifeTypeOK, ReaperExited, Exited
<1>4. LifeTypeOK'
  BY <1>1, <1>3 DEF LifeIInv, LifeTypeOK
<1>5. ListedBlocked'
  BY <1>1 DEF LifeIInv, ListedBlocked
<1>6. BlockedListed'
  BY <1>1, <1>3 DEF LifeIInv, BlockedListed
<1>7. AfterExit'
  BY <1>1, <1>3 DEF LifeIInv, AfterExit
<1>8. NotYet'
  BY <1>1, <1>3 DEF LifeIInv, NotYet, AThread, Stages
<1>9. ReaperExited'
  <2>0. \A t : Exited(t) => t = NoThread \/ (t \in AThread /\ tstate'[t] \in {"zombie", "freed"})
    BY <1>3 DEF Exited
  <2>1. CASE ReaperTest
    BY <2>0, <2>1 DEF ReaperTest, LifeIInv, ReaperExited, Exited
  <2>2. CASE ReaperWaits
    BY <2>0, <2>2 DEF ReaperWaits, LifeIInv, ReaperExited, Exited
  <2>3. CASE ReaperStore
    BY <2>0, <2>3 DEF ReaperStore, LifeIInv, ReaperExited, Exited
  <2>4. CASE ReaperProcess
    BY <2>0, <2>4 DEF ReaperProcess, LifeIInv, ReaperExited, Exited
  <2>5. CASE ReaperThread
    BY <2>0, <2>5 DEF ReaperThread, LifeIInv, ReaperExited, Exited
  <2> QED BY <2>1, <2>2, <2>3, <2>4, <2>5 DEF ReaperStep
<1> QED BY <1>4, <1>5, <1>6, <1>7, <1>8, <1>9 DEF LifeIInv

(* Every step of the creators, the exiting threads, the joiners and the    *)
(* reaper keeps the invariant.                                             *)
LEMMA LifeNextIInv == LifeIInv /\ [LifeNext]_lifeVars => LifeIInv'
<1> SUFFICES ASSUME LifeIInv, [LifeNext]_lifeVars PROVE LifeIInv'
  OBVIOUS
<1>1. ASSUME NEW p \in Program, ExecSucceeds(p) \/ SegmentEnds(p) \/ ExecFails(p) \/ ExecReturns(p)
      PROVE  LifeIInv'
  BY <1>1, ExecStep, Zenon
<1>2. ASSUME NEW t \in AThread, thread_exit(t) PROVE LifeIInv'
  BY <1>2, ExitStep, Zenon
<1>3. ASSUME NEW j \in Joiner, NEW t \in AThread, thread_join(j, t) PROVE LifeIInv'
  <2>1. joiner[j] \in {"idle", "woken"}
    BY <1>3 DEF thread_join
  <2>2. /\ JoinTest(j, t) /\ target' = [target EXCEPT ![j] = t]
        /\ UNCHANGED <<tstate, g_zombie_list, zombie_next, reaper, zombie, exec>>
    BY <1>3, Zenon DEF thread_join, reaperVars, execVars
  <2> QED BY <2>1, <2>2, JoinStep, Zenon
<1>4. ASSUME NEW j \in Joiner, JoinResumes(j) PROVE LifeIInv'
  <2>1. target[j] \in AThread
    BY <1>4 DEF JoinResumes, LifeIInv, AfterExit
  <2>2. target' = [target EXCEPT ![j] = target[j]]
    BY <1>4 DEF JoinResumes, LifeIInv, LifeTypeOK
  <2>3. joiner[j] \in {"idle", "woken"}
    BY <1>4 DEF JoinResumes
  <2>4. /\ JoinTest(j, target[j])
        /\ UNCHANGED <<tstate, g_zombie_list, zombie_next, reaper, zombie, exec>>
    BY <1>4, Zenon DEF JoinResumes, reaperVars, execVars
  <2> QED BY <2>1, <2>2, <2>3, <2>4, JoinStep, Zenon
<1>5. ASSUME ReaperStep PROVE LifeIInv'
  BY <1>5, ReapStep, Zenon
<1>6. CASE UNCHANGED lifeVars
  BY <1>6, SMTT(30) DEF LifeIInv, LifeTypeOK, ListedBlocked, BlockedListed, AfterExit, ReaperExited, Exited, NotYet,
              Stages, lifeVars
<1> QED BY <1>1, <1>2, <1>3, <1>4, <1>5, <1>6 DEF LifeNext

(* thread_join and thread_exit: in every interleaving with the reaper and  *)
(* the creators of processes, a joiner sleeps in the list of its target    *)
(* exactly as long as the target lives, and returns only after its exit.   *)
THEOREM JoinersAlwaysExact == LifeSpec => []JoinersExact
<1>1. LifeIInv => JoinersExact
  <2> SUFFICES ASSUME LifeIInv, NEW j \in Joiner
               PROVE  /\ joiner[j] = "blocked" <=> \E t \in AThread : j \in Range(join_waiters[t])
                      /\ joiner[j] = "blocked" => tstate[target[j]] = "live"
                                                  /\ j \in Range(join_waiters[target[j]])
                      /\ joiner[j] \in {"woken", "returned"} => tstate[target[j]] \in {"zombie", "freed"}
    BY DEF JoinersExact
  <2>1. \A t \in AThread : j \in Range(join_waiters[t]) => joiner[j] = "blocked"
    BY DEF LifeIInv, ListedBlocked, Range
  <2>2. joiner[j] = "blocked" => target[j] \in AThread /\ tstate[target[j]] = "live"
                                 /\ j \in Range(join_waiters[target[j]])
    BY DEF LifeIInv, BlockedListed
  <2>3. joiner[j] \in {"woken", "returned"} => tstate[target[j]] \in {"zombie", "freed"}
    BY DEF LifeIInv, AfterExit
  <2> QED BY <2>1, <2>2, <2>3
<1> QED BY LifeInitIInv, LifeNextIInv, <1>1, PTL DEF LifeSpec
-----------------------------------------------------------------------------
(* The list of zombies.                                                    *)

(* What the reaper holds in its local variable is a zombie of its own.     *)
InHand ==
    /\ reaper \in {"test", "to_wait", "waiting", "store", "process", "thread"}
    /\ IF reaper \in {"store", "process", "thread"}
         THEN zombie \in AThread /\ tstate[zombie] = "zombie"
         ELSE zombie = NoThread

(* c is the list: zombies, each once.  The reaper's zombie is among them   *)
(* until the reaper has stored its successor.                              *)
ListIs(c) ==
    /\ ZombieLinks(c) /\ IsInjective(c)
    /\ \A i \in 1 .. Len(c) : tstate[c[i]] = "zombie"
    /\ reaper = "store" => zombie \in Range(c)
    /\ reaper \in {"process", "thread"} => zombie \notin Range(c)

(* The inductive invariant.  ZombieListSound does not say that the zombies *)
(* are distinct, nor that the reaper's one is in the list before its       *)
(* store; both are needed to know what the store leaves.                   *)
ListIInv == LifeIInv /\ InHand /\ \E c \in Seq(AThread) : ListIs(c)

(* A step of somebody else: no zombie ends, the reaper does not move.      *)
LEMMA ListFrame ==
    ASSUME ListIInv, LifeIInv', UNCHANGED <<g_zombie_list, zombie_next, reaper, zombie>>,
           \A t \in AThread : tstate[t] = "zombie" => tstate'[t] = "zombie"
    PROVE  ListIInv'
<1>1. PICK c \in Seq(AThread) : ListIs(c)
  BY DEF ListIInv
<1>2. \A i \in 1 .. Len(c) : c[i] \in AThread
  BY <1>1
<1>3. ListIs(c)'
  BY <1>1, <1>2 DEF ListIs, ZombieLinks, IsInjective, Range
<1>4. InHand'
  BY DEF ListIInv, InHand
<1> QED BY <1>3, <1>4 DEF ListIInv

(* thread_exit pushes its thread in front, at any step of the reaper.      *)
LEMMA ListExitStep ==
    ASSUME ListIInv, LifeIInv', NEW t \in AThread, thread_exit(t)
    PROVE  ListIInv'
<1>1. /\ tstate[t] = "live" /\ tstate' = [tstate EXCEPT ![t] = "zombie"] /\ zombie' = zombie
      /\ zombie_next' = [zombie_next EXCEPT ![t] = g_zombie_list] /\ g_zombie_list' = t
      /\ reaper' = IF reaper = "waiting" THEN "test" ELSE reaper
  BY DEF thread_exit, reaper_add_zombie, Push
<1>2. /\ tstate \in [AThread -> {"none", "live", "zombie", "freed"}]
      /\ zombie_next \in [AThread -> AThread \cup {NoThread}]
  BY DEF ListIInv, LifeIInv, LifeTypeOK, ReaperExited
<1>3. PICK c \in Seq(AThread) : ListIs(c)
  BY DEF ListIInv
<1>4. \A i \in 1 .. Len(c) : c[i] \in AThread /\ c[i] # t
  BY <1>1, <1>3 DEF ListIs
<1>5. t \notin Range(c)
  BY <1>4 DEF Range
<1> DEFINE d == <<t>> \o c
<1>6. /\ d \in Seq(AThread) /\ Len(d) = Len(c) + 1 /\ Len(c) \in Nat
      /\ d[1] = t /\ \A i \in 1 .. Len(c) : d[i + 1] = c[i]
      /\ IsInjective(d) /\ Range(d) = Range(c) \cup {t}
  <2>1. IsInjective(c) /\ Len(c) \in Nat
    BY <1>3 DEF ListIs
  <2> QED BY <1>5, <2>1, PushExact
<1> HIDE DEF d
<1>7. \A i \in 1 .. Len(d) : i = 1 \/ (i - 1 \in 1 .. Len(c) /\ d[i] = c[i - 1])
  <2> SUFFICES ASSUME NEW i \in 1 .. Len(d), i # 1
               PROVE  i - 1 \in 1 .. Len(c) /\ d[i] = c[i - 1]
    OBVIOUS
  <2>1. i - 1 \in 1 .. Len(c) /\ (i - 1) + 1 = i
    BY <1>6
  <2> QED BY <1>6, <2>1
<1>8. /\ g_zombie_list = IF c = <<>> THEN NoThread ELSE c[1]
      /\ \A i \in 1 .. Len(c) : zombie_next[c[i]] = IF i = Len(c) THEN NoThread ELSE c[i + 1]
  BY <1>3 DEF ListIs, ZombieLinks
<1>9. \A i \in 1 .. Len(d) : zombie_next'[d[i]] = IF i = Len(d) THEN NoThread ELSE d[i + 1]
  <2> SUFFICES ASSUME NEW i \in 1 .. Len(d)
               PROVE  zombie_next'[d[i]] = IF i = Len(d) THEN NoThread ELSE d[i + 1]
    OBVIOUS
  <2>1. CASE i = 1
    <3>1. zombie_next'[d[i]] = g_zombie_list
      BY <1>1, <1>2, <1>6, <2>1
    <3>2. CASE Len(c) = 0
      BY <1>6, <1>8, <2>1, <3>1, <3>2
    <3>3. CASE Len(c) # 0
      <4>1. c # <<>> /\ 1 \in 1 .. Len(c)
        BY <1>6, <3>3
      <4>2. d[1 + 1] = c[1]
        BY <1>6, <4>1
      <4> QED BY <1>6, <1>8, <2>1, <3>1, <3>3, <4>1, <4>2
    <3> QED BY <3>2, <3>3
  <2>2. CASE i # 1
    <3>1. i - 1 \in 1 .. Len(c) /\ d[i] = c[i - 1]
      BY <1>7, <2>2
    <3>2. zombie_next'[d[i]] = zombie_next[c[i - 1]]
      BY <1>1, <1>2, <1>4, <3>1
    <3>3. i # Len(d) => d[i + 1] = c[i]
      <4>1. i # Len(d) => i \in 1 .. Len(c)
        BY <1>6
      <4> QED BY <1>6, <4>1
    <3>4. zombie_next[c[i - 1]] = IF i - 1 = Len(c) THEN NoThread ELSE c[(i - 1) + 1]
      BY <1>8, <3>1
    <3> QED BY <1>6, <3>2, <3>3, <3>4
  <2> QED BY <2>1, <2>2
<1>10. ZombieLinks(d)'
  <2>1. d # <<>> /\ DOMAIN d = 1 .. Len(d)
    BY <1>6
  <2> QED BY <1>1, <1>6, <1>9, <2>1 DEF ZombieLinks
<1>11. \A i \in 1 .. Len(d) : tstate'[d[i]] = "zombie"
  <2>1. tstate'[t] = "zombie" /\ \A u \in AThread : tstate[u] = "zombie" => tstate'[u] = "zombie"
    BY <1>1, <1>2
  <2>2. \A i \in 1 .. Len(c) : c[i] \in AThread /\ tstate[c[i]] = "zombie"
    BY <1>3, <1>4 DEF ListIs
  <2> SUFFICES ASSUME NEW i \in 1 .. Len(d) PROVE tstate'[d[i]] = "zombie"
    OBVIOUS
  <2>3. CASE i = 1
    BY <1>6, <2>1, <2>3
  <2>4. CASE i - 1 \in 1 .. Len(c) /\ d[i] = c[i - 1]
    BY <2>1, <2>2, <2>4
  <2> QED BY <1>7, <2>3, <2>4
<1>12. InHand' /\ zombie # t
  <2>1. zombie # t
    BY <1>1, LifeAssumption DEF ListIInv, InHand
  <2> QED BY <1>1, <1>2, <2>1 DEF ListIInv, InHand
<1>13. ListIs(d)'
  <2>1. /\ reaper' = "store" => zombie' \in Range(d)
        /\ reaper' \in {"process", "thread"} => zombie' \notin Range(d)
    BY <1>1, <1>3, <1>6, <1>12 DEF ListIs
  <2> QED BY <1>6, <1>10, <1>11, <2>1 DEF ListIs
<1> QED BY <1>6, <1>12, <1>13 DEF ListIInv

(* The reaper's store drops its zombie and all that was pushed since its   *)
(* load: what is left is the part of the list behind the zombie.           *)
LEMMA ListStoreStep ==
    ASSUME ListIInv, LifeIInv', ReaperStore
    PROVE  ListIInv'
<1>1. /\ reaper = "store" /\ reaper' = "process" /\ g_zombie_list' = zombie_next[zombie]
      /\ zombie_next' = [zombie_next EXCEPT ![zombie] = NoThread] /\ UNCHANGED <<tstate, zombie>>
  BY DEF ReaperStore
<1>2. zombie_next \in [AThread -> AThread \cup {NoThread}]
  BY DEF ListIInv, LifeIInv, ReaperExited
<1>3. PICK c \in Seq(AThread) : ListIs(c)
  BY DEF ListIInv
<1>4. PICK k \in 1 .. Len(c) : c[k] = zombie
  BY <1>1, <1>3 DEF ListIs, Range
<1> DEFINE d == SubSeq(c, k + 1, Len(c))
           f == SubSeq(c, 1, k)
<1>5. /\ d \in Seq(AThread) /\ Len(d) = Len(c) - k /\ IsInjective(d)
      /\ \A i \in 1 .. Len(d) : d[i] = c[i + k]
  <2>1. k \in 0 .. Len(c) /\ IsInjective(c)
    BY <1>3 DEF ListIs
  <2> QED BY <2>1, DropExact
<1>6. Len(c) \in Nat /\ DOMAIN d = 1 .. Len(d) /\ DOMAIN c = 1 .. Len(c)
  BY <1>5
<1> HIDE DEF d, f
<1>7. \A i \in 1 .. Len(d) : i + k \in 1 .. Len(c) /\ d[i] = c[i + k] /\ d[i] # zombie /\ d[i] \in AThread
  <2> SUFFICES ASSUME NEW i \in 1 .. Len(d)
               PROVE  i + k \in 1 .. Len(c) /\ d[i] = c[i + k] /\ d[i] # zombie /\ d[i] \in AThread
    OBVIOUS
  <2>1. i + k \in 1 .. Len(c) /\ i + k # k /\ d[i] = c[i + k]
    BY <1>5, <1>6
  <2>2. c[i + k] # c[k]
    BY <1>3, <1>6, <2>1 DEF ListIs, IsInjective
  <2> QED BY <1>4, <2>1, <2>2
<1>8. \A i \in 1 .. Len(c) : zombie_next[c[i]] = IF i = Len(c) THEN NoThread ELSE c[i + 1]
  BY <1>3 DEF ListIs, ZombieLinks
<1>9. g_zombie_list' = IF d = <<>> THEN NoThread ELSE d[1]
  <2>1. g_zombie_list' = IF k = Len(c) THEN NoThread ELSE c[k + 1]
    BY <1>1, <1>4, <1>8
  <2>2. CASE k = Len(c)
    <3>1. d = <<>>
      BY <1>5, <1>6, <2>2
    <3> QED BY <2>1, <2>2, <3>1
  <2>3. CASE k # Len(c)
    <3>1. 1 \in 1 .. Len(d) /\ 1 + k = k + 1
      BY <1>5, <1>6, <2>3
    <3>2. d # <<>> /\ d[1] = c[k + 1]
      BY <1>5, <3>1
    <3> QED BY <2>1, <2>3, <3>2
  <2> QED BY <2>2, <2>3
<1>10. ASSUME NEW i \in 1 .. Len(d)
       PROVE  zombie_next'[d[i]] = IF i = Len(d) THEN NoThread ELSE d[i + 1]
  <2>1. zombie_next'[d[i]] = zombie_next[c[i + k]]
    BY <1>1, <1>2, <1>7
  <2>2. zombie_next[c[i + k]] = IF i + k = Len(c) THEN NoThread ELSE c[(i + k) + 1]
    BY <1>7, <1>8
  <2>3. i + k = Len(c) <=> i = Len(d)
    BY <1>5, <1>6
  <2>4. i # Len(d) => d[i + 1] = c[(i + k) + 1]
    <3>1. i # Len(d) => i + 1 \in 1 .. Len(d)
      BY <1>5, <1>6
    <3>2. (i + 1) + k = (i + k) + 1
      BY <1>6
    <3> QED BY <1>5, <3>1, <3>2
  <2> QED BY <2>1, <2>2, <2>3, <2>4
<1>11. ZombieLinks(d)'
  BY <1>6, <1>9, <1>10, Zenon DEF ZombieLinks
<1>12. \A i \in 1 .. Len(d) : tstate'[d[i]] = "zombie"
  BY <1>1, <1>3, <1>7 DEF ListIs
<1>13. zombie' \notin Range(d)
  BY <1>1, <1>6, <1>7 DEF Range
<1>14. ListIs(d)'
  BY <1>1, <1>5, <1>11, <1>12, <1>13 DEF ListIs
<1>15. InHand'
  BY <1>1 DEF ListIInv, InHand
<1> QED BY <1>5, <1>14, <1>15 DEF ListIInv

(* The other steps of the reaper leave the list alone.                     *)
LEMMA ListReaperStep ==
    ASSUME ListIInv, LifeIInv', ReaperTest \/ ReaperWaits \/ ReaperProcess \/ ReaperThread
    PROVE  ListIInv'
<1>1. UNCHANGED <<g_zombie_list, zombie_next>>
  BY DEF ReaperTest, ReaperWaits, ReaperProcess, ReaperThread
<1>2. PICK c \in Seq(AThread) : ListIs(c)
  BY DEF ListIInv
<1>3. \A i \in 1 .. Len(c) : c[i] \in AThread
  BY <1>2
<1>4. ZombieLinks(c)' /\ IsInjective(c)
  BY <1>1, <1>2 DEF ListIs, ZombieLinks
<1>5. tstate \in [AThread -> {"none", "live", "zombie", "freed"}]
  BY DEF ListIInv, LifeIInv, LifeTypeOK
<1>6. CASE ReaperTest
  <2>1. reaper = "test" /\ tstate' = tstate
    BY <1>6 DEF ReaperTest
  <2>2. CASE g_zombie_list = NoThread
    <3>1. reaper' = "to_wait" /\ zombie' = zombie
      BY <1>6, <2>2 DEF ReaperTest
    <3>2. ListIs(c)'
      BY <1>2, <1>4, <2>1, <3>1 DEF ListIs
    <3>3. InHand'
      BY <2>1, <3>1 DEF ListIInv, InHand
    <3> QED BY <3>2, <3>3 DEF ListIInv
  <2>3. CASE g_zombie_list # NoThread
    <3>1. reaper' = "store" /\ zombie' = g_zombie_list
      BY <1>6, <2>3 DEF ReaperTest
    <3>2. c # <<>> /\ g_zombie_list = c[1] /\ 1 \in 1 .. Len(c)
      BY <1>2, <2>3 DEF ListIs, ZombieLinks
    <3>3. zombie' \in Range(c) /\ zombie' \in AThread /\ tstate[zombie'] = "zombie"
      BY <1>2, <1>3, <3>1, <3>2 DEF ListIs, Range
    <3>4. ListIs(c)'
      BY <1>2, <1>4, <2>1, <3>1, <3>3 DEF ListIs
    <3>5. InHand'
      BY <2>1, <3>1, <3>3, SMTT(30) DEF InHand
    <3> QED BY <3>4, <3>5 DEF ListIInv
  <2> QED BY <2>2, <2>3
<1>7. CASE ReaperWaits \/ ReaperProcess
  <2>1. /\ tstate' = tstate /\ zombie' = zombie
        /\ \/ reaper = "to_wait" /\ reaper' = "waiting"
           \/ reaper = "process" /\ reaper' = "thread"
    BY <1>7 DEF ReaperWaits, ReaperProcess
  <2>2. ListIs(c)'
    BY <1>2, <1>4, <2>1 DEF ListIs
  <2>3. InHand'
    BY <2>1, SMTT(30) DEF ListIInv, InHand
  <2> QED BY <2>2, <2>3 DEF ListIInv
<1>8. CASE ReaperThread
  <2>1. /\ reaper = "thread" /\ reaper' = "test" /\ zombie' = NoThread
        /\ tstate' = [tstate EXCEPT ![zombie] = "freed"]
    BY <1>8 DEF ReaperThread
  <2>2. \A i \in 1 .. Len(c) : c[i] # zombie
    BY <1>2, <2>1 DEF ListIs, Range
  <2>3. \A i \in 1 .. Len(c) : tstate'[c[i]] = "zombie"
    BY <1>2, <1>3, <1>5, <2>1, <2>2 DEF ListIs
  <2>4. ListIs(c)'
    BY <1>4, <2>1, <2>3 DEF ListIs
  <2>5. InHand'
    BY <2>1 DEF InHand
  <2> QED BY <2>4, <2>5 DEF ListIInv
<1> QED BY <1>6, <1>7, <1>8

(* Every step keeps the list of zombies.                                   *)
LEMMA ListInductive == ListIInv /\ [LifeNext]_lifeVars => ListIInv'
<1> SUFFICES ASSUME ListIInv, [LifeNext]_lifeVars PROVE ListIInv'
  OBVIOUS
<1>1. LifeIInv /\ LifeIInv'
  BY LifeNextIInv, Zenon DEF ListIInv
<1>2. ASSUME NEW p \in Program, ExecSucceeds(p) \/ SegmentEnds(p) \/ ExecFails(p) \/ ExecReturns(p)
      PROVE  ListIInv'
  <2>1. UNCHANGED <<g_zombie_list, zombie_next, reaper, zombie>>
    BY <1>2, Zenon DEF ExecSucceeds, SegmentEnds, ExecFails, ExecReturns, reaperVars
  <2>2. \A t \in AThread : tstate[t] = "zombie" => tstate'[t] = "zombie"
    <3>1. CASE ExecSucceeds(p)
      <4>1. tstate[p] = "none"
        BY <1>1, <3>1 DEF ExecSucceeds, LifeIInv, NotYet
      <4>2. \E x : tstate' = [tstate EXCEPT ![p] = x]
        BY <3>1, Zenon DEF ExecSucceeds
      <4> QED BY <1>1, <4>1, <4>2 DEF LifeIInv, LifeTypeOK
    <3>2. CASE SegmentEnds(p) \/ ExecFails(p) \/ ExecReturns(p)
      BY <3>2 DEF SegmentEnds, ExecFails, ExecReturns
    <3> QED BY <1>2, <3>1, <3>2, Zenon
  <2> QED BY <1>1, <2>1, <2>2, ListFrame, Zenon
<1>3. ASSUME NEW t \in AThread, thread_exit(t) PROVE ListIInv'
  BY <1>1, <1>3, ListExitStep, Zenon
<1>4. ASSUME UNCHANGED <<tstate, g_zombie_list, zombie_next, reaper, zombie>> PROVE ListIInv'
  BY <1>1, <1>4, ListFrame
<1>5. ASSUME NEW j \in Joiner, NEW t \in AThread, thread_join(j, t) PROVE ListIInv'
  BY <1>4, <1>5, Zenon DEF thread_join, reaperVars
<1>6. ASSUME NEW j \in Joiner, JoinResumes(j) PROVE ListIInv'
  BY <1>4, <1>6, Zenon DEF JoinResumes, reaperVars
<1>7. CASE UNCHANGED lifeVars
  BY <1>4, <1>7, Zenon DEF lifeVars
<1>8. CASE ReaperStep
  BY <1>1, <1>8, ListStoreStep, ListReaperStep, Zenon DEF ReaperStep
<1> QED BY <1>2, <1>3, <1>5, <1>6, <1>7, <1>8, Zenon DEF LifeNext

(* The list is empty at boot.                                              *)
LEMMA ListInitial == LifeInit => ListIInv
<1> SUFFICES ASSUME LifeInit PROVE ListIInv
  OBVIOUS
<1>1. LifeIInv
  BY LifeInitIInv
<1>2. InHand
  BY DEF LifeInit, InHand
<1>3. <<>> \in Seq(AThread) /\ ListIs(<<>>)
  BY DEF LifeInit, ListIs, ZombieLinks, IsInjective
<1> QED BY <1>1, <1>2, <1>3, Zenon DEF ListIInv

(* reaper_add_zombie pushes without a lock while the reaper is between its *)
(* load and its store, and the joiners test and sleep while their target   *)
(* exits: the reaper's list stays a list of zombies nobody has freed, and  *)
(* every joiner sleeps in the list of a live target.                       *)
THEOREM ExitListsAlwaysExact == LifeSpec => []ExitListsExact
<1>1. ListIInv => ZombieListSound
  <2> SUFFICES ASSUME ListIInv PROVE ZombieListSound
    OBVIOUS
  <2>1. PICK c \in Seq(AThread) : ListIs(c)
    BY DEF ListIInv
  <2>2. c \in [1 .. Len(c) -> AThread] /\ Len(c) \in Nat /\ DOMAIN c = 1 .. Len(c)
    OBVIOUS
  <2>3. Len(c) \in 0 .. Cardinality(AThread)
    <3>1. c \in Injection(1 .. Len(c), AThread)
      BY <2>1, <2>2 DEF Injection, ListIs
    <3>2. IsFiniteSet(AThread)
      BY LifeAssumption, Zenon
    <3>3. Cardinality(1 .. Len(c)) <= Cardinality(AThread) /\ Cardinality(AThread) \in Nat
      BY <3>1, <3>2, FS_Injection, FS_CardinalityType, Zenon
    <3>4. Cardinality(1 .. Len(c)) = Len(c)
      <4>1. 1 \in Int /\ Len(c) \in Int
        BY <2>2
      <4>2. Cardinality(1 .. Len(c)) = IF 1 > Len(c) THEN 0 ELSE Len(c) - 1 + 1
        BY <4>1, FS_Interval, Zenon
      <4> QED BY <2>2, <4>2
    <3> QED BY <2>2, <3>3, <3>4
  <2>4. \A i \in 1 .. Len(c) : c[i] = zombie => reaper = "store"
    BY <2>1, <2>2, LifeAssumption DEF ListIInv, InHand, ListIs, Range
  <2> QED BY <2>1, <2>2, <2>3, <2>4 DEF ZombieListSound, ListIs
<1>2. LifeSpec => []ListIInv
  BY ListInitial, ListInductive, PTL DEF LifeSpec
<1> QED BY <1>1, <1>2, JoinersAlwaysExact, PTL DEF ExitListsExact

-----------------------------------------------------------------------------
(* The memory of the programs.                                             *)

(* The reaper has decremented thread_count for p.                          *)
Processed(p) == tstate[p] = "freed" \/ (zombie = p /\ reaper = "thread")

(* What a program holds: up to the last stage what the table says; then    *)
(* the stack and the structure of its thread until this is freed, and the  *)
(* process until the reaper has counted the thread.  A thread that is      *)
(* counted before the creator has set thread_count finds it 0.             *)
ProgramOK(p) ==
    /\ exec[p] \in 0 .. Started(p)
    /\ exec[p] = 0 => held[p] = {} /\ tstate[p] = "none"
    /\ exec[p] \in 1 .. Len(Stages(p)) =>
          held[p] = HeldAt(p, exec[p]) /\ tstate[p] = "none" /\ thread_count[p] = 0
    /\ exec[p] \in {Running(p), Started(p)} =>
          tstate[p] # "none" /\ (tstate[p] # "freed" => {"kernel_stack", "thread"} \subseteq held[p])
    /\ exec[p] = Running(p) =>
          {"directory", "proc"} \subseteq held[p] /\ (~Processed(p) => thread_count[p] = 0)
    /\ exec[p] = Started(p) =>
          stack_base[p] = FALSE /\ (~Processed(p) => {"directory", "proc"} \subseteq held[p])

MemoryTypeOK ==
    /\ held \in [Program -> SUBSET Object] /\ thread_count \in [Program -> Nat]
    /\ stack_base \in [Program -> BOOLEAN]

MemoryIInv ==
    /\ ListIInv /\ MemoryTypeOK /\ overfreed = {}
    /\ \A p \in Program : ProgramOK(p)

(* A program nobody touches, except that its thread may exit.              *)
LEMMA ProgramFrame ==
    ASSUME NEW p \in Program, ProgramOK(p), tstate'[p] # "none" <=> tstate[p] # "none",
           exec'[p] = exec[p], held'[p] = held[p], thread_count'[p] = thread_count[p],
           stack_base'[p] = stack_base[p], tstate'[p] = "freed" <=> tstate[p] = "freed",
           Processed(p)' <=> Processed(p)
    PROVE  ProgramOK(p)'
<1>1. Stages(p)' = Stages(p) /\ Started(p)' = Started(p) /\ Running(p)' = Running(p)
      /\ HeldAt(p, exec[p])' = HeldAt(p, exec'[p])
  BY DEF Stages, Started, Running, HeldAt
<1> QED BY <1>1, Zenon DEF ProgramOK

(* A creation that has reached a stage, or failed, or made its thread.     *)
LEMMA AtStage ==
    ASSUME NEW p \in Program, exec'[p] \in 1 .. Len(Stages(p)), held'[p] = HeldAt(p, exec'[p]),
           tstate'[p] = "none", thread_count'[p] = 0
    PROVE  ProgramOK(p)'
<1> DEFINE n == Len(Stages(p))
<1>1. n \in Nat /\ Running(p) = n + 1 /\ Started(p) = n + 2
  BY ThreadLast DEF Running, Started
<1>2. /\ (held[p] = HeldAt(p, exec[p]))' /\ Stages(p)' = Stages(p)
      /\ Running(p)' = Running(p) /\ Started(p)' = Started(p)
  BY DEF HeldAt, Running, Started, Stages
<1>3. exec'[p] \in 0 .. n + 2 /\ exec'[p] # 0 /\ exec'[p] # n + 1 /\ exec'[p] # n + 2
  <2> HIDE DEF n
  <2> QED BY <1>1 DEF n
<1> QED BY <1>1, <1>2, <1>3, Zenon DEF ProgramOK

LEMMA AtFailure ==
    ASSUME NEW p \in Program, exec'[p] = 0, held'[p] = {}, tstate'[p] = "none"
    PROVE  ProgramOK(p)'
<1> DEFINE n == Len(Stages(p))
<1>1. n \in Nat /\ Running(p) = n + 1 /\ Started(p) = n + 2
  BY ThreadLast DEF Running, Started
<1>2. Stages(p)' = Stages(p) /\ Running(p)' = Running(p) /\ Started(p)' = Started(p)
  BY DEF Running, Started, Stages
<1>3. 0 \in 0 .. n + 2 /\ 0 \notin 1 .. n /\ 0 # n + 1 /\ 0 # n + 2
  <2> HIDE DEF n
  <2> QED BY <1>1
<1> QED BY <1>1, <1>2, <1>3, Zenon DEF ProgramOK

LEMMA AtThread ==
    ASSUME NEW p \in Program, exec'[p] = Running(p), thread_count'[p] = 0, tstate'[p] = "live",
           {"kernel_stack", "thread"} \subseteq held'[p], {"directory", "proc"} \subseteq held'[p]
    PROVE  ProgramOK(p)'
<1> DEFINE n == Len(Stages(p))
<1>1. n \in Nat /\ Running(p) = n + 1 /\ Started(p) = n + 2
  BY ThreadLast DEF Running, Started
<1>2. Stages(p)' = Stages(p) /\ Running(p)' = Running(p) /\ Started(p)' = Started(p)
  BY DEF Running, Started, Stages
<1>3. n + 1 \in 0 .. n + 2 /\ n + 1 \notin 1 .. n /\ n + 1 # 0 /\ n + 1 # n + 2
  <2> HIDE DEF n
  <2> QED BY <1>1
<1>4. tstate'[p] # "none"
  OBVIOUS
<1> QED BY <1>1, <1>2, <1>3, <1>4, Zenon DEF ProgramOK

(* A creation succeeds or fails at a stage.                                *)
LEMMA MemoryStageStep ==
    ASSUME MemoryIInv, NEW p \in Program, ExecSucceeds(p) \/ ExecFails(p)
    PROVE  ProgramOK(p)' /\ MemoryTypeOK' /\ overfreed' = {}
<1> DEFINE n == Len(Stages(p))
<1>0. n \in Nat /\ n >= 12
  <2>1. n = IF p \in WithArgs THEN 15 ELSE 14
    BY StageTable
  <2> QED BY <2>1
<1>1. \A i \in 1 .. n : /\ Leads(Stages(p)[i], HeldAt(p, i), HeldAt(p, i + 1))
                        /\ Creates(Stages(p)[i]) <=> i = n
  BY StageTable, Zenon
<1> HIDE DEF n
<1>2. /\ exec[p] \in 1 .. n /\ held[p] = HeldAt(p, exec[p]) /\ tstate[p] = "none" /\ thread_count[p] = 0
      /\ exec \in [Program -> Nat] /\ p \in AThread
      /\ tstate \in [AThread -> {"none", "live", "zombie", "freed"}]
  BY Zenon DEF MemoryIInv, ListIInv, LifeIInv, LifeTypeOK, ProgramOK, ExecSucceeds, ExecFails, n, AThread
<1>3. held \in [Program -> SUBSET Object] /\ thread_count \in [Program -> Nat]
  BY DEF MemoryIInv, MemoryTypeOK
<1>4. zombie # p
  BY <1>2, LifeAssumption, Zenon DEF MemoryIInv, ListIInv, InHand
<1> DEFINE s == StageOf(p)
<1>5. Leads(s, HeldAt(p, exec[p]), HeldAt(p, exec[p] + 1)) /\ (Creates(s) <=> exec[p] = n)
  BY <1>1, <1>2, Zenon DEF StageOf
<1>6. Running(p) = n + 1 /\ Started(p) = n + 2
  BY DEF Running, Started, n
<1>7. CASE ExecSucceeds(p)
  <2>1. /\ exec'[p] = exec[p] + 1 /\ held'[p] = (held[p] \cup s.take) \ s.drop
        /\ overfreed' = overfreed /\ thread_count' = thread_count
        /\ tstate'[p] = IF "thread" \in s.take THEN "live" ELSE tstate[p]
        /\ UNCHANGED <<zombie, reaper>>
    BY <1>2, <1>3, <1>7, ZenonT(30) DEF ExecSucceeds, reaperVars
  <2>2. held'[p] = HeldAt(p, exec'[p])
    BY <1>2, <1>5, <2>1, ZenonT(30) DEF Leads
  <2>3. tstate'[p] = IF exec[p] = n THEN "live" ELSE "none"
    BY <1>2, <1>5, <2>1 DEF Creates
  <2>4. held' \in [Program -> SUBSET Object]
    <3>1. held' = [held EXCEPT ![p] = HeldAt(p, exec'[p])]
      <4>1. held' = [held EXCEPT ![p] = (held[p] \cup s.take) \ s.drop]
        BY <1>7, Zenon DEF ExecSucceeds
      <4> QED BY <2>1, <2>2, <4>1, ZenonT(30)
    <3>2. HeldAt(p, exec'[p]) \in SUBSET Object
      BY DEF HeldAt, Object, Base
    <3> QED BY <1>3, <3>1, <3>2
  <2>5. stack_base' \in [Program -> BOOLEAN]
    <3>1. PICK b \in BOOLEAN : stack_base' = [stack_base EXCEPT ![p] = b]
      BY <1>7, Zenon DEF ExecSucceeds
    <3>2. stack_base \in [Program -> BOOLEAN]
      BY DEF MemoryIInv, MemoryTypeOK
    <3> QED BY <3>1, <3>2
  <2>6. ProgramOK(p)'
    <3>1. CASE exec[p] = n
      <4>1. exec'[p] = n + 1 /\ held'[p] = Base \cup {"thread"}
        <5>1. n = IF p \in WithArgs THEN 15 ELSE 14
          BY StageTable DEF n
        <5>2. HeldAt(p, n + 1) = Base \cup {"thread"}
          BY <1>6, <5>1 DEF HeldAt
        <5> QED BY <2>1, <2>2, <3>1, <5>2
      <4>2. {"kernel_stack", "thread"} \subseteq held'[p] /\ {"directory", "proc"} \subseteq held'[p]
        BY <4>1 DEF Base
      <4>3. tstate'[p] = "live" /\ thread_count'[p] = 0
        BY <1>2, <2>1, <2>3, <3>1
      <4> QED BY <1>6, <4>1, <4>2, <4>3, AtThread
    <3>2. CASE exec[p] # n
      <4>1. exec'[p] \in 1 .. n /\ tstate'[p] = "none" /\ thread_count'[p] = 0
        BY <1>0, <1>2, <2>1, <2>3, <3>2
      <4> QED BY <2>2, <4>1, AtStage, Zenon DEF n
    <3> QED BY <3>1, <3>2
  <2> QED BY <1>3, <2>1, <2>4, <2>5, <2>6 DEF MemoryTypeOK, MemoryIInv
<1>8. CASE ExecFails(p)
  <2>1. /\ exec'[p] = 0 /\ held'[p] = held[p] \ s.undo /\ UNCHANGED <<tstate, thread_count, stack_base>>
        /\ overfreed' = overfreed \cup {<<p, o>> : o \in s.undo \ held[p]}
        /\ held' = [held EXCEPT ![p] = held[p] \ s.undo]
    BY <1>2, <1>3, <1>8, SMTT(30) DEF ExecFails, Undo
  <2>2. s.undo = held[p]
    BY <1>2, <1>5 DEF Leads
  <2>3. held'[p] = {} /\ overfreed' = overfreed
    BY <2>1, <2>2
  <2>4. held' \in [Program -> SUBSET Object]
    BY <1>3, <2>1
  <2>5. ProgramOK(p)'
    BY <1>2, <2>1, <2>3, AtFailure
  <2> QED BY <2>1, <2>3, <2>4, <2>5, ZenonT(30) DEF MemoryTypeOK, MemoryIInv
<1> QED BY <1>7, <1>8

(* A segment ends: elf_load_file keeps the file, or closes it.             *)
LEMMA MemorySegmentStep ==
    ASSUME MemoryIInv, NEW p \in Program, SegmentEnds(p)
    PROVE  ProgramOK(p)' /\ MemoryTypeOK' /\ overfreed' = {}
<1> DEFINE n == Len(Stages(p))
<1>0. n = 14 \/ n = 15
  BY StageTable
<1> HIDE DEF n
<1>1. exec[p] \in {10, 11} /\ UNCHANGED <<tstate, overfreed, thread_count, stack_base, zombie, reaper>>
  BY DEF SegmentEnds, reaperVars
<1>2. /\ held[p] = HeldAt(p, exec[p]) /\ tstate[p] = "none" /\ thread_count[p] = 0
      /\ exec \in [Program -> Nat] /\ held \in [Program -> SUBSET Object]
  <2>1. exec[p] \in 1 .. n
    BY <1>0, <1>1
  <2> QED BY <2>1 DEF MemoryIInv, MemoryTypeOK, ListIInv, LifeIInv, LifeTypeOK, ProgramOK, n
<1>3. Running(p) = n + 1 /\ Started(p) = n + 2
  BY DEF Running, Started, n
<1>4. /\ HeldAt(p, 9) = Base \cup {"file", "phdrs"} /\ HeldAt(p, 10) = Base \cup {"file", "phdrs"}
      /\ HeldAt(p, 11) = Base \cup {"file", "phdrs", "segbuf"} /\ HeldAt(p, 12) = Base
  BY <1>0, <1>3 DEF HeldAt
<1>5. \/ exec'[p] = 9 /\ held'[p] = held[p] \ {"segbuf"}
      \/ exec'[p] = 12 /\ held'[p] = held[p] \ {"segbuf", "phdrs", "file"}
  BY <1>2 DEF SegmentEnds
<1>6. held'[p] = HeldAt(p, exec'[p])
  <2>1. held[p] = Base \cup {"file", "phdrs"} \/ held[p] = Base \cup {"file", "phdrs", "segbuf"}
    BY <1>1, <1>2, <1>4
  <2>2. held[p] \ {"segbuf"} = Base \cup {"file", "phdrs"}
    BY <2>1 DEF Base
  <2>3. held[p] \ {"segbuf", "phdrs", "file"} = Base
    BY <2>1 DEF Base
  <2> QED BY <1>4, <1>5, <2>2, <2>3
<1>7. held' \in [Program -> SUBSET Object]
  BY <1>2 DEF SegmentEnds
<1>8. ProgramOK(p)'
  <2>1. exec'[p] \in 1 .. n /\ tstate'[p] = "none" /\ thread_count'[p] = 0
    BY <1>0, <1>1, <1>2, <1>5
  <2> QED BY <1>6, <2>1, AtStage, Zenon DEF n
<1> QED BY <1>1, <1>7, <1>8, Zenon DEF MemoryTypeOK, MemoryIInv

(* The creator returns: it sets thread_count and gives up the stack.       *)
LEMMA MemoryReturnStep ==
    ASSUME MemoryIInv, NEW p \in Program, ExecReturns(p)
    PROVE  ProgramOK(p)' /\ MemoryTypeOK' /\ overfreed' = {}
<1> DEFINE n == Len(Stages(p))
<1>0. n \in Nat /\ Running(p) = n + 1 /\ Started(p) = n + 2
  BY ThreadLast DEF Running, Started
<1> HIDE DEF n
<1>1. /\ exec[p] = Running(p) /\ exec' = [exec EXCEPT ![p] = Started(p)]
      /\ thread_count' = [thread_count EXCEPT ![p] = 1]
      /\ stack_base' = [stack_base EXCEPT ![p] = FALSE]
      /\ UNCHANGED <<tstate, held, overfreed, zombie, reaper>>
  BY DEF ExecReturns, reaperVars
<1>2. /\ exec \in [Program -> Nat] /\ held \in [Program -> SUBSET Object]
      /\ thread_count \in [Program -> Nat]
  BY DEF MemoryIInv, MemoryTypeOK, ListIInv, LifeIInv, LifeTypeOK
<1>3. stack_base \in [Program -> BOOLEAN]
  BY DEF MemoryIInv, MemoryTypeOK
<1>4. stack_base'[p] = FALSE
  BY <1>1, <1>3
<1>5. stack_base' \in [Program -> BOOLEAN]
  BY <1>1, <1>3
<1>6. exec'[p] = n + 2 /\ thread_count' \in [Program -> Nat] /\ held' \in [Program -> SUBSET Object]
  BY <1>0, <1>1, <1>2, SMTT(30)
<1>7. /\ tstate[p] # "none" /\ (tstate[p] # "freed" => {"kernel_stack", "thread"} \subseteq held[p])
      /\ {"directory", "proc"} \subseteq held[p]
  BY <1>1, SMTT(30) DEF MemoryIInv, ProgramOK
<1>8. ProgramOK(p)'
  BY <1>0, <1>1, <1>4, <1>6, <1>7 DEF ProgramOK, n
<1> QED BY <1>1, <1>5, <1>6, <1>8, Zenon DEF MemoryTypeOK, MemoryIInv

(* The reaper counts the thread of a program, and frees the process when   *)
(* the count reaches 0: not when its creator has yet to set it.            *)
LEMMA MemoryProcessStep ==
    ASSUME MemoryIInv, ReaperProcess
    PROVE  /\ MemoryTypeOK' /\ overfreed' = {}
           /\ \A p \in Program : ProgramOK(p)'
<1>1. /\ reaper = "process" /\ reaper' = "thread" /\ tstate[zombie] = "zombie"
      /\ UNCHANGED <<tstate, zombie, exec, stack_base>>
  BY Zenon DEF ReaperProcess, MemoryIInv, ListIInv, InHand
<1>2. held \in [Program -> SUBSET Object] /\ thread_count \in [Program -> Nat]
  BY DEF MemoryIInv, MemoryTypeOK
<1>3. stack_base' \in [Program -> BOOLEAN]
  BY <1>1 DEF MemoryIInv, MemoryTypeOK
<1>4. CASE zombie \notin Program
  <2>1. UNCHANGED <<thread_count, held, overfreed>>
    BY <1>4 DEF ReaperProcess
  <2>2. \A p \in Program : Processed(p)' <=> Processed(p)
    BY <1>1, <1>4, SMTT(30) DEF Processed
  <2>3. \A p \in Program : ProgramOK(p)'
    BY <1>1, <2>1, <2>2, ProgramFrame DEF MemoryIInv
  <2> QED BY <1>3, <2>1, <2>3 DEF MemoryIInv, MemoryTypeOK
<1>5. CASE zombie \in Program
  <2> DEFINE p    == zombie
             left == (thread_count[p] + CountMod - 1) % CountMod
             objs == IF left = 0 THEN ProcessObjects(p) ELSE {}
             n    == Len(Stages(p))
  <2>0. n \in Nat /\ Running(p) = n + 1 /\ Started(p) = n + 2
    BY <1>5, ThreadLast DEF Running, Started
  <2>1. /\ thread_count' = [thread_count EXCEPT ![p] = left]
        /\ held' = [held EXCEPT ![p] = held[p] \ objs]
        /\ overfreed' = overfreed \cup {<<p, o>> : o \in objs \ held[p]}
    BY <1>5 DEF ReaperProcess
  <2>2. ProgramOK(p) /\ exec[p] \in {Running(p), Started(p)} /\ ~Processed(p)
    <3>1. ProgramOK(p)
      BY <1>5 DEF MemoryIInv
    <3>2. exec[p] \in 0 .. n + 2 /\ exec[p] # 0 /\ exec[p] \notin 1 .. n
      BY <1>1, <2>0, <3>1 DEF ProgramOK
    <3> QED BY <1>1, <2>0, <3>1, <3>2 DEF Processed
  <2>3. CountMod \in Nat /\ CountMod > 1
    BY LifeAssumption
  <2>4. left \in Nat
    <3>1. thread_count[p] + CountMod - 1 \in Nat
      BY <1>2, <1>5, <2>3
    <3> QED BY <2>3, <3>1
  <2>5. exec[p] = Running(p) => objs = {}
    <3> SUFFICES ASSUME exec[p] = Running(p) PROVE left # 0
      OBVIOUS
    <3>1. thread_count[p] = 0
      BY <2>2 DEF ProgramOK
    <3>2. left = CountMod - 1
      BY <2>3, <3>1
    <3> QED BY <2>3, <3>2
  <2>6. exec[p] = Started(p) => objs \subseteq {"directory", "proc"} /\ {"directory", "proc"} \subseteq held[p]
    <3> SUFFICES ASSUME exec[p] = Started(p)
                 PROVE  objs \subseteq {"directory", "proc"} /\ {"directory", "proc"} \subseteq held[p]
      OBVIOUS
    <3>1. stack_base[p] = FALSE /\ {"directory", "proc"} \subseteq held[p]
      BY <2>2 DEF ProgramOK
    <3>2. ProcessObjects(p) = {"directory", "proc"}
      BY <3>1 DEF ProcessObjects
    <3> QED BY <3>1, <3>2
  <2> HIDE DEF left, objs, n
  <2>7. objs \subseteq held[p] /\ objs \subseteq {"directory", "proc"}
    BY <2>2, <2>5, <2>6
  <2>8. overfreed' = {}
    <3>1. objs \ held[p] = {}
      BY <2>7, Zenon
    <3> QED BY <2>1, <3>1 DEF MemoryIInv
  <2>9. MemoryTypeOK'
    <3>1. held' \in [Program -> SUBSET Object] /\ thread_count' \in [Program -> Nat]
      BY <1>2, <1>5, <2>1, <2>4
    <3> QED BY <1>3, <3>1 DEF MemoryTypeOK
  <2>10. ASSUME NEW q \in Program, q # p PROVE ProgramOK(q)'
    <3>1. held'[q] = held[q] /\ thread_count'[q] = thread_count[q]
      BY <1>2, <2>1, <2>10
    <3>2. Processed(q)' <=> Processed(q)
      BY <1>1, <2>10 DEF Processed
    <3> QED BY <1>1, <3>1, <3>2, ProgramFrame, Zenon DEF MemoryIInv
  <2>11. ProgramOK(p)'
    <3>1. held'[p] = held[p] \ objs
      BY <1>2, <1>5, <2>1
    <3>2. Processed(p)'
      BY <1>1 DEF Processed
    <3>3. /\ exec'[p] = exec[p] /\ tstate'[p] = tstate[p] /\ stack_base'[p] = stack_base[p]
          /\ tstate[p] = "zombie"
      BY <1>1
    <3>4. {"kernel_stack", "thread"} \subseteq held'[p]
      BY <2>2, <2>7, <3>1, <3>3, ZenonT(30) DEF ProgramOK
    <3>5. exec[p] = Running(p) => {"directory", "proc"} \subseteq held'[p]
      BY <2>2, <2>5, <3>1, SMTT(30) DEF ProgramOK
    <3>6. exec[p] = Started(p) => stack_base[p] = FALSE
      BY <2>2 DEF ProgramOK
    <3>7. /\ p' = p /\ exec'[p] \in 0 .. n + 2 /\ exec'[p] # 0 /\ exec'[p] \notin 1 .. n
      BY <1>1, <2>0, <2>2 DEF n
    <3> QED BY <2>0, <2>2, <3>2, <3>3, <3>4, <3>5, <3>6, <3>7, ZenonT(30) DEF ProgramOK, n
  <2>12. ASSUME NEW q \in Program PROVE ProgramOK(q)'
    BY <1>1, <2>10, <2>11
  <2> QED BY <2>8, <2>9, <2>12
<1> QED BY <1>4, <1>5

(* The reaper frees the stack and the structure of the thread.             *)
LEMMA MemoryThreadStep ==
    ASSUME MemoryIInv, ReaperThread
    PROVE  /\ MemoryTypeOK' /\ overfreed' = {}
           /\ \A p \in Program : ProgramOK(p)'
<1> DEFINE z == zombie
           objs == {"kernel_stack", "thread"}
<1>1. /\ reaper = "thread" /\ reaper' = "test" /\ z \in AThread /\ tstate[z] = "zombie"
      /\ tstate' = [tstate EXCEPT ![z] = "freed"] /\ zombie' = NoThread
      /\ UNCHANGED <<exec, thread_count, stack_base>>
  BY DEF ReaperThread, MemoryIInv, ListIInv, InHand
<1>2. /\ held \in [Program -> SUBSET Object]
      /\ tstate \in [AThread -> {"none", "live", "zombie", "freed"}]
  BY DEF MemoryIInv, MemoryTypeOK, ListIInv, LifeIInv, LifeTypeOK
<1>3. NoThread \notin AThread /\ Program \subseteq AThread
  BY LifeAssumption DEF AThread
<1>4. ASSUME NEW q \in Program, q # z, held'[q] = held[q] PROVE ProgramOK(q)'
  <2>1. tstate'[q] = tstate[q]
    BY <1>1, <1>2, <1>3, <1>4
  <2>2. Processed(q)' <=> Processed(q)
    BY <1>1, <1>3, <1>4, <2>1 DEF Processed
  <2> QED BY <1>1, <1>4, <2>1, <2>2, ProgramFrame, ZenonT(30) DEF MemoryIInv
<1>5. CASE z \notin Program
  <2>1. UNCHANGED <<held, overfreed>>
    BY <1>5 DEF ReaperThread
  <2>2. MemoryTypeOK'
    BY <1>1, <2>1, Zenon DEF MemoryIInv, MemoryTypeOK
  <2>3. ASSUME NEW q \in Program PROVE ProgramOK(q)'
    BY <1>4, <1>5, <2>1
  <2> QED BY <2>1, <2>2, <2>3 DEF MemoryIInv
<1>6. CASE z \in Program
  <2>1. /\ held' = [held EXCEPT ![z] = held[z] \ objs]
        /\ overfreed' = overfreed \cup {<<z, o>> : o \in objs \ held[z]}
    BY <1>6 DEF ReaperThread
  <2>2. ProgramOK(z)
    BY <1>6 DEF MemoryIInv
  <2> DEFINE n == Len(Stages(z))
  <2>3. n \in Nat /\ Running(z) = n + 1 /\ Started(z) = n + 2
    BY <1>6, ThreadLast, SMTT(30) DEF Running, Started
  <2>4. exec[z] \in 0 .. n + 2 /\ exec[z] # 0 /\ exec[z] \notin 1 .. n
    BY <1>1, <2>2, <2>3 DEF ProgramOK
  <2> HIDE DEF n
  <2>5. exec[z] \in {Running(z), Started(z)}
    BY <2>3, <2>4
  <2>6. objs \subseteq held[z]
    BY <1>1, <2>2, <2>5 DEF ProgramOK
  <2>7. overfreed' = {}
    <3>1. objs \ held[z] = {}
      BY <2>6
    <3> HIDE DEF objs
    <3> QED BY <2>1, <3>1 DEF MemoryIInv
  <2>8. MemoryTypeOK'
    <3>1. held' \in [Program -> SUBSET Object] /\ thread_count' \in [Program -> Nat]
      BY <1>1, <1>2, <1>6, <2>1 DEF MemoryIInv, MemoryTypeOK
    <3>2. stack_base' \in [Program -> BOOLEAN]
      BY <1>1 DEF MemoryIInv, MemoryTypeOK
    <3> QED BY <3>1, <3>2 DEF MemoryTypeOK
  <2>9. ASSUME NEW q \in Program PROVE ProgramOK(q)'
    <3>1. CASE q # z
      BY <1>2, <1>4, <2>1, <2>9, <3>1, SMTT(30)
    <3>2. CASE q = z
      <4>1. /\ tstate'[q] = "freed" /\ exec'[q] = exec[q] /\ stack_base'[q] = stack_base[q]
            /\ held'[q] = held[q] \ objs
        BY <1>1, <1>2, <1>3, <1>6, <2>1, <3>2
      <4>2. Processed(q)'
        BY <4>1 DEF Processed
      <4>3. exec[q] = Running(q) => {"directory", "proc"} \subseteq held'[q]
        BY <2>2, <3>2, <4>1, SMTT(30) DEF ProgramOK
      <4>4. exec[q] = Started(q) => stack_base[q] = FALSE
        BY <2>2, <3>2 DEF ProgramOK
      <4> QED BY <2>3, <2>4, <3>2, <4>1, <4>2, <4>3, <4>4, SMTT(30) DEF ProgramOK, n
    <3> QED BY <3>1, <3>2
  <2> QED BY <2>7, <2>8, <2>9
<1> QED BY <1>5, <1>6

(* Every step keeps the account of the programs' memory.                   *)
LEMMA MemoryInductive == MemoryIInv /\ [LifeNext]_lifeVars => MemoryIInv'
<1> SUFFICES ASSUME MemoryIInv, [LifeNext]_lifeVars PROVE MemoryIInv'
  OBVIOUS
<1>1. ListIInv'
  BY ListInductive, Zenon DEF MemoryIInv
<1>2. ASSUME NEW p \in Program, ExecSucceeds(p) \/ SegmentEnds(p) \/ ExecFails(p) \/ ExecReturns(p)
      PROVE  MemoryIInv'
  <2>1. ProgramOK(p)' /\ MemoryTypeOK' /\ overfreed' = {}
    BY <1>2, MemoryStageStep, MemorySegmentStep, MemoryReturnStep, Zenon
  <2>2. UNCHANGED <<zombie, reaper>>
    BY <1>2, Zenon DEF ExecSucceeds, SegmentEnds, ExecFails, ExecReturns, reaperVars
  <2>3. ASSUME NEW q \in Program, q # p
        PROVE  /\ tstate'[q] = tstate[q] /\ exec'[q] = exec[q] /\ held'[q] = held[q]
               /\ thread_count'[q] = thread_count[q] /\ stack_base'[q] = stack_base[q]
    <3>1. /\ tstate \in [AThread -> {"none", "live", "zombie", "freed"}] /\ q \in AThread
          /\ exec \in [Program -> Nat] /\ held \in [Program -> SUBSET Object]
          /\ thread_count \in [Program -> Nat]
      BY DEF MemoryIInv, MemoryTypeOK, ListIInv, LifeIInv, LifeTypeOK, AThread
    <3>2. stack_base \in [Program -> BOOLEAN]
      BY DEF MemoryIInv, MemoryTypeOK
    <3>3. /\ \E x : tstate' = [tstate EXCEPT ![p] = x] \/ tstate' = tstate
          /\ \E x : exec' = [exec EXCEPT ![p] = x]
          /\ \E x : held' = [held EXCEPT ![p] = x] \/ held' = held
          /\ \E x : thread_count' = [thread_count EXCEPT ![p] = x] \/ thread_count' = thread_count
      BY <1>2, ZenonT(30) DEF ExecSucceeds, SegmentEnds, ExecFails, ExecReturns
    <3>4. \E x : stack_base' = [stack_base EXCEPT ![p] = x] \/ stack_base' = stack_base
      BY <1>2, Zenon DEF ExecSucceeds, SegmentEnds, ExecFails, ExecReturns
    <3>5. stack_base'[q] = stack_base[q]
      BY <2>3, <3>2, <3>4
    <3> QED BY <2>3, <3>1, <3>3, <3>5
  <2>4. ASSUME NEW q \in Program PROVE ProgramOK(q)'
    <3>1. CASE q # p
      <4>1. Processed(q)' <=> Processed(q)
        BY <2>2, <2>3, <3>1 DEF Processed
      <4> QED BY <2>3, <3>1, <4>1, ProgramFrame, Zenon DEF MemoryIInv
    <3> QED BY <2>1, <3>1
  <2> QED BY <1>1, <2>1, <2>4 DEF MemoryIInv
<1>3. ASSUME UNCHANGED execVars,
             \A p \in Program : /\ tstate'[p] # "none" <=> tstate[p] # "none"
                                /\ Processed(p)' <=> Processed(p)
                                /\ tstate'[p] = "freed" <=> tstate[p] = "freed"
      PROVE  MemoryIInv'
  <2>1. UNCHANGED <<held, overfreed, exec, thread_count, stack_base>>
    BY <1>3, Zenon DEF execVars
  <2>2. MemoryTypeOK' /\ overfreed' = {}
    BY <2>1, Zenon DEF MemoryIInv, MemoryTypeOK
  <2>3. ASSUME NEW p \in Program PROVE ProgramOK(p)'
    BY <1>3, <2>1, ProgramFrame DEF MemoryIInv
  <2> QED BY <1>1, <2>2, <2>3 DEF MemoryIInv
<1>4. ASSUME NEW t \in AThread, thread_exit(t) PROVE MemoryIInv'
  <2>1. /\ UNCHANGED execVars /\ tstate[t] = "live" /\ tstate' = [tstate EXCEPT ![t] = "zombie"]
        /\ zombie' = zombie /\ reaper' = IF reaper = "waiting" THEN "test" ELSE reaper
    BY <1>4 DEF thread_exit, reaper_add_zombie
  <2>2. tstate \in [AThread -> {"none", "live", "zombie", "freed"}] /\ Program \subseteq AThread
    BY DEF MemoryIInv, ListIInv, LifeIInv, LifeTypeOK, AThread
  <2>3. \A p \in Program : /\ tstate'[p] # "none" <=> tstate[p] # "none"
                           /\ tstate'[p] = "freed" <=> tstate[p] = "freed"
    BY <2>1, <2>2
  <2>4. \A p \in Program : Processed(p)' <=> Processed(p)
    BY <2>1, <2>3 DEF Processed
  <2> QED BY <1>3, <2>1, <2>3, <2>4
<1>5. ASSUME UNCHANGED <<tstate, zombie, reaper, execVars>> PROVE MemoryIInv'
  BY <1>3, <1>5 DEF Processed
<1>6. ASSUME NEW j \in Joiner, NEW t \in AThread, thread_join(j, t) PROVE MemoryIInv'
  BY <1>5, <1>6, Zenon DEF thread_join, reaperVars
<1>7. ASSUME NEW j \in Joiner, JoinResumes(j) PROVE MemoryIInv'
  BY <1>5, <1>7, Zenon DEF JoinResumes, reaperVars
<1>8. CASE UNCHANGED lifeVars
  BY <1>5, <1>8, Zenon DEF lifeVars, execVars
<1>9. CASE ReaperTest \/ ReaperWaits \/ ReaperStore
  <2>1. /\ UNCHANGED execVars /\ tstate' = tstate /\ reaper # "thread" /\ reaper' # "thread"
    BY <1>9 DEF ReaperTest, ReaperWaits, ReaperStore
  <2> QED BY <1>3, <2>1 DEF Processed
<1>10. CASE ReaperProcess
  BY <1>1, <1>10, MemoryProcessStep DEF MemoryIInv
<1>11. CASE ReaperThread
  BY <1>1, <1>11, MemoryThreadStep DEF MemoryIInv
<1> QED BY <1>2, <1>4, <1>6, <1>7, <1>8, <1>9, <1>10, <1>11, Zenon DEF LifeNext, ReaperStep

(* process_exec_and_wait and process_execute, elf_load_file and the reaper *)
(* together: whichever stage of a creation fails, and however the creator, *)
(* the exit of the thread and the reaper interleave, nothing is freed      *)
(* twice and a failed creation leaves nothing, for any number of programs. *)
THEOREM EverythingFreedOnce == LifeSpec => []FreedExactlyOnce
<1>1. LifeInit => MemoryIInv
  <2> SUFFICES ASSUME LifeInit PROVE MemoryIInv
    OBVIOUS
  <2>1. held \in [Program -> SUBSET Object] /\ thread_count \in [Program -> Nat]
    BY DEF LifeInit
  <2>2. stack_base \in [Program -> BOOLEAN]
    BY DEF LifeInit
  <2>3. ASSUME NEW p \in Program PROVE ProgramOK(p)
    <3>1. /\ exec[p] = 1 /\ held[p] = {} /\ thread_count[p] = 0 /\ tstate[p] = "none"
      BY LifeAssumption DEF LifeInit, AThread
    <3>2. HeldAt(p, 1) = {}
      <4>1. Running(p) # 1
        BY ThreadLast DEF Running
      <4> QED BY <4>1 DEF HeldAt
    <3>3. Len(Stages(p)) \in Nat /\ Len(Stages(p)) >= 12
      BY ThreadLast
    <3> QED BY <3>1, <3>2, <3>3 DEF ProgramOK, Started, Running
  <2> QED BY ListInitial, <2>1, <2>2, <2>3 DEF MemoryIInv, MemoryTypeOK, LifeInit
<1>2. MemoryIInv => FreedExactlyOnce
  BY DEF MemoryIInv, ProgramOK, FreedExactlyOnce, NothingFreedTwice, FailedExecLeavesNothing
<1> QED BY <1>1, <1>2, MemoryInductive, PTL DEF LifeSpec
=============================================================================
