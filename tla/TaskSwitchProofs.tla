-------------------------- MODULE TaskSwitchProofs --------------------------
(***************************************************************************)
(* Proofs about TaskSwitch, for any number of tasks: what the kernel knows *)
(* of the processor's state whenever it jumps, and that the switching is   *)
(* the scheduler of module Scheduler.                                      *)
(***************************************************************************)
EXTENDS TaskSwitch, SequenceTheorems, TLAPS

\* What may be on a task's kernel stack: int_soft_speed, int_hard_17, or the second
\* on the first, but only once the first has left its hlt.
Stacks ==
    {<<"user">>} \cup {<<"user", c>> : c \in {"soft", "hlt", "awake", "hard", "acked"}}
    \cup {<<"user", "awake", c>> : c \in {"hard", "acked"}}

\* task_control knows where it was left: it searches with nobody else busy, and
\* otherwise the task it jumped to is the only one left behind.
Segments ==
    /\ tr \in Tasks /\ t_indice \in Tasks /\ ready \subseteq Users
    /\ b_link \in [{Syscall, Clock} -> Tasks]
    /\ ~stopped /\ ~acceso
    /\ at = "scan" => tr = Control /\ busy = {Control}
    /\ at # "scan" => /\ at = "restore" /\ tss = t_indice /\ t_indice \in Users
                      /\ busy = {tr, t_indice}
    /\ tr = Syscall => b_link[Syscall] = t_indice
    /\ tr \in Users => tr = t_indice

\* The keyboard's interrupt is in service until int_hard_17 acknowledges it, with
\* interrupts disabled; the clock's never while a task runs.
InService ==
    /\ isr \subseteq {Timer, Keyboard}
    /\ IF tr \in Users THEN isr = {} \/ (isr = {Keyboard} /\ Top(tr) = "hard")
       ELSE isr \subseteq {Timer}

SwitchInv == Segments /\ ctx \in [Users -> Stacks] /\ InService

-----------------------------------------------------------------------------
(* Kernel stacks                                                           *)

\* What is on top tells what is below.
LEMMA Below ==
    ASSUME NEW s \in Stacks
    PROVE  /\ s[Len(s)] = "user"  => s = <<"user">>
           /\ s[Len(s)] = "soft"  => s = <<"user", "soft">>
           /\ s[Len(s)] = "hlt"   => s = <<"user", "hlt">>
           /\ s[Len(s)] = "awake" => s = <<"user", "awake">>
           /\ s[Len(s)] = "hard"  => s \in {<<"user", "hard">>, <<"user", "awake", "hard">>}
           /\ s[Len(s)] = "acked" => s \in {<<"user", "acked">>, <<"user", "awake", "acked">>}
           /\ Len(s) <= 3
<1>1. CASE s = <<"user">>
  BY <1>1
<1>2. CASE \E c \in {"soft", "hlt", "awake", "hard", "acked"} : s = <<"user", c>>
  BY <1>2
<1>3. CASE \E c \in {"hard", "acked"} : s = <<"user", "awake", c>>
  BY <1>3
<1> QED
  BY <1>1, <1>2, <1>3 DEF Stacks

\* One frame more, and one less.
LEMMA PushPop ==
    ASSUME NEW A, NEW s \in Seq(A), NEW t \in Seq(A), NEW c \in A,
           Len(t) = Len(s) + 1, t[Len(t)] = c, \A k \in 1 .. Len(s) : t[k] = s[k]
    PROVE  Append(s, c) = t /\ SubSeq(t, 1, Len(s)) = s
<1>2. /\ Append(s, c) \in Seq(A) /\ Len(Append(s, c)) = Len(s) + 1
      /\ \A k \in 1 .. Len(s) : Append(s, c)[k] = s[k]
      /\ Append(s, c)[Len(s) + 1] = c
  BY AppendProperties
<1>3. Append(s, c) = t
  <2>1. \A k \in 1 .. Len(Append(s, c)) : Append(s, c)[k] = t[k]
    BY <1>2
  <2> QED
    BY <1>2, <2>1, SeqEqual
<1>4. SubSeq(t, 1, Len(s)) = s
  <2>1. /\ SubSeq(t, 1, Len(s)) \in Seq(A)
        /\ Len(SubSeq(t, 1, Len(s))) = Len(s)
        /\ \A k \in 1 .. Len(s) : SubSeq(t, 1, Len(s))[k] = s[k]
    BY SubSeqProperties
  <2> QED
    BY <2>1, SeqEqual
<1> QED
  BY <1>3, <1>4

\* An interrupt pushes a frame and iretd removes it: on two frames.
LEMMA Push ==
    ASSUME NEW u, NEW w, NEW c
    PROVE  Append(<<u, w>>, c) = <<u, w, c>> /\ SubSeq(<<u, w, c>>, 1, 2) = <<u, w>>
<1> DEFINE A == {u, w, c}
<1>1. <<u, w>> \in Seq(A) /\ <<u, w, c>> \in Seq(A)
  OBVIOUS
<1>2. Append(<<u, w>>, c) = <<u, w, c>> /\ SubSeq(<<u, w, c>>, 1, 2) = <<u, w>>
  <2> DEFINE s == <<u, w>>
             t == <<u, w, c>>
  <2>1. Len(s) = 2 /\ Len(t) = 3 /\ t[3] = c /\ t[1] = s[1] /\ t[2] = s[2]
    OBVIOUS
  <2> HIDE DEF s, t
  <2>2. s \in Seq(A) /\ t \in Seq(A) /\ c \in A
    BY <1>1 DEF s, t
  <2> HIDE DEF A
  <2>3. Append(s, c) = t /\ SubSeq(t, 1, Len(s)) = s
    <3>1. Len(t) = Len(s) + 1 /\ t[Len(t)] = c
      BY <2>1
    <3>2. \A k \in 1 .. Len(s) : t[k] = s[k]
      <4>1. \A k \in 1 .. 2 : k = 1 \/ k = 2
        OBVIOUS
      <4> QED
        BY <2>1, <4>1
    <3> QED
      BY <2>2, <3>1, <3>2, PushPop
  <2> QED
    BY <2>1, <2>3 DEF s, t
<1> QED
  BY <1>2

\* The same on one or two.
LEMMA Frames ==
    ASSUME NEW u, NEW w, NEW c
    PROVE  /\ Append(<<u>>, c) = <<u, c>>
           /\ Append(<<u, w>>, c) = <<u, w, c>>
           /\ SubSeq(<<u, c>>, 1, 1) = <<u>>
           /\ SubSeq(<<u, w, c>>, 1, 2) = <<u, w>>
<1> DEFINE A == {u, w, c}
<1>1. <<u>> \in Seq(A) /\ <<u, c>> \in Seq(A)
  OBVIOUS
<1>2. Append(<<u>>, c) = <<u, c>> /\ SubSeq(<<u, c>>, 1, 1) = <<u>>
  <2> DEFINE s == <<u>>
             t == <<u, c>>
  <2>1. Len(s) = 1 /\ Len(t) = 2 /\ t[2] = c /\ t[1] = s[1]
    OBVIOUS
  <2> HIDE DEF s, t
  <2>2. s \in Seq(A) /\ t \in Seq(A) /\ c \in A
    BY <1>1 DEF s, t
  <2> HIDE DEF A
  <2>3. Len(t) = Len(s) + 1 /\ t[Len(t)] = c /\ \A k \in 1 .. Len(s) : t[k] = s[k]
    BY <2>1
  <2>4. Append(s, c) = t /\ SubSeq(t, 1, Len(s)) = s
    BY <2>2, <2>3, PushPop
  <2> QED
    BY <2>1, <2>4 DEF s, t
<1> QED
  BY <1>2, Push

\* The frame on top changes.
LEMMA TopFrame ==
    ASSUME NEW u, NEW w, NEW c, NEW d
    PROVE  /\ [<<u, c>> EXCEPT ![2] = d] = <<u, d>>
           /\ [<<u, w, c>> EXCEPT ![3] = d] = <<u, w, d>>
OBVIOUS

\* The same for the stacks that occur.
LEMMA Moves ==
    ASSUME NEW s
    PROVE  /\ s = <<"user">> => Append(s, "soft") \in Stacks /\ Append(s, "hard") \in Stacks
           /\ s = <<"user", "awake">> => Append(s, "hard") \in Stacks
           /\ s = <<"user", "soft">> => [s EXCEPT ![Len(s)] = "hlt"] \in Stacks
           /\ s = <<"user", "hlt">> => [s EXCEPT ![Len(s)] = "awake"] = <<"user", "awake">>
           /\ s \in {<<"user", "hard">>, <<"user", "awake", "hard">>} => [s EXCEPT ![Len(s)] = "acked"] \in Stacks
           /\ s \in {<<"user", "soft">>, <<"user", "awake">>, <<"user", "acked">>, <<"user", "awake", "acked">>}
                 => SubSeq(s, 1, Len(s) - 1) \in Stacks
<1>1. /\ <<"user">> \in Stacks /\ <<"user", "awake", "hard">> \in Stacks /\ <<"user", "awake", "acked">> \in Stacks
      /\ \A c \in {"soft", "hlt", "awake", "hard", "acked"} : <<"user", c>> \in Stacks
  BY DEF Stacks
<1>2. ASSUME s = <<"user">> PROVE Append(s, "soft") \in Stacks /\ Append(s, "hard") \in Stacks
  BY <1>1, <1>2, Frames
<1>3. ASSUME s = <<"user", "awake">> PROVE Append(s, "hard") \in Stacks
  <2>1. Append(<<"user", "awake">>, "hard") = <<"user", "awake", "hard">>
    BY Push
  <2> QED
    BY <1>1, <1>3, <2>1
<1>4. \A c : Len(<<"user", c>>) = 2 /\ Len(<<"user", "awake", c>>) = 3
  OBVIOUS
<1>5. ASSUME s = <<"user", "soft">> PROVE [s EXCEPT ![Len(s)] = "hlt"] \in Stacks
  BY <1>1, <1>4, <1>5, TopFrame
<1>6. ASSUME s = <<"user", "hlt">> PROVE [s EXCEPT ![Len(s)] = "awake"] = <<"user", "awake">>
  BY <1>4, <1>6, TopFrame
<1>7. ASSUME s \in {<<"user", "hard">>, <<"user", "awake", "hard">>} PROVE [s EXCEPT ![Len(s)] = "acked"] \in Stacks
  <2>1. /\ [<<"user", "hard">> EXCEPT ![2] = "acked"] = <<"user", "acked">>
        /\ [<<"user", "awake", "hard">> EXCEPT ![3] = "acked"] = <<"user", "awake", "acked">>
    BY TopFrame
  <2> QED
    BY <1>1, <1>4, <1>7, <2>1
<1>8. ASSUME s \in {<<"user", "soft">>, <<"user", "awake">>, <<"user", "acked">>}
      PROVE  SubSeq(s, 1, Len(s) - 1) \in Stacks
  <2>1. PICK c : s = <<"user", c>>
    BY <1>8
  <2>2. SubSeq(s, 1, Len(s) - 1) = <<"user">>
    <3>1. SubSeq(<<"user", c>>, 1, 1) = <<"user">>
      BY Frames
    <3> QED
      BY <2>1, <1>4, <3>1
  <2> QED
    BY <2>2, <1>1
<1>9. ASSUME s = <<"user", "awake", "acked">> PROVE SubSeq(s, 1, Len(s) - 1) \in Stacks
  <2>1. SubSeq(s, 1, Len(s) - 1) = <<"user", "awake">>
    <3>1. SubSeq(<<"user", "awake", "acked">>, 1, 2) = <<"user", "awake">>
      BY Frames
    <3> QED
      BY <1>9, <1>4, <3>1
  <2> QED
    BY <2>1, <1>1
<1> QED
  BY <1>2, <1>3, <1>5, <1>6, <1>7, <1>8, <1>9

\* The frame that is pushed is on top.
LEMMA PushedTop ==
    ASSUME NEW s \in {<<"user">>, <<"user", "awake">>}, NEW t, t = Append(s, "hard")
    PROVE  t[Len(t)] = "hard"
<1>1. CASE s = <<"user">>
  <2>1. Append(<<"user">>, "hard") = <<"user", "hard">>
    BY Frames
  <2> QED
    BY <1>1, <2>1
<1>2. CASE s = <<"user", "awake">>
  <2>1. Append(<<"user", "awake">>, "hard") = <<"user", "awake", "hard">>
    BY Push
  <2> QED
    BY <1>2, <2>1
<1> QED
  BY <1>1, <1>2

-----------------------------------------------------------------------------
(* The actions, by what they change                                        *)

\* A task that can be interrupted is in its program or in SYS_HLT, which it leaves.
LEMMA Wakes ==
    ASSUME SwitchInv, tr \in Users, IFlag(Top(tr))
    PROVE  \/ ctx[tr] = <<"user">> /\ Woken = ctx
           \/ Woken = [ctx EXCEPT ![tr] = <<"user", "awake">>]
<1> DEFINE s == ctx[tr]
<1>1. ctx \in [Users -> Stacks] /\ s \in Stacks /\ Top(tr) = s[Len(s)]
  BY DEF Top, SwitchInv
<1>2. CASE Top(tr) = "user"
  BY <1>1, <1>2, Below DEF Woken
<1>3. CASE Top(tr) = "hlt"
  BY <1>1, <1>3, Below, Moves DEF Woken, SetTop
<1>4. CASE Top(tr) = "awake"
  <2>1. s = <<"user", "awake">>
    BY <1>1, <1>4, Below
  <2>2. Woken = ctx
    BY <1>4 DEF Woken
  <2> QED
    BY <1>1, <2>1, <2>2
<1> QED
  BY <1>2, <1>3, <1>4 DEF IFlag

\* What a step of a task does to its own kernel stack, and nobody else's.
LEMMA StacksStep ==
    ASSUME SwitchInv, [Next]_vars
    PROVE  ctx' \in [Users -> Stacks]
<1>1. CASE ctx' = ctx
  BY <1>1 DEF SwitchInv
<1>2. ASSUME tr \in Users, NEW s \in Stacks, ctx' = [ctx EXCEPT ![tr] = s]
      PROVE  ctx' \in [Users -> Stacks]
  BY <1>2 DEF SwitchInv
<1> DEFINE s == ctx[tr]
<1>3. CASE Int41
  <2>1. tr \in Users /\ s = <<"user">> /\ ctx' = [ctx EXCEPT ![tr] = Append(s, "soft")]
    BY <1>3, Below DEF Int41, Runs, Top, Pushed, SwitchInv
  <2> QED
    BY <2>1, <1>2, Moves
<1>4. CASE Halt
  <2>1. tr \in Users /\ s = <<"user", "soft">> /\ ctx' = [ctx EXCEPT ![tr] = [s EXCEPT ![Len(s)] = "hlt"]]
    BY <1>4, Below DEF Halt, Runs, Top, SetTop, SwitchInv
  <2> QED
    BY <2>1, <1>2, Moves
<1>5. CASE HardReset
  <2>1. /\ tr \in Users /\ s \in {<<"user", "hard">>, <<"user", "awake", "hard">>}
        /\ ctx' = [ctx EXCEPT ![tr] = [s EXCEPT ![Len(s)] = "acked"]]
    BY <1>5, Below DEF HardReset, Runs, Top, SetTop, SwitchInv
  <2> QED
    BY <2>1, <1>2, Moves
<1>6. CASE Iretd
  <2>1. /\ tr \in Users
        /\ s \in {<<"user", "soft">>, <<"user", "awake">>, <<"user", "acked">>, <<"user", "awake", "acked">>}
        /\ ctx' = [ctx EXCEPT ![tr] = SubSeq(s, 1, Len(s) - 1)]
    BY <1>6, Below DEF Iretd, Runs, Top, Popped, SwitchInv
  <2> QED
    BY <2>1, <1>2, Moves
<1>7. tr \in Users /\ IFlag(Top(tr)) =>
          \/ s = <<"user">> /\ Woken = ctx
          \/ Woken = [ctx EXCEPT ![tr] = <<"user", "awake">>]
  BY Wakes
<1>8. <<"user", "awake">> \in Stacks
  BY DEF Stacks
<1>9. CASE TimerInterrupt
  BY <1>1, <1>2, <1>7, <1>8, <1>9 DEF TimerInterrupt, Accepts
<1>10. CASE KeyboardInterrupt
  <2>1. tr \in Users /\ IFlag(Top(tr)) /\ ctx' = [Woken EXCEPT ![tr] = Append(Woken[tr], "hard")]
    BY <1>10 DEF KeyboardInterrupt, Accepts
  <2>2. CASE s = <<"user">> /\ Woken = ctx
    BY <1>2, <2>1, <2>2, Moves
  <2>3. CASE Woken = [ctx EXCEPT ![tr] = <<"user", "awake">>]
    <3>1. Woken[tr] = <<"user", "awake">> /\ Append(Woken[tr], "hard") \in Stacks
      BY <2>1, <2>3, Moves DEF SwitchInv
    <3>2. ctx' = [ctx EXCEPT ![tr] = Append(Woken[tr], "hard")]
      BY <2>1, <2>3 DEF SwitchInv
    <3> QED
      BY <1>2, <2>1, <3>1, <3>2
  <2> QED
    BY <1>7, <2>1, <2>2, <2>3
<1>11. ctx' = ctx \/ Int41 \/ Halt \/ HardReset \/ Iretd \/ TimerInterrupt \/ KeyboardInterrupt
  BY DEF Next, vars, Scan, Restore, sys_call, sys_control, Int40, Request
<1> QED
  BY <1>1, <1>3, <1>4, <1>5, <1>6, <1>9, <1>10, <1>11

\* A jump or a gate away from task t, and what it leaves busy.
LEMMA Jumps ==
    ASSUME ~stopped, NEW t, t \notin busy
    PROVE  /\ Jump(t) => tr' = t /\ busy' = (busy \ {tr}) \cup {t} /\ ~stopped'
           /\ TaskGate(t) => /\ tr' = t /\ busy' = busy \cup {t} /\ ~stopped'
                             /\ b_link' = [b_link EXCEPT ![t] = tr]
BY DEF Jump, TaskGate

\* The kernel's tasks and the users' are different, and task_control goes round.
LEMMA Numbers ==
    /\ Users \subseteq Tasks /\ Control \in Tasks /\ Syscall \in Tasks /\ Clock \in Tasks
    /\ Control \notin Users /\ Syscall \notin Users /\ Clock \notin Users
    /\ Control # Syscall /\ Control # Clock /\ Syscall # Clock
    /\ \A k \in Tasks : NextIndex(k) \in Tasks
BY SwitchAssumption DEF Users, Tasks, Control, Syscall, Clock, NextIndex

\* Whenever the kernel jumps, the task it jumps to is not busy.
LEMMA SegmentsStep ==
    ASSUME SwitchInv, [Next]_vars
    PROVE  Segments'
<1> USE Numbers
<1>1. Segments
  BY DEF SwitchInv
<1>2. CASE Scan
  <2>1. tr = Control /\ at = "scan" /\ busy = {Control} /\ t_indice' = NextIndex(t_indice) /\ t_indice' \in Tasks
    BY <1>1, <1>2 DEF Scan, Segments
  <2>2. CASE t_indice' \in ready
    <3>1. t_indice' \in Users /\ t_indice' \notin busy
      BY <1>1, <2>1, <2>2 DEF Segments
    <3>2. /\ tss' = t_indice' /\ ~acceso' /\ at' = "restore" /\ Jump(t_indice')
          /\ UNCHANGED <<b_link, ready>>
      BY <1>2, <2>2, <3>1 DEF Scan
    <3>3. tr' = t_indice' /\ busy' = {t_indice'} /\ ~stopped'
      BY <1>1, <2>1, <3>1, <3>2, Jumps DEF Segments
    <3> QED
      BY <1>1, <2>1, <3>1, <3>2, <3>3 DEF Segments
  <2>3. CASE t_indice' \notin ready
    BY <1>1, <1>2, <2>1, <2>3 DEF Scan, Segments
  <2> QED
    BY <2>2, <2>3
<1>3. CASE Restore
  <2>1. tr = Control /\ at = "restore" /\ t_indice \in Users /\ busy' = {Control, t_indice} \ {t_indice}
    BY <1>1, <1>3 DEF Restore, Segments
  <2> QED
    BY <1>1, <1>3, <2>1 DEF Restore, Segments
<1>4. CASE sys_call \/ sys_control
  <2>1. /\ tr \in {Syscall, Clock} /\ at = "restore" /\ t_indice \in Users /\ Jump(Control)
        /\ ready' \subseteq Users /\ UNCHANGED <<b_link, t_indice, tss, acceso, at>>
    BY <1>1, <1>4 DEF sys_call, sys_control, Segments
  <2>2. Control \notin busy
    BY <1>1, <2>1 DEF Segments
  <2>3. tr' = Control /\ busy' = {Control, t_indice} /\ ~stopped'
    BY <1>1, <2>1, <2>2, Jumps DEF Segments
  <2> QED
    BY <1>1, <2>1, <2>3 DEF Segments
<1>5. CASE Int40 \/ TimerInterrupt
  <2>1. PICK t \in {Syscall, Clock} : TaskGate(t)
    BY <1>5 DEF Int40, TimerInterrupt
  <2>2. tr \in Users /\ UNCHANGED <<t_indice, tss, acceso, at, ready>>
    BY <1>5 DEF Int40, TimerInterrupt, Runs, Accepts
  <2>3. tr = t_indice /\ at = "restore" /\ busy = {tr} /\ t \notin busy
    BY <1>1, <2>1, <2>2 DEF Segments
  <2>4. tr' = t /\ busy' = {t, t_indice} /\ ~stopped' /\ b_link' = [b_link EXCEPT ![t] = tr]
    BY <1>1, <2>1, <2>3, Jumps DEF Segments
  <2> QED
    BY <1>1, <2>1, <2>2, <2>3, <2>4 DEF Segments
<1>6. CASE UNCHANGED <<tr, busy, b_link, t_indice, tss, acceso, at, ready, stopped>>
  BY <1>1, <1>6 DEF Segments
<1> QED
  BY <1>2, <1>3, <1>4, <1>5, <1>6 DEF Next, vars, Int41, Halt, HardReset, Iretd, Request, KeyboardInterrupt

\* Interrupts are acknowledged before a program goes on.
LEMMA InServiceStep ==
    ASSUME SwitchInv, [Next]_vars
    PROVE  InService'
<1> USE Numbers DEF Timer, Keyboard
<1>1. Segments /\ InService /\ Segments' /\ ctx \in [Users -> Stacks]
  BY SegmentsStep DEF SwitchInv
<1>2. CASE Scan
  <2>1. isr' \in {isr, Reset} /\ isr \subseteq {Timer} /\ (t_indice' \in ready => isr' = Reset)
    BY <1>1, <1>2 DEF Scan, InService, Segments
  <2>2. Reset = {}
    BY <2>1 DEF Reset
  <2>3. tr' \in Users => isr' = {}
    <3>1. t_indice' \notin ready => tr' = Control
      BY <1>2 DEF Scan
    <3> QED
      BY <2>1, <2>2, <3>1
  <2> QED
    BY <2>1, <2>2, <2>3 DEF InService
<1>3. CASE Restore \/ sys_call \/ sys_control
  <2>1. tr \notin Users /\ isr' = isr
    BY <1>3 DEF Restore, sys_call, sys_control, pic
  <2>2. tr' \notin Users
    <3>1. Restore => tr' = tr
      BY DEF Restore
    <3>2. sys_call \/ sys_control => Jump(Control)
      BY DEF sys_call, sys_control
    <3>3. Jump(Control) => tr' \in {tr, Control}
      BY DEF Jump
    <3> QED
      BY <1>3, <2>1, <3>1, <3>2, <3>3
  <2> QED
    BY <1>1, <2>1, <2>2 DEF InService
<1>4. CASE Int40
  <2>1. tr \in Users /\ Top(tr) = "user" /\ isr' = isr /\ tr' \in {tr, Syscall} /\ ctx' = ctx
    BY <1>4 DEF Int40, Runs, TaskGate, pic
  <2>2. isr = {}
    BY <1>1, <2>1 DEF InService
  <2> QED
    BY <2>1, <2>2 DEF InService
<1>5. CASE Int41 \/ Halt \/ Iretd
  <2>1. tr \in Users /\ Top(tr) # "hard" /\ isr' = isr /\ tr' = tr
    BY <1>5 DEF Int41, Halt, Iretd, Runs, pic
  <2>2. isr = {}
    BY <1>1, <2>1 DEF InService
  <2> QED
    BY <2>1, <2>2 DEF InService
<1>6. CASE HardReset
  <2>1. tr \in Users /\ isr' = Reset /\ tr' = tr
    BY <1>6 DEF HardReset, Runs
  <2>2. Timer \notin isr
    BY <1>1, <2>1 DEF InService
  <2> QED
    BY <2>1, <2>2 DEF InService, Reset
<1>7. CASE TimerInterrupt
  <2>1. tr \in Users /\ Top(tr) # "hard" /\ isr' = isr \cup {Timer} /\ TaskGate(Clock)
    BY <1>7 DEF TimerInterrupt, Accepts, IFlag
  <2>2. isr = {} /\ tr' = Clock
    <3>1. Clock \notin busy /\ ~stopped
      BY <1>1, <2>1 DEF Segments
    <3> QED
      BY <1>1, <2>1, <3>1, Jumps DEF InService
  <2> QED
    BY <2>1, <2>2 DEF InService
<1>8. CASE KeyboardInterrupt
  <2>1. /\ tr \in Users /\ Top(tr) # "hard" /\ isr' = isr \cup {Keyboard} /\ tr' = tr
        /\ ctx' = [Woken EXCEPT ![tr] = Append(Woken[tr], "hard")]
    BY <1>8 DEF KeyboardInterrupt, Accepts, IFlag
  <2>2. isr' = {Keyboard}
    BY <1>1, <2>1 DEF InService
  <2>3. Top(tr)' = "hard"
    <3>1. IFlag(Top(tr))
      BY <1>8 DEF KeyboardInterrupt, Accepts
    <3>2. Woken[tr] \in {<<"user">>, <<"user", "awake">>}
      BY <1>1, <2>1, <3>1, Wakes
    <3>3. ctx'[tr] = Append(Woken[tr], "hard")
      BY <1>1, <2>1 DEF Woken, SetTop
    <3> QED
      BY <2>1, <3>2, <3>3, PushedTop DEF Top
  <2> QED
    BY <2>1, <2>2, <2>3 DEF InService
<1>9. CASE UNCHANGED <<tr, ctx, isr>>
  BY <1>1, <1>9 DEF InService, Top
<1> QED
  BY <1>2, <1>3, <1>4, <1>5, <1>6, <1>7, <1>8, <1>9 DEF Next, vars, Request

-----------------------------------------------------------------------------
(* The invariant and what follows from it                                  *)

\* task_control starts alone.
LEMMA SwitchInit == Init => SwitchInv
<1> SUFFICES ASSUME Init PROVE SwitchInv
  OBVIOUS
<1>1. Segments
  <2>1. tr = Control /\ busy = {Control} /\ at = "scan" /\ ~stopped /\ ~acceso
    BY DEF Init
  <2>2. Control \in Tasks /\ t_indice \in Tasks
    BY SwitchAssumption DEF Init, Tasks, Control
  <2>3. ready \subseteq Users /\ b_link \in [{Syscall, Clock} -> Tasks]
    BY <2>2 DEF Init
  <2> QED
    BY <2>1, <2>2, <2>3, Numbers DEF Segments
<1>2. <<"user">> \in Stacks
  BY DEF Stacks
<1>3. ctx \in [Users -> Stacks]
  BY <1>2 DEF Init
<1>4. InService
  BY Numbers DEF Init, InService
<1> QED
  BY <1>1, <1>3, <1>4 DEF SwitchInv

\* SwitchInv holds in every reachable state.
THEOREM SwitchInvariant == Spec => []SwitchInv
<1>1. SwitchInv /\ [Next]_vars => SwitchInv'
  BY SegmentsStep, StacksStep, InServiceStep DEF SwitchInv
<1> QED
  BY <1>1, SwitchInit, PTL DEF Spec

\* No far jump and no task gate of the kernel meets a busy TSS, however many tasks
\* there are and whatever they do (task_control, sys_call, sys_control).
THEOREM NoFault == Spec => []NeverFaults
<1>1. SwitchInv => NeverFaults
  BY DEF SwitchInv, Segments, NeverFaults
<1> QED
  BY <1>1, SwitchInvariant, PTL

\* sys_call serves the task that issued INT 0x40.
THEOREM CallerServed == Spec => []ServesItsCaller
<1>1. SwitchInv => ServesItsCaller
  BY DEF SwitchInv, Segments, ServesItsCaller
<1> QED
  BY <1>1, SwitchInvariant, PTL

\* A task's kernel stack never holds more than two frames (int_pila).
THEOREM TwoFrames == Spec => []StackBound
<1>1. SwitchInv => StackBound
  BY Below DEF SwitchInv, StackBound
<1> QED
  BY <1>1, SwitchInvariant, PTL

\* Every interrupt is acknowledged before a program goes on (reset_8259).
THEOREM NothingPending == Spec => []Acknowledged
<1>1. SwitchInv => Acknowledged
  BY DEF SwitchInv, InService, Acknowledged
<1> QED
  BY <1>1, SwitchInvariant, PTL

-----------------------------------------------------------------------------
(* The scheduler                                                           *)

\* Every step of the switching is a step of the scheduler or none.
LEMMA SchedulerStep ==
    ASSUME SwitchInv, SwitchInv', [Next]_vars
    PROVE  [S!SNext]_(S!svars)
<1> DEFINE cpu == IF tr \in Users \cup {Syscall} THEN "user" ELSE "control"
<1> USE Numbers
<1>1. CASE Scan
  <2>1. tr = Control /\ cpu = "control" /\ ready' = ready /\ t_indice' = S!After(t_indice)
    <3>1. NextIndex(t_indice) = S!After(t_indice)
      BY SwitchAssumption DEF SwitchInv, Segments, Tasks, NextIndex, S!After
    <3> QED
      BY <1>1, <3>1 DEF Scan
  <2>2. CASE t_indice' \in ready
    <3>1. t_indice' \notin busy /\ ~stopped /\ t_indice' \in Users
      BY <1>1, <2>2 DEF Scan, SwitchInv, Segments
    <3>2. tr' = t_indice'
      BY <1>1, <2>2, <3>1, Jumps DEF Scan
    <3> QED
      BY <2>1, <2>2, <3>1, <3>2 DEF S!SNext, S!Offer
  <2>3. CASE t_indice' \notin ready
    <3>1. tr' = tr
      BY <1>1, <2>3 DEF Scan
    <3> QED
      BY <2>1, <2>3, <3>1 DEF S!SNext, S!Offer
  <2> QED
    BY <2>2, <2>3
<1>2. CASE sys_call
  <2>1. tr = Syscall /\ Control \notin busy /\ ~stopped /\ Jump(Control)
    BY <1>2 DEF sys_call, SwitchInv, Segments
  <2>2. tr' = Control
    BY <2>1, Jumps
  <2> QED
    BY <1>2, <2>1, <2>2 DEF sys_call, S!SNext, S!Call
<1>3. CASE sys_control
  <2>1. tr = Clock /\ Control \notin busy /\ ~stopped /\ Jump(Control)
    BY <1>3 DEF sys_control, SwitchInv, Segments
  <2>2. tr' = Control /\ UNCHANGED <<t_indice, ready>>
    BY <1>3, <2>1, Jumps DEF sys_control
  <2> QED
    BY <2>1, <2>2 DEF S!svars
<1>4. CASE Int40
  <2>1. tr \in Users /\ Syscall \notin busy /\ ~stopped /\ TaskGate(Syscall)
    BY <1>4 DEF Int40, Runs, SwitchInv, Segments
  <2>2. tr' = Syscall /\ UNCHANGED <<t_indice, ready>>
    BY <1>4, <2>1, Jumps DEF Int40
  <2> QED
    BY <2>1, <2>2 DEF S!svars
<1>5. CASE TimerInterrupt
  <2>1. tr \in Users /\ Clock \notin busy /\ ~stopped /\ TaskGate(Clock)
    BY <1>5 DEF TimerInterrupt, Accepts, SwitchInv, Segments
  <2>2. tr' = Clock /\ UNCHANGED <<t_indice, ready>>
    BY <1>5, <2>1, Jumps DEF TimerInterrupt
  <2> QED
    BY <2>1, <2>2 DEF S!SNext, S!Preempt
<1>6. CASE UNCHANGED <<tr, t_indice, ready>>
  BY <1>6 DEF S!svars
<1> QED
  BY <1>1, <1>2, <1>3, <1>4, <1>5, <1>6 DEF Next, vars, Restore, Int41, Halt, HardReset, Iretd, Request, KeyboardInterrupt

\* The switching of task segments implements the scheduler that the device calls
\* of Ipc are written on.
THEOREM SwitchingSchedules == Spec => ImplementsScheduler
<1>1. Init => S!SInit
  BY Numbers DEF Init, S!SInit
<1> QED
  BY <1>1, SchedulerStep, SwitchInvariant, PTL DEF Spec, ImplementsScheduler, S!SSpec
=============================================================================
