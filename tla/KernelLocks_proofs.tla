-------------------------- MODULE KernelLocks_proofs --------------------------
(***************************************************************************)
(* Proofs about KernelLocks, for any interrupt lines, any handlers         *)
(* registered for them, any devices and any nesting of handlers.           *)
(***************************************************************************)
EXTENDS KernelLocks, FiniteSetTheorems, TLAPS

Callees == {"log", "sinks", "init_devices", "attach_runtime", "log_available_devices",
            "print_devices", "draw", "handler"}
Instr == ({"lock", "unlock"} \X Locks) \cup ({"call"} \X Callees)
         \cup ({"need", "stop", "start"} \X {"timer", "serial", "intc"})
         \cup {<<"need", "boot_sink">>, <<"attach", "Runtime">>, <<"enable", "cpu">>, <<"disable", "cpu">>,
               <<"mask", "line">>, <<"unmask", "line">>}
Program == Seq(Instr)

-----------------------------------------------------------------------------
(***************************************************************************)
(* Where a handler context is in dispatch, and what it has masked.         *)
(***************************************************************************)

\* An instruction of the code that dispatch calls, or of the main context.
Plain(i) == i[1] \notin {"enable", "disable", "mask", "unmask"}

\* The program s is what is left of dispatch from some instruction on.
Left(s) == Len(s) <= 12 /\ \A j \in 1 .. Len(s) : s[j] = dispatch[12 - Len(s) + j]

\* Before dispatch enables interrupts, while its handler runs, and after it
\* has disabled them.
Entering(s) == Left(s) /\ Len(s) >= 6
Serving(s) == /\ Len(s) >= 4
              /\ \A j \in 1 .. Len(s) - 4 : Plain(s[j])
              /\ \A j \in Len(s) - 3 .. Len(s) : s[j] = dispatch[12 - Len(s) + j]
Leaving(s) == Left(s) /\ Len(s) <= 3

\* Its line is masked: the mask is done and the unmask is not.
Masking(s) == Serving(s) \/ (Left(s) /\ Len(s) \in 2 .. 7)

TypeOK == /\ stack \in Seq(Program) /\ Len(stack) >= 1
          /\ line \in Seq(Lines \cup {NoLine}) /\ Len(line) = Len(stack)
          /\ line[1] = NoLine /\ \A i \in 2 .. Len(line) : line[i] \in Lines
          /\ held \in SUBSET Locks /\ masked \in SUBSET Lines /\ pending \in SUBSET Lines
          /\ enabled \in BOOLEAN

\* Only code that runs with interrupts enabled is interrupted: the idle loop,
\* and handlers that dispatch has called.
Nesting == /\ \A j \in 1 .. Len(stack[1]) : Plain(stack[1][j])
           /\ Len(stack) > 1 \/ enabled => stack[1] = <<>>
           /\ \A i \in 2 .. Len(stack) - 1 : Serving(stack[i])
           /\ Len(stack) > 1 => \/ enabled /\ Serving(Running)
                                \/ ~ enabled /\ (Entering(Running) \/ Leaving(Running))
           /\ \A i \in 2 .. Len(stack) : Masking(stack[i]) => line[i] \in masked

NInv == TypeOK /\ Nesting /\ NoReentry
-----------------------------------------------------------------------------
(***************************************************************************)
(* The locks.                                                              *)
(***************************************************************************)

\* From instruction i on, the program s unlocks l before it locks it: whoever
\* is at i holds l.
Owed(s, i, l) == \E j \in i .. Len(s) : /\ s[j] = <<"unlock", l>>
                                        /\ \A k \in i .. j - 1 : s[k] # <<"lock", l>>

\* The locks that a function and what it calls take, with the boot sinks and
\* with the runtime sinks.
BootUses == [log |-> {"mode"}, sinks |-> {}, attach_runtime |-> {"mode"},
             init_devices |-> {"mode", "device_manager"}]
Uses == [log |-> {"mode", "device_manager", "serial"},
         sinks |-> {"device_manager", "serial"},
         log_available_devices |-> {"mode", "device_manager", "serial"},
         handler |-> {"mode", "device_manager", "serial", "timer"}]
Takes(m) == IF m = "Boot" THEN BootUses ELSE Uses

\* The logger's mode when the program s, started in mode m, is at i.
Attaches(i) == i = <<"attach", "Runtime">> \/ i = <<"call", "attach_runtime">>
ModeAt(s, i, m) == IF \E j \in 1 .. i - 1 : Attaches(s[j]) THEN "Runtime" ELSE m

\* Whoever calls the function at i holds none of the locks that it takes.
Callable(s, i, U, m) == /\ s[i][2] \in DOMAIN Takes(m) /\ Takes(m)[s[i][2]] \subseteq U
                        /\ \A l \in Takes(m)[s[i][2]] : ~ Owed(s, i + 1, l)

\* A program that locks only locks of U, releases each and calls no function
\* that locks one of them again.
Tidy(s, U, m) == \A i \in 1 .. Len(s) :
  /\ s[i][1] = "lock" => s[i][2] \in U /\ Owed(s, i + 1, s[i][2])
  /\ s[i][1] = "call" => Callable(s, i, U, ModeAt(s, i, m))

\* The mode that a context's program is written for: handlers only run when
\* boot is over.
ModeOf(i) == IF i = 1 THEN mode ELSE "Runtime"

\* Every context is tidy, and a lock that is taken is owed by one of them.
LInv == /\ mode \in {"Boot", "Runtime"}
        /\ \A i \in 1 .. Len(stack) : Tidy(stack[i], Locks, ModeOf(i))
        /\ \A l \in held : \E i \in 1 .. Len(stack) : Owed(stack[i], 1, l)
-----------------------------------------------------------------------------
(***************************************************************************)
(* The programs.                                                           *)
(***************************************************************************)

\* An instruction of its own, and a lock around a program.
LEMMA Instrs ==
  /\ \A l \in Locks : <<"lock", l>> \in Instr /\ <<"unlock", l>> \in Instr
  /\ \A f \in Callees : <<"call", f>> \in Instr
  /\ \A d \in {"timer", "serial", "intc"} :
       <<"need", d>> \in Instr /\ <<"stop", d>> \in Instr /\ <<"start", d>> \in Instr
  /\ <<"need", "boot_sink">> \in Instr
  /\ <<"attach", "Runtime">> \in Instr /\ <<"enable", "cpu">> \in Instr /\ <<"disable", "cpu">> \in Instr
  /\ <<"mask", "line">> \in Instr /\ <<"unmask", "line">> \in Instr
BY DEF Instr

LEMMA LockedFacts ==
  ASSUME NEW l \in Locks, NEW b \in Program
  PROVE  /\ Locked(l, b) \in Program /\ Len(b) \in Nat /\ Len(Locked(l, b)) = Len(b) + 2
         /\ Locked(l, b)[1] = <<"lock", l>> /\ Locked(l, b)[Len(b) + 2] = <<"unlock", l>>
         /\ \A j \in 1 .. Len(b) : Locked(l, b)[j + 1] = b[j]
<1>1. <<"lock", l>> \in Instr /\ <<"unlock", l>> \in Instr
  BY Instrs
<1>2. Locked(l, b) \in Program
  BY <1>1 DEF Locked, Program
<1>3. Len(b) \in Nat /\ Len(Locked(l, b)) = Len(b) + 2
  BY <1>1 DEF Locked, Program
<1>4. Locked(l, b)[1] = <<"lock", l>> /\ Locked(l, b)[Len(b) + 2] = <<"unlock", l>>
  BY <1>1 DEF Locked, Program
<1>5. \A j \in 1 .. Len(b) : Locked(l, b)[j + 1] = b[j]
  BY <1>1 DEF Locked, Program
<1> QED BY <1>2, <1>3, <1>4, <1>5

\* What is left of dispatch.
LEMMA DispatchIs ==
  /\ dispatch \in Program /\ Len(dispatch) = 12
  /\ dispatch[1] = <<"lock", "device_manager">> /\ dispatch[2] = <<"unlock", "device_manager">>
  /\ dispatch[3] = <<"need", "intc">>
  /\ dispatch[4] = <<"lock", "intc">> /\ dispatch[5] = <<"mask", "line">> /\ dispatch[6] = <<"unlock", "intc">>
  /\ dispatch[7] = <<"enable", "cpu">> /\ dispatch[8] = <<"call", "handler">> /\ dispatch[9] = <<"disable", "cpu">>
  /\ dispatch[10] = <<"lock", "intc">> /\ dispatch[11] = <<"unmask", "line">> /\ dispatch[12] = <<"unlock", "intc">>
<1> USE DEF dispatch, Lookup, Locked, Call
<1>1. /\ <<"lock", "device_manager">> \in Instr /\ <<"unlock", "device_manager">> \in Instr
      /\ <<"lock", "intc">> \in Instr /\ <<"unlock", "intc">> \in Instr
  BY Instrs DEF Locks
<1>2. /\ <<"need", "intc">> \in Instr /\ <<"enable", "cpu">> \in Instr /\ <<"disable", "cpu">> \in Instr
      /\ <<"mask", "line">> \in Instr /\ <<"unmask", "line">> \in Instr /\ <<"call", "handler">> \in Instr
  BY Instrs DEF Callees
<1>3. dispatch \in Program
  BY <1>1, <1>2 DEF Program
<1>4. Len(dispatch) = 12
  OBVIOUS
<1>5. /\ dispatch[1] = <<"lock", "device_manager">> /\ dispatch[2] = <<"unlock", "device_manager">>
      /\ dispatch[3] = <<"need", "intc">>
      /\ dispatch[4] = <<"lock", "intc">> /\ dispatch[5] = <<"mask", "line">> /\ dispatch[6] = <<"unlock", "intc">>
  OBVIOUS
<1>6. /\ dispatch[7] = <<"enable", "cpu">> /\ dispatch[8] = <<"call", "handler">> /\ dispatch[9] = <<"disable", "cpu">>
      /\ dispatch[10] = <<"lock", "intc">> /\ dispatch[11] = <<"unmask", "line">> /\ dispatch[12] = <<"unlock", "intc">>
  OBVIOUS
<1> QED BY <1>3, <1>4, <1>5, <1>6

LEMMA Empty == <<>> \in Program /\ Len(<<>>) = 0
BY DEF Program

\* What the kernel calls is made of instructions that leave the interrupt flag
\* and the lines alone.
LEMMA BodyTyped ==
  ASSUME NEW f \in Callees
  PROVE  Body[f] \in Program /\ \A j \in 1 .. Len(Body[f]) : Plain(Body[f][j])
<1> DEFINE Good(b) == b \in Program /\ \A j \in 1 .. Len(b) : Plain(b[j])
<1>1. \A i \in Instr : Plain(i) => Good(<<i>>)
  BY DEF Program
<1>2. ASSUME NEW s, NEW t, Good(s), Good(t) PROVE Good(s \o t)
  BY <1>2 DEF Program
<1>3. ASSUME NEW l \in Locks, NEW b, Good(b) PROVE Good(Locked(l, b))
  <2>1. Good(<<<<"lock", l>>>>) /\ Good(<<<<"unlock", l>>>>)
    BY <1>1, Instrs DEF Plain
  <2> HIDE DEF Good
  <2>2. Good(<<<<"lock", l>>>> \o b)
    BY <2>1, <1>2, <1>3
  <2> QED BY <2>1, <2>2, <1>2 DEF Locked
<1>4. ASSUME NEW g \in Callees PROVE Good(Call(g))
  BY <1>1, Instrs DEF Call, Plain
<1>5. Good(<<>>)
  BY Empty
<1> HIDE DEF Good
<1>6. Good(log)
  <2>1. "sinks" \in Callees /\ "mode" \in Locks
    BY DEF Callees, Locks
  <2> QED BY <2>1, <1>3, <1>4 DEF log
<1>7. Good(Lookup)
  BY <1>3, <1>5 DEF Lookup, Locks
<1>8. Good(sinks)
  <2>1. Good(Locked("serial", <<>>))
    BY <1>3, <1>5 DEF Locks
  <2>2. Good(SerialLogSink_write_str)
    BY <2>1, <1>2, <1>5, <1>7 DEF SerialLogSink_write_str
  <2>3. Good(<<<<"need", "boot_sink">>>>)
    BY <1>1, Instrs DEF Plain
  <2> QED BY <2>2, <2>3 DEF sinks
<1>9. Good(init_devices) /\ Good(print_devices) /\ Good(log_available_devices)
  <2>1. "log" \in Callees /\ "device_manager" \in Locks
    BY DEF Callees, Locks
  <2>2. Good(Call("log"))
    BY <2>1, <1>4
  <2> QED BY <2>1, <2>2, <1>2, <1>3, <1>7 DEF init_devices, print_devices, log_available_devices
<1>10. Good(attach_runtime)
  <2>1. Good(<<<<"attach", "Runtime">>>>) /\ "mode" \in Locks
    BY <1>1, Instrs DEF Plain, Locks
  <2> QED BY <2>1, <1>3 DEF attach_runtime
<1>11. Good(draw)
  <2>1. "fb" \in Locks /\ "device_manager" \in Locks
    BY DEF Locks
  <2>2. Good(Locked("fb", <<>>))
    BY <2>1, <1>3, <1>5
  <2>3. Good(IF "fb" \in present THEN Locked("fb", <<>>) ELSE <<>>)
    BY <2>2, <1>5
  <2> QED BY <2>1, <2>3, <1>3 DEF draw
<1>12. Good(timer)
  <2>1. "timer" \in Locks /\ "serial" \in Locks
    BY DEF Locks
  <2>2. /\ Good(<<<<"need", "timer">>>>) /\ Good(<<<<"need", "serial">>>>)
        /\ Good(<<<<"stop", "timer">>>>) /\ Good(<<<<"start", "timer">>>>)
    BY <1>1, Instrs DEF Plain
  <2>3. /\ Good(Locked("timer", <<<<"stop", "timer">>>>)) /\ Good(Locked("serial", <<>>))
        /\ Good(Locked("timer", <<<<"start", "timer">>>>))
    BY <2>1, <2>2, <1>3, <1>5
  <2> QED BY <2>2, <2>3, <1>2, <1>7, Zenon DEF timer
<1>13. Good(handler)
  <2>1. Good(Call("log"))
    BY <1>4 DEF Callees
  <2> QED BY <2>1, <1>5, <1>12 DEF handler
<1>14. Good(Body[f])
  BY <1>6, <1>8, <1>9, <1>10, <1>11, <1>13 DEF Callees, Body
<1> QED BY <1>14 DEF Good
-----------------------------------------------------------------------------
(***************************************************************************)
(* The handler of a line is not entered again while it runs.               *)
(***************************************************************************)

\* The running context after one instruction.
LEMMA ContinueFacts ==
  ASSUME TypeOK, NEW b \in Program, Running # <<>>, Continue(b)
  PROVE  LET n == Len(stack)
             s == stack[n]
             r == stack'[n]
         IN  /\ n \in Nat /\ n >= 1 /\ s \in Program /\ Len(s) \in Nat /\ Len(s) >= 1 /\ Running = s /\ s[1] \in Instr
             /\ stack' \in Seq(Program) /\ Len(stack') = n /\ \A i \in 1 .. n - 1 : stack'[i] = stack[i]
             /\ r \in Program /\ Len(b) \in Nat /\ Len(r) = Len(b) + Len(s) - 1
             /\ \A j \in 1 .. Len(b) : r[j] = b[j]
             /\ \A j \in 2 .. Len(s) : r[Len(b) + j - 1] = s[j]
             /\ \A j \in Len(b) + 1 .. Len(r) : r[j] = s[j - Len(b) + 1] /\ j - Len(b) + 1 \in 2 .. Len(s)
<1> DEFINE n == Len(stack)
           s == stack[n]
           r == b \o Tail(s)
<1>1. n \in Nat /\ n >= 1 /\ s \in Program /\ Running = s
  BY DEF TypeOK, Running
<1>2. Len(s) \in Nat /\ Len(s) >= 1 /\ s[1] \in Instr /\ Len(b) \in Nat
  BY <1>1 DEF Program
<1>3. /\ r \in Program /\ Len(r) = Len(b) + Len(s) - 1
      /\ \A j \in 1 .. Len(b) : r[j] = b[j]
      /\ \A j \in 2 .. Len(s) : r[Len(b) + j - 1] = s[j]
      /\ \A j \in Len(b) + 1 .. Len(r) : r[j] = s[j - Len(b) + 1]
  <2> HIDE DEF s
  <2>1. s \in Seq(Instr) /\ b \in Seq(Instr) /\ s # <<>>
    BY <1>1 DEF Program
  <2>2. Tail(s) \in Seq(Instr) /\ Len(Tail(s)) = Len(s) - 1 /\ \A j \in 1 .. Len(s) - 1 : Tail(s)[j] = s[j + 1]
    BY <2>1
  <2> DEFINE u == Tail(s)
  <2> HIDE DEF u
  <2>3. /\ b \o u \in Seq(Instr) /\ Len(b \o u) = Len(b) + Len(u)
        /\ \A j \in 1 .. Len(b) : (b \o u)[j] = b[j]
        /\ \A j \in Len(b) + 1 .. Len(b) + Len(u) : (b \o u)[j] = u[j - Len(b)]
    BY <2>1, <2>2 DEF u
  <2>4. r = b \o u
    BY DEF u
  <2> HIDE DEF r
  <2>5. \A j \in Len(b) + 1 .. Len(r) : r[j] = s[j - Len(b) + 1]
    BY <2>2, <2>3, <2>4, <1>2 DEF u
  <2>6. \A j \in 2 .. Len(s) : r[Len(b) + j - 1] = s[j]
    <3> TAKE j \in 2 .. Len(s)
    <3>1. Len(b) + j - 1 \in Len(b) + 1 .. Len(r) /\ (Len(b) + j - 1) - Len(b) + 1 = j
      BY <2>2, <2>3, <2>4, <1>2 DEF u
    <3> QED BY <3>1, <2>5
  <2> QED BY <2>2, <2>3, <2>4, <2>5, <2>6, <1>2 DEF u, Program
<1>4. stack' = [stack EXCEPT ![n] = r] /\ stack \in Seq(Program)
  BY DEF Continue, TypeOK
<1> HIDE DEF r, s
<1>5. /\ stack' \in Seq(Program) /\ Len(stack') = n /\ stack'[n] = r
      /\ \A i \in 1 .. n - 1 : stack'[i] = stack[i]
  BY <1>1, <1>3, <1>4
<1>6. \A j \in Len(b) + 1 .. Len(r) : j - Len(b) + 1 \in 2 .. Len(s)
  BY <1>2, <1>3
<1> QED BY <1>1, <1>2, <1>3, <1>5, <1>6 DEF s

\* The instructions of dispatch by what is left of it.
LEMMA LeftFacts ==
  ASSUME NEW s, Len(s) \in Nat, Len(s) >= 1, Left(s)
  PROVE  /\ s[1] = dispatch[13 - Len(s)] /\ 13 - Len(s) \in 1 .. 12
         /\ s[1][1] = "enable" <=> Len(s) = 6
         /\ s[1][1] = "disable" <=> Len(s) = 4
         /\ s[1][1] = "mask" <=> Len(s) = 8
         /\ s[1][1] = "unmask" <=> Len(s) = 2
         /\ s[1][1] = "call" <=> Len(s) = 5
         /\ s[1][1] # "attach"
         /\ Len(s) >= 6 => ~ Serving(s)
<1> DEFINE n == Len(s)
<1>1. n \in 1 .. 12 /\ s[1] = dispatch[13 - n] /\ 13 - n \in 1 .. 12
  <2>1. n \in 1 .. 12 /\ s[1] = dispatch[12 - n + 1]
    <3>1. n <= 12 /\ n \in Nat /\ n >= 1 /\ \A j \in 1 .. n : s[j] = dispatch[12 - n + j]
      BY DEF Left
    <3> HIDE DEF n
    <3>2. 1 \in 1 .. n
      BY <3>1
    <3>3. s[1] = dispatch[12 - n + 1]
      BY <3>1, <3>2
    <3> QED BY <3>1, <3>3
  <2> HIDE DEF n
  <2>2. 12 - n + 1 = 13 - n /\ 13 - n \in 1 .. 12
    BY <2>1
  <2> QED BY <2>1, <2>2
<1>2. ASSUME Len(s) >= 6, Serving(s) PROVE FALSE
  <2>1. Len(s) - 5 \in 1 .. Len(s) /\ Len(s) - 5 \in 1 .. Len(s) - 4
    BY <1>1, <1>2
  <2>2. s[Len(s) - 5] = dispatch[12 - Len(s) + (Len(s) - 5)]
    BY <2>1 DEF Left
  <2>3. 12 - Len(s) + (Len(s) - 5) = 7
    BY <1>1
  <2>4. s[Len(s) - 5][1] = "enable"
    BY <2>2, <2>3, DispatchIs
  <2> QED BY <2>1, <2>4, <1>2 DEF Serving, Plain
<1>3. ASSUME NEW k \in 1 .. 12
      PROVE  /\ dispatch[k][1] = "enable" <=> k = 7
             /\ dispatch[k][1] = "disable" <=> k = 9
             /\ dispatch[k][1] = "mask" <=> k = 5
             /\ dispatch[k][1] = "unmask" <=> k = 11
             /\ dispatch[k][1] = "call" <=> k = 8
             /\ dispatch[k][1] # "attach"
  <2>1. k = 1 \/ k = 2 \/ k = 3 \/ k = 4 \/ k = 5 \/ k = 6 \/ k = 7 \/ k = 8 \/ k = 9 \/ k = 10 \/ k = 11 \/ k = 12
    OBVIOUS
  <2> QED BY <2>1, DispatchIs
<1> HIDE DEF n
<1> DEFINE k == 13 - n
<1>4. k \in 1 .. 12 /\ s[1] = dispatch[k] /\ n = 13 - k /\ n \in 1 .. 12
  BY <1>1
<1> HIDE DEF k
<1>5. /\ s[1][1] = "enable" <=> n = 6
      /\ s[1][1] = "disable" <=> n = 4
      /\ s[1][1] = "mask" <=> n = 8
      /\ s[1][1] = "unmask" <=> n = 2
      /\ s[1][1] = "call" <=> n = 5
      /\ s[1][1] # "attach"
  BY <1>3, <1>4
<1> QED BY <1>1, <1>2, <1>5 DEF n

\* A program in which the handler runs starts with an instruction of the
\* handler, or is at the end of it.
LEMMA ServingFacts ==
  ASSUME NEW s, Len(s) \in Nat, Serving(s)
  PROVE  /\ Len(s) >= 5 => Plain(s[1])
         /\ Len(s) = 4 => s[1] = <<"disable", "cpu">> /\ Left(s)
<1>1. ASSUME Len(s) = 4 PROVE s[1] = <<"disable", "cpu">> /\ Left(s)
  <2>1. \A j \in 1 .. 4 : s[j] = dispatch[8 + j]
    BY <1>1 DEF Serving
  <2> QED BY <2>1, <1>1, DispatchIs DEF Left
<1> QED BY <1>1 DEF Serving

\* One instruction less of dispatch.
LEMMA LeftNext ==
  ASSUME NEW s, NEW r, Len(s) \in Nat, Len(s) >= 1, Left(s), Len(r) = Len(s) - 1,
         \A j \in 2 .. Len(s) : r[j - 1] = s[j]
  PROVE  Left(r)
<1> SUFFICES ASSUME NEW j \in 1 .. Len(r) PROVE r[j] = dispatch[12 - Len(r) + j]
  BY DEF Left
<1>1. j + 1 \in 2 .. Len(s) /\ (j + 1) - 1 = j /\ 12 - Len(s) + (j + 1) = 12 - Len(r) + j
  OBVIOUS
<1>2. r[j] = s[j + 1]
  BY <1>1
<1> QED BY <1>1, <1>2 DEF Left

\* Two programs of a handler.
LEMMA ServingNext ==
  ASSUME NEW s \in Program, NEW b \in Program, NEW r \in Program, Len(s) >= 5, Serving(s),
         \A j \in 1 .. Len(b) : Plain(b[j]),
         Len(r) = Len(b) + Len(s) - 1,
         \A j \in 1 .. Len(b) : r[j] = b[j],
         \A j \in Len(b) + 1 .. Len(r) : r[j] = s[j - Len(b) + 1] /\ j - Len(b) + 1 \in 2 .. Len(s)
  PROVE  Serving(r)
<1> DEFINE m == Len(b)
           n == Len(s)
           k == Len(r)
<1>1. m \in Nat /\ n \in Nat /\ n >= 5 /\ k = m + n - 1 /\ k \in Nat
  BY DEF Program
<1> HIDE DEF m, n, k
<1>2. ASSUME NEW j \in 1 .. k - 4 PROVE Plain(r[j])
  <2>1. CASE j <= m
    BY <2>1, <1>1 DEF m
  <2>2. CASE j > m
    <3>1. j \in m + 1 .. k /\ j - m + 1 \in 1 .. n - 4
      BY <2>2, <1>1
    <3> QED BY <3>1 DEF m, n, k, Serving
  <2> QED BY <2>1, <2>2, <1>1
<1>3. ASSUME NEW j \in k - 3 .. k PROVE r[j] = dispatch[12 - k + j]
  <2>1. j \in m + 1 .. k /\ j - m + 1 \in n - 3 .. n /\ 12 - n + (j - m + 1) = 12 - k + j
    BY <1>1
  <2>2. r[j] = s[j - m + 1]
    BY <2>1 DEF m, k
  <2>3. s[j - m + 1] = dispatch[12 - n + (j - m + 1)]
    BY <2>1 DEF n, Serving
  <2> QED BY <2>1, <2>2, <2>3
<1>4. k >= 4
  BY <1>1
<1> QED BY <1>2, <1>3, <1>4 DEF k, Serving

\* One handler context is another one's program, and the others stay.
LEMMA NestStep ==
  ASSUME NInv, Len(stack) > 1, stack' \in Seq(Program), Len(stack') = Len(stack), line' = line,
         held' \in SUBSET Locks, pending' \in SUBSET Lines, masked' \in SUBSET Lines, enabled' \in BOOLEAN,
         \A i \in 1 .. Len(stack) - 1 : stack'[i] = stack[i],
         LET r == stack'[Len(stack)]
         IN  /\ \/ enabled' /\ Serving(r)
                \/ ~ enabled' /\ (Entering(r) \/ Leaving(r))
             /\ Masking(r) => line[Len(stack)] \in masked',
         \A l \in masked : l \in masked' \/ l = line[Len(stack)]
  PROVE  NInv'
<1> DEFINE n == Len(stack)
<1>1. TypeOK /\ Nesting /\ NoReentry /\ n \in Nat /\ n > 1 /\ Len(line) = n
  BY DEF NInv, TypeOK
<1>2. TypeOK'
  BY <1>1 DEF TypeOK
<1>3. Running' = stack'[n]
  BY DEF Running
<1>4. stack'[1] = stack[1] /\ stack[1] = <<>>
  BY <1>1 DEF Nesting
<1>5. \A i \in 2 .. n - 1 : stack'[i] = stack[i] /\ Serving(stack[i]) /\ line[i] \in masked /\ line[i] # line[n]
  BY <1>1 DEF Nesting, Masking, NoReentry
<1>6. \A i \in 2 .. n : Masking(stack'[i]) => line[i] \in masked'
  <2> TAKE i \in 2 .. n
  <2>1. CASE i = n
    BY <2>1
  <2>2. CASE i # n
    <3>1. i \in 2 .. n - 1
      BY <2>2, <1>1
    <3> QED BY <3>1, <1>5
  <2> QED BY <2>1, <2>2
<1>7. Nesting'
  <2>1. \A i \in 2 .. n - 1 : Serving(stack'[i])
    BY <1>5
  <2>2. \A j \in 1 .. Len(stack'[1]) : Plain(stack'[1][j])
    BY <1>4, <1>1 DEF Nesting
  <2> QED BY <2>1, <2>2, <1>3, <1>4, <1>6 DEF Nesting
<1>8. NoReentry'
  BY <1>1 DEF NoReentry
<1> QED BY <1>2, <1>7, <1>8 DEF NInv

\* An instruction that leaves interrupts alone.
LEMMA PlainStep ==
  ASSUME NInv, Running # <<>>, Plain(Running[1]), NEW b \in Program, Continue(b),
         \A j \in 1 .. Len(b) : Plain(b[j]), b = <<>> \/ Running[1][1] = "call",
         UNCHANGED <<line, enabled, masked>>, held' \in SUBSET Locks, pending' \in SUBSET Lines
  PROVE  NInv'
<1> DEFINE n == Len(stack)
           s == stack[n]
           r == stack'[n]
<1>0. TypeOK /\ Nesting /\ NoReentry
  BY DEF NInv
<1>1. /\ n \in Nat /\ n >= 1 /\ s \in Program /\ Len(s) \in Nat /\ Len(s) >= 1 /\ Running = s
      /\ stack' \in Seq(Program) /\ Len(stack') = n /\ \A i \in 1 .. n - 1 : stack'[i] = stack[i]
      /\ r \in Program /\ Len(b) \in Nat /\ Len(r) = Len(b) + Len(s) - 1
  BY <1>0, ContinueFacts
<1>2. /\ \A j \in 1 .. Len(b) : r[j] = b[j]
      /\ \A j \in 2 .. Len(s) : r[Len(b) + j - 1] = s[j]
      /\ \A j \in Len(b) + 1 .. Len(r) : r[j] = s[j - Len(b) + 1] /\ j - Len(b) + 1 \in 2 .. Len(s)
  BY <1>0, ContinueFacts
<1>3. masked \in SUBSET Lines /\ enabled \in BOOLEAN
  BY <1>0 DEF TypeOK
<1> HIDE DEF n, s, r
<1>4. CASE n = 1
  <2>1. \A j \in 1 .. Len(s) : Plain(s[j])
    BY <1>0, <1>4 DEF Nesting, n, s
  <2>2. \A j \in 1 .. Len(r) : Plain(r[j])
    <3> TAKE j \in 1 .. Len(r)
    <3>1. CASE j <= Len(b)
      BY <3>1, <1>1, <1>2
    <3>2. CASE j > Len(b)
      <4>1. r[j] = s[j - Len(b) + 1] /\ j - Len(b) + 1 \in 1 .. Len(s)
        BY <3>2, <1>1, <1>2
      <4> QED BY <4>1, <2>1
    <3> QED BY <3>1, <3>2, <1>1
  <2>3. ~ enabled
    BY <1>0, <1>1, <1>4 DEF Nesting, n, s
  <2>4. TypeOK'
    BY <1>0, <1>1 DEF TypeOK, n
  <2>5. Nesting'
    <3>1. \A i : i \notin 2 .. 1 /\ i \notin 2 .. 0
      OBVIOUS
    <3> QED BY <2>2, <2>3, <3>1, <1>1, <1>4 DEF Nesting, n, r
  <2>6. NoReentry'
    BY <1>0 DEF NoReentry
  <2> QED BY <2>4, <2>5, <2>6 DEF NInv
<1>5. CASE n > 1
  <2>1. Masking(s) => line[n] \in masked
    BY <1>0, <1>1, <1>5 DEF Nesting, n, s
  <2>2. \/ enabled /\ Serving(s)
        \/ ~ enabled /\ (Entering(s) \/ Leaving(s))
    BY <1>0, <1>1, <1>5 DEF Nesting, n
  <2>3. CASE Serving(s)
    <3>1. Len(s) >= 5
      <4>1. Len(s) >= 4
        BY <2>3 DEF Serving
      <4>2. Len(s) = 4 => s[1] = <<"disable", "cpu">>
        BY <2>3, <1>1, ServingFacts
      <4>3. Len(s) # 4
        BY <4>2, <1>1 DEF Plain
      <4>4. Len(s) \in Nat
        BY <1>1
      <4> DEFINE k == Len(s)
      <4>5. k \in Nat /\ k >= 4 /\ k # 4
        BY <4>1, <4>3, <4>4
      <4> HIDE DEF k
      <4>6. k >= 5
        BY <4>5
      <4> QED BY <4>6 DEF k
    <3>2. Serving(r)
      BY <2>3, <3>1, <1>1, <1>2, ServingNext
    <3>3. enabled
      <4>1. ASSUME Left(s) PROVE Len(s) < 6
        BY <2>3, <4>1, <1>1, LeftFacts
      <4> QED BY <2>2, <3>1, <4>1, <1>1 DEF Entering, Leaving
    <3> QED BY <2>1, <2>3, <3>2, <3>3, <1>0, <1>1, <1>3, <1>5, NestStep DEF Masking, n, r
  <2>4. CASE ~ Serving(s)
    <3>1. Left(s) /\ ~ enabled /\ (Len(s) >= 6 \/ Len(s) <= 3)
      BY <2>2, <2>4 DEF Entering, Leaving
    <3>2. b = <<>> /\ Len(b) = 0 /\ Len(s) # 6 /\ Len(s) # 8 /\ Len(s) # 2
      <4>1. s[1][1] = "call" <=> Len(s) = 5
        BY <3>1, <1>1, LeftFacts
      <4>2. /\ s[1][1] = "enable" <=> Len(s) = 6
            /\ s[1][1] = "mask" <=> Len(s) = 8
            /\ s[1][1] = "unmask" <=> Len(s) = 2
        BY <3>1, <1>1, LeftFacts
      <4>3. Plain(s[1]) /\ (b = <<>> \/ s[1][1] = "call")
        BY <1>1
      <4>4. Len(s) # 6 /\ Len(s) # 8 /\ Len(s) # 2
        BY <4>2, <4>3 DEF Plain
      <4>5. b = <<>>
        <5>1. Len(s) \in Nat
          BY <1>1
        <5>2. Len(s) # 5
          <6> DEFINE k == Len(s)
          <6>1. k \in Nat /\ (k >= 6 \/ k <= 3)
            BY <5>1, <3>1
          <6> HIDE DEF k
          <6>2. k # 5
            BY <6>1
          <6> QED BY <6>2 DEF k
        <5> QED BY <5>2, <4>1, <4>3
      <4> QED BY <4>4, <4>5, Empty
    <3>3. Len(r) = Len(s) - 1 /\ \A j \in 2 .. Len(s) : r[j - 1] = s[j]
      <4>1. \A j \in 2 .. Len(s) : Len(b) + j - 1 = j - 1
        BY <3>2, <1>1
      <4> QED BY <3>2, <4>1, <1>1, <1>2
    <3>4. Left(r)
      BY <3>1, <3>3, <1>1, LeftNext
    <3>5. Entering(r) \/ Leaving(r)
      BY <3>1, <3>2, <3>3, <3>4, <1>1 DEF Entering, Leaving
    <3>6. Masking(r) => line[n] \in masked
      <4>1. ASSUME Serving(r) PROVE FALSE
        <5>1. Len(r) \in Nat /\ Len(r) >= 4
          BY <4>1, <1>1, <3>3 DEF Serving
        <5>2. Len(r) >= 6
          BY <5>1, <3>1, <3>2, <3>3, <1>1
        <5> QED BY <4>1, <5>1, <5>2, <3>4, LeftFacts
      <4>2. ASSUME Len(r) \in 2 .. 7 PROVE Masking(s)
        <5> DEFINE k == Len(s)
                   h == Len(r)
        <5>1. k \in Nat /\ h = k - 1 /\ k # 8 /\ h \in 2 .. 7
          BY <4>2, <3>2, <3>3, <1>1
        <5> HIDE DEF k, h
        <5>2. k \in 2 .. 7
          BY <5>1
        <5> QED BY <5>2, <3>1 DEF Masking, k
      <4> QED BY <4>1, <4>2, <2>1 DEF Masking
    <3> QED BY <3>1, <3>5, <3>6, <1>0, <1>1, <1>3, <1>5, NestStep DEF n, r
  <2> QED BY <2>3, <2>4
<1> QED BY <1>1, <1>4, <1>5
\* What the steps of a handler context have in common.
LEMMA HandlerStep ==
  ASSUME NInv, Running # <<>>, Continue(<<>>), ~ Plain(Running[1])
  PROVE  LET n == Len(stack)
             s == stack[n]
             r == stack'[n]
         IN  /\ n \in Nat /\ n > 1 /\ Running = s /\ s \in Program /\ r \in Program /\ Len(s) \in Nat
             /\ stack' \in Seq(Program) /\ Len(stack') = n /\ \A i \in 1 .. n - 1 : stack'[i] = stack[i]
             /\ Left(s) /\ Left(r) /\ Len(r) \in Nat /\ Len(s) \in {2, 4, 6, 8} /\ Len(r) = Len(s) - 1
             /\ \A j \in 2 .. Len(s) : r[j - 1] = s[j]
             /\ enabled <=> Len(s) = 4
             /\ Masking(s) => line[n] \in masked
<1> DEFINE n == Len(stack)
           s == stack[n]
           r == stack'[n]
           k == Len(s)
<1>0. TypeOK /\ Nesting /\ NoReentry
  BY DEF NInv
<1>1. /\ n \in Nat /\ n >= 1 /\ s \in Program /\ k \in Nat /\ k >= 1 /\ Running = s
      /\ stack' \in Seq(Program) /\ Len(stack') = n /\ \A i \in 1 .. n - 1 : stack'[i] = stack[i]
      /\ r \in Program
  BY <1>0, Empty, ContinueFacts
<1>2. Len(r) = 0 + k - 1 /\ \A j \in 2 .. k : r[0 + j - 1] = s[j]
  BY <1>0, Empty, ContinueFacts
<1> HIDE DEF n, s, r, k
<1>3. Len(r) = k - 1 /\ Len(r) \in Nat /\ \A j \in 2 .. k : r[j - 1] = s[j]
  <2>1. \A j \in 2 .. k : 0 + j - 1 = j - 1
    BY <1>1
  <2>2. 0 + k - 1 = k - 1 /\ k - 1 \in Nat
    BY <1>1
  <2> QED BY <2>1, <2>2, <1>2
<1>4. n # 1
  <2> SUFFICES ASSUME n = 1 PROVE FALSE
    OBVIOUS
  <2>1. \A j \in 1 .. k : Plain(s[j])
    BY <1>0 DEF Nesting, n, s, k
  <2>2. 1 \in 1 .. k
    BY <1>1
  <2>3. Plain(s[1])
    BY <2>1, <2>2
  <2> QED BY <2>3, <1>1
<1>5. n > 1
  BY <1>1, <1>4
<1>6. Masking(s) => line[n] \in masked
  BY <1>0, <1>1, <1>5 DEF Nesting, n, s
<1>7. \/ enabled /\ Serving(s)
      \/ ~ enabled /\ (Entering(s) \/ Leaving(s))
  BY <1>0, <1>1, <1>5 DEF Nesting, n
<1>8. ASSUME Serving(s) PROVE k = 4 /\ Left(s)
  <2>1. k >= 4 /\ (k >= 5 => Plain(s[1])) /\ (k = 4 => Left(s))
    BY <1>8, <1>1, ServingFacts DEF Serving, k
  <2>2. ~ Plain(s[1])
    BY <1>1
  <2>3. k = 4
    BY <2>1, <2>2, <1>1
  <2> QED BY <2>1, <2>3
<1>9. Left(s)
  BY <1>7, <1>8 DEF Entering, Leaving
<1>10. k \in {2, 4, 6, 8}
  <2>1. /\ s[1][1] = "enable" <=> k = 6
        /\ s[1][1] = "disable" <=> k = 4
        /\ s[1][1] = "mask" <=> k = 8
        /\ s[1][1] = "unmask" <=> k = 2
    BY <1>9, <1>1, LeftFacts DEF k
  <2>2. s[1][1] \in {"enable", "disable", "mask", "unmask"}
    BY <1>1 DEF Plain
  <2> QED BY <2>1, <2>2
<1>11. Left(r)
  BY <1>1, <1>3, <1>9, LeftNext DEF k
<1>12. enabled <=> k = 4
  <2>1. ASSUME Entering(s) PROVE k # 4
    <3>1. k >= 6
      BY <2>1 DEF Entering, k
    <3> QED BY <3>1, <1>1
  <2>2. ASSUME Leaving(s) PROVE k # 4
    <3>1. k <= 3
      BY <2>2 DEF Leaving, k
    <3> QED BY <3>1, <1>1
  <2> QED BY <2>1, <2>2, <1>7, <1>8
<1> QED BY <1>1, <1>3, <1>5, <1>6, <1>9, <1>10, <1>11, <1>12 DEF n, s, r, k

\* dispatch enables interrupts around the handler, with its line masked.
LEMMA FlagStep ==
  ASSUME NInv, interrupt_flag
  PROVE  NInv'
<1> DEFINE n == Len(stack)
           s == stack[n]
           r == stack'[n]
           k == Len(s)
<1>0. TypeOK /\ Running # <<>> /\ Continue(<<>>) /\ ~ Plain(Running[1])
  BY DEF NInv, interrupt_flag, At, Plain
<1>1. /\ n \in Nat /\ n > 1 /\ Running = s /\ s \in Program /\ r \in Program /\ k \in Nat
      /\ stack' \in Seq(Program) /\ Len(stack') = n /\ \A i \in 1 .. n - 1 : stack'[i] = stack[i]
  BY <1>0, HandlerStep
<1>2. /\ Left(s) /\ Left(r) /\ k \in {2, 4, 6, 8} /\ Len(r) = k - 1 /\ Len(r) \in Nat
      /\ (enabled <=> k = 4) /\ (Masking(s) => line[n] \in masked)
  BY <1>0, HandlerStep
<1>3. /\ s[1][1] = "enable" <=> k = 6
      /\ s[1][1] = "disable" <=> k = 4
  <2>1. k >= 1
    BY <1>2
  <2> QED BY <2>1, <1>1, <1>2, LeftFacts
<1>4. /\ line' = line /\ held' \in SUBSET Locks /\ pending' \in SUBSET Lines
      /\ masked' = masked /\ masked' \in SUBSET Lines
  BY <1>0 DEF TypeOK, interrupt_flag
<1> HIDE DEF n, s, r, k
<1>5. (s[1][1] = "enable" /\ enabled') \/ (s[1][1] = "disable" /\ ~ enabled')
  BY <1>0, <1>1 DEF interrupt_flag, At
<1>6. enabled' \in BOOLEAN
  BY DEF interrupt_flag, At
<1>7. Masking(s)
  <2>1. k \in 2 .. 7
    BY <1>3, <1>5
  <2> QED BY <2>1, <1>2 DEF Masking, k
<1>8. \/ enabled' /\ Serving(r)
      \/ ~ enabled' /\ (Entering(r) \/ Leaving(r))
  <2>1. CASE k = 6 /\ enabled'
    <3>1. Len(r) = 5
      BY <2>1, <1>2
    <3>2. \A j \in 1 .. 5 : r[j] = dispatch[12 - 5 + j]
      BY <3>1, <1>2 DEF Left
    <3>3. r[1] = dispatch[8] /\ \A j \in 2 .. 5 : r[j] = dispatch[12 - 5 + j]
      <4>1. 1 \in 1 .. 5 /\ 12 - 5 + 1 = 8 /\ 2 .. 5 \subseteq 1 .. 5
        OBVIOUS
      <4> QED BY <4>1, <3>2
    <3>4. Plain(r[1])
      BY <3>3, DispatchIs DEF Plain
    <3>5. Serving(r)
      <4>1. \A j \in 1 .. 1 : j = 1
        OBVIOUS
      <4>2. Len(r) >= 4 /\ Len(r) - 4 = 1 /\ Len(r) - 3 = 2
        BY <3>1
      <4> QED BY <4>1, <4>2, <3>1, <3>3, <3>4 DEF Serving
    <3> QED BY <3>5, <2>1
  <2>2. CASE k = 4 /\ ~ enabled'
    <3>1. Len(r) <= 3
      BY <2>2, <1>2
    <3> QED BY <3>1, <2>2, <1>2 DEF Leaving
  <2> QED BY <2>1, <2>2, <1>3, <1>5
<1> QED BY <1>1, <1>2, <1>4, <1>6, <1>7, <1>8, NestStep DEF n, s, r
\* dispatch masks its line before it enables interrupts, and unmasks it after.
LEMMA LineStep ==
  ASSUME NInv, interrupt_line
  PROVE  NInv'
<1> DEFINE n == Len(stack)
           s == stack[n]
           r == stack'[n]
           k == Len(s)
<1>0. TypeOK /\ Running # <<>> /\ Continue(<<>>) /\ ~ Plain(Running[1])
  BY DEF NInv, interrupt_line, At, Plain
<1>1. /\ n \in Nat /\ n > 1 /\ Running = s /\ s \in Program /\ r \in Program /\ k \in Nat
      /\ stack' \in Seq(Program) /\ Len(stack') = n /\ \A i \in 1 .. n - 1 : stack'[i] = stack[i]
  BY <1>0, HandlerStep
<1>2. /\ Left(s) /\ Left(r) /\ k \in {2, 4, 6, 8} /\ Len(r) = k - 1 /\ Len(r) \in Nat
      /\ (enabled <=> k = 4) /\ (Masking(s) => line[n] \in masked)
  BY <1>0, HandlerStep
<1>3. /\ s[1][1] = "mask" <=> k = 8
      /\ s[1][1] = "unmask" <=> k = 2
  <2>1. k >= 1
    BY <1>2
  <2> QED BY <2>1, <1>1, <1>2, LeftFacts
<1>4. /\ line' = line /\ held' \in SUBSET Locks /\ pending' \in SUBSET Lines
      /\ enabled' = enabled /\ enabled' \in BOOLEAN /\ masked \in SUBSET Lines
  BY <1>0 DEF TypeOK, interrupt_line
<1>5. Len(line) = n /\ line[n] \in Lines
  BY <1>0, <1>1 DEF TypeOK
<1> HIDE DEF n, s, r, k
<1>6. \/ s[1][1] = "mask" /\ masked' = masked \cup {line[n]}
      \/ s[1][1] = "unmask" /\ masked' = masked \ {line[n]}
  BY <1>0, <1>1, <1>5 DEF interrupt_line, At
<1>7. masked' \in SUBSET Lines /\ \A l \in masked : l \in masked' \/ l = line[n]
  BY <1>4, <1>5, <1>6
<1>8. ~ enabled' /\ (Entering(r) \/ Leaving(r)) /\ (Masking(r) => line[n] \in masked')
  <2>1. CASE k = 8
    <3>1. Len(r) >= 6 /\ s[1][1] = "mask"
      BY <2>1, <1>2, <1>3
    <3> QED BY <2>1, <3>1, <1>2, <1>4, <1>6 DEF Entering
  <2>2. CASE k = 2
    <3>1. Len(r) = 1
      BY <2>2, <1>2
    <3>2. ~ Masking(r)
      BY <3>1 DEF Masking, Serving
    <3> QED BY <2>2, <3>1, <3>2, <1>2, <1>4 DEF Leaving
  <2> QED BY <2>1, <2>2, <1>3, <1>6
<1> QED BY <1>1, <1>4, <1>7, <1>8, NestStep DEF n, r

\* Every nonempty set of naturals has a least element.
LEMMA LeastNatural ==
  ASSUME NEW T \in SUBSET Nat, T # {}
  PROVE  Min(T) \in T
<1>1. PICK N \in T : TRUE
  OBVIOUS
<1> DEFINE U == {n \in T : n <= N}
           I == {0 .. n : n \in U}
<1>2. I # {} /\ I \subseteq FiniteSubsetsOf(0 .. N)
  <2>1. \A n \in U : IsFiniteSet(0 .. n)
    BY FS_Interval
  <2> QED BY <1>1, <2>1 DEF FiniteSubsetsOf
<1>3. PICK x \in I : \A y \in I : ~ (<<y, x>> \in StrictSubsetOrdering(0 .. N))
  BY <1>2, WFMin, FS_StrictSubsetOrderingWellFounded
<1>4. PICK n \in U : x = 0 .. n
  OBVIOUS
<1>5. ASSUME NEW m \in T, m < n PROVE FALSE
  <2>1. m \in U /\ 0 .. m \in I
    BY <1>5
  <2>2. n \in 0 .. n /\ n \notin 0 .. m
    BY <1>5
  <2>3. 0 .. m \subseteq 0 .. n /\ 0 .. m # 0 .. n
    BY <2>2, <1>5
  <2>4. 0 .. m \subseteq 0 .. N /\ 0 .. n \subseteq 0 .. N
    BY <2>1
  <2>5. <<0 .. m, 0 .. n>> \in StrictSubsetOrdering(0 .. N)
    BY <2>3, <2>4 DEF StrictSubsetOrdering
  <2> QED BY <2>1, <2>5, <1>3, <1>4
<1>6. n \in T /\ \A y \in T : n =< y
  BY <1>5
<1> QED BY <1>6, Zenon DEF Min

\* A line that asks and is not masked is not the line of a handler that runs.
LEMMA EntryStep ==
  ASSUME NInv, irq_entry
  PROVE  NInv'
<1> DEFINE n == Len(stack)
           a == Min(pending \ masked)
<1>0. TypeOK /\ Nesting /\ NoReentry
  BY DEF NInv
<1>1. n \in Nat /\ n >= 1 /\ Len(line) = n /\ stack \in Seq(Program) /\ line \in Seq(Lines \cup {NoLine})
  BY <1>0 DEF TypeOK
<1>2. a \in Lines /\ a \notin masked /\ a # NoLine
  <2>1. pending \ masked \in SUBSET Nat /\ pending \ masked # {} /\ pending \ masked \in SUBSET Lines
    BY <1>0, LineAssumption DEF TypeOK, irq_entry
  <2>2. a \in pending \ masked
    BY <2>1, LeastNatural
  <2> QED BY <2>1, <2>2 DEF NoLine
<1>3. /\ stack' = Append(stack, dispatch) /\ line' = Append(line, a) /\ enabled /\ enabled' = FALSE
      /\ masked' = masked /\ held' = held /\ pending' = pending
  BY DEF irq_entry
<1> HIDE DEF n, a
<1>4. /\ stack' \in Seq(Program) /\ Len(stack') = n + 1 /\ stack'[n + 1] = dispatch
      /\ \A i \in 1 .. n : stack'[i] = stack[i]
  BY <1>1, <1>3, DispatchIs DEF n
<1>5. /\ line' \in Seq(Lines \cup {NoLine}) /\ Len(line') = n + 1 /\ line'[n + 1] = a
      /\ \A i \in 1 .. n : line'[i] = line[i]
  BY <1>1, <1>2, <1>3 DEF n
<1>6. TypeOK'
  <2>1. \A i \in 2 .. n + 1 : line'[i] \in Lines
    <3> TAKE i \in 2 .. n + 1
    <3>1. CASE i = n + 1
      BY <3>1, <1>2, <1>5
    <3>2. CASE i # n + 1
      <4>1. i \in 2 .. n
        BY <3>2, <1>1
      <4> QED BY <4>1, <1>0, <1>1, <1>5 DEF TypeOK
    <3> QED BY <3>1, <3>2
  <2>2. line'[1] = NoLine
    BY <1>0, <1>1, <1>5 DEF TypeOK
  <2>3. n + 1 >= 1
    BY <1>1
  <2>4. /\ held' \in SUBSET Locks /\ masked' \in SUBSET Lines /\ pending' \in SUBSET Lines
        /\ enabled' \in BOOLEAN
    BY <1>0, <1>3 DEF TypeOK
  <2> QED BY <2>1, <2>2, <2>3, <2>4, <1>4, <1>5 DEF TypeOK
<1>7. \A i \in 2 .. n : Serving(stack[i]) /\ line[i] \in masked
  <2> TAKE i \in 2 .. n
  <2>1. Serving(stack[i])
    <3>1. CASE i = n
      <4>1. Serving(Running)
        <5>1. ASSUME Entering(Running) \/ Leaving(Running), ~ Serving(Running) PROVE FALSE
          BY <5>1, <3>1, <1>0, <1>3, <1>1 DEF Nesting, n
        <5> QED BY <5>1, <3>1, <1>0, <1>1, <1>3 DEF Nesting, n
      <4> QED BY <3>1, <4>1 DEF Running, n
    <3>2. CASE i # n
      <4>1. i \in 2 .. n - 1
        BY <3>2, <1>1
      <4> QED BY <4>1, <1>0 DEF Nesting, n
    <3> QED BY <3>1, <3>2
  <2> QED BY <2>1, <1>0 DEF Nesting, Masking, n
<1>8. stack[1] = <<>>
  BY <1>0, <1>3 DEF Nesting
<1>9. Left(dispatch) /\ Entering(dispatch) /\ ~ Masking(dispatch)
  <2>1. Len(dispatch) = 12
    BY DispatchIs
  <2>2. Left(dispatch)
    <3>1. \A j \in 1 .. 12 : 12 - 12 + j = j
      OBVIOUS
    <3> QED BY <2>1, <3>1 DEF Left
  <2>3. ~ Serving(dispatch)
    <3>1. Len(dispatch) \in Nat /\ Len(dispatch) >= 1 /\ Len(dispatch) >= 6
      BY <2>1
    <3> QED BY <3>1, <2>2, LeftFacts, Zenon
  <2>4. 12 \notin 2 .. 7 /\ 12 >= 6
    OBVIOUS
  <2> QED BY <2>1, <2>2, <2>3, <2>4 DEF Entering, Masking
<1>10. Nesting'
  <2>1. Running' = dispatch
    BY <1>4 DEF Running
  <2>2. stack'[1] = <<>> /\ \A j \in 1 .. Len(stack'[1]) : Plain(stack'[1][j])
    <3>1. stack'[1] = stack[1]
      BY <1>1, <1>4
    <3>2. \A j \in 1 .. 0 : FALSE
      OBVIOUS
    <3> QED BY <3>1, <3>2, <1>8, Empty
  <2>3. \A i \in 2 .. (n + 1) - 1 : Serving(stack'[i])
    BY <1>1, <1>4, <1>7
  <2>4. \A i \in 2 .. n + 1 : Masking(stack'[i]) => line'[i] \in masked'
    <3> TAKE i \in 2 .. n + 1
    <3>1. CASE i = n + 1
      BY <3>1, <1>4, <1>9
    <3>2. CASE i # n + 1
      <4>1. i \in 2 .. n
        BY <3>2, <1>1
      <4> QED BY <4>1, <1>3, <1>4, <1>5, <1>7, <1>1
    <3> QED BY <3>1, <3>2
  <2> QED BY <2>1, <2>2, <2>3, <2>4, <1>3, <1>4, <1>9 DEF Nesting
<1>11. NoReentry'
  <2>1. \A i \in 1 .. n : line'[i] # a
    <3> TAKE i \in 1 .. n
    <3>1. CASE i = 1
      BY <3>1, <1>0, <1>1, <1>2, <1>5 DEF TypeOK
    <3>2. CASE i # 1
      <4>1. i \in 2 .. n
        BY <3>2, <1>1
      <4> QED BY <4>1, <1>2, <1>5, <1>7
    <3> QED BY <3>1, <3>2
  <2> SUFFICES ASSUME NEW i \in 1 .. n + 1, NEW j \in 1 .. n + 1, line'[i] = line'[j] PROVE i = j
    BY <1>5 DEF NoReentry
  <2>2. CASE i = n + 1 \/ j = n + 1
    <3>1. ASSUME i # j PROVE FALSE
      <4>1. (i \in 1 .. n /\ j = n + 1) \/ (j \in 1 .. n /\ i = n + 1)
        BY <2>2, <3>1, <1>1
      <4> QED BY <4>1, <2>1, <1>5
    <3> QED BY <3>1
  <2>3. CASE i # n + 1 /\ j # n + 1
    <3>1. i \in 1 .. n /\ j \in 1 .. n
      BY <2>3, <1>1
    <3>2. line[i] = line[j]
      BY <3>1, <1>5
    <3> QED BY <3>1, <3>2, <1>0, <1>1 DEF NoReentry
  <2> QED BY <2>2, <2>3
<1> QED BY <1>6, <1>10, <1>11 DEF NInv
\* A handler's context ends with its line unmasked, and what it interrupted
\* goes on with interrupts enabled.
LEMMA ReturnStep ==
  ASSUME NInv, irq_return
  PROVE  NInv'
<1> DEFINE n == Len(stack)
<1>0. TypeOK /\ Nesting /\ NoReentry
  BY DEF NInv
<1>1. n \in Nat /\ n > 1 /\ Len(line) = n /\ stack \in Seq(Program) /\ line \in Seq(Lines \cup {NoLine})
  BY <1>0 DEF TypeOK, irq_return
<1>2. /\ stack' = SubSeq(stack, 1, n - 1) /\ line' = SubSeq(line, 1, n - 1) /\ enabled' = TRUE
      /\ masked' = masked /\ held' = held /\ pending' = pending
  BY <1>1 DEF irq_return
<1> HIDE DEF n
<1>3. /\ stack' \in Seq(Program) /\ Len(stack') = n - 1 /\ \A i \in 1 .. n - 1 : stack'[i] = stack[i]
  <2>1. 1 .. n - 1 \subseteq 1 .. n /\ n - 1 \in Nat
    BY <1>1
  <2> QED BY <2>1, <1>1, <1>2 DEF n
<1>4. /\ line' \in Seq(Lines \cup {NoLine}) /\ Len(line') = n - 1 /\ \A i \in 1 .. n - 1 : line'[i] = line[i]
  <2>1. 1 .. n - 1 \subseteq 1 .. n /\ n - 1 \in Nat
    BY <1>1
  <2> QED BY <2>1, <1>1, <1>2
<1>5. 1 \in 1 .. n - 1 /\ 2 .. n - 1 \subseteq 1 .. n - 1 /\ 2 .. n - 1 \subseteq 2 .. n /\ n - 1 >= 1
      /\ 1 .. n - 1 \subseteq 1 .. n /\ 2 .. (n - 1) - 1 \subseteq 2 .. n - 1
  BY <1>1
<1>6. TypeOK'
  <2>1. \A i \in 2 .. n - 1 : line'[i] \in Lines
    BY <1>0, <1>1, <1>4, <1>5 DEF TypeOK
  <2>2. line'[1] = NoLine
    BY <1>0, <1>4, <1>5 DEF TypeOK
  <2>3. /\ held' \in SUBSET Locks /\ masked' \in SUBSET Lines /\ pending' \in SUBSET Lines
        /\ enabled' \in BOOLEAN
    BY <1>0, <1>2 DEF TypeOK
  <2> QED BY <2>1, <2>2, <2>3, <1>3, <1>4, <1>5 DEF TypeOK
<1>7. \A i \in 2 .. n - 1 : Serving(stack'[i]) /\ line'[i] \in masked
  <2> TAKE i \in 2 .. n - 1
  <2>1. Serving(stack[i]) /\ stack'[i] = stack[i] /\ line'[i] = line[i]
    BY <1>0, <1>3, <1>4, <1>5 DEF Nesting, n
  <2>2. line[i] \in masked
    BY <2>1, <1>0, <1>5 DEF Nesting, Masking, n
  <2> QED BY <2>1, <2>2
<1>8. stack'[1] = <<>>
  BY <1>0, <1>1, <1>3, <1>5 DEF Nesting, n
<1>9. Nesting'
  <2>1. \A j \in 1 .. Len(stack'[1]) : Plain(stack'[1][j])
    <3>1. \A j \in 1 .. 0 : FALSE
      OBVIOUS
    <3> QED BY <3>1, <1>8, Empty
  <2>2. ASSUME n - 1 > 1 PROVE Serving(Running')
    <3>1. n - 1 \in 2 .. n - 1
      BY <2>2, <1>1
    <3> QED BY <3>1, <1>3, <1>7 DEF Running
  <2>3. \A i \in 2 .. (n - 1) - 1 : Serving(stack'[i])
    BY <1>5, <1>7
  <2> QED BY <2>1, <2>2, <2>3, <1>2, <1>3, <1>7, <1>8 DEF Nesting
<1>10. NoReentry'
  BY <1>0, <1>1, <1>4, <1>5 DEF NoReentry
<1> QED BY <1>6, <1>9, <1>10 DEF NInv

\* What the actions that leave interrupts alone do.
LEMMA OtherSteps ==
  ASSUME NInv, call \/ lock \/ unlock \/ attach \/ timer_device
  PROVE  NInv'
<1>0. TypeOK /\ TimerLine \in Lines
  BY LineAssumption DEF NInv
<1>1. Running # <<>> => Running[1] \in Instr
  <2>1. Running \in Program
    BY <1>0 DEF Running, TypeOK
  <2> QED BY <2>1 DEF Program
<1>2. CASE call
  <2>1. Running # <<>> /\ Running[1][1] = "call" /\ Continue(Body[Arg])
    BY <1>2 DEF call, At
  <2>2. Arg \in Callees
    BY <2>1, <1>1 DEF Arg, Instr
  <2> DEFINE b == Body[Arg]
  <2>3. b \in Program /\ \A j \in 1 .. Len(b) : Plain(b[j])
    BY <2>2, BodyTyped
  <2>4. Plain(Running[1])
    BY <2>1 DEF Plain
  <2>5. UNCHANGED <<line, enabled, masked>> /\ held' \in SUBSET Locks /\ pending' \in SUBSET Lines
    BY <1>0, <1>2 DEF call, TypeOK
  <2> HIDE DEF b
  <2>6. Continue(b)
    BY <2>1 DEF b
  <2> QED BY <2>1, <2>3, <2>4, <2>5, <2>6, PlainStep
<1>3. CASE lock \/ unlock \/ attach \/ timer_device
  <2>1. /\ Running # <<>> /\ Continue(<<>>)
        /\ Running[1][1] \in {"lock", "unlock", "attach", "stop", "start"}
    BY <1>3 DEF lock, unlock, attach, timer_device, At
  <2>2. Plain(Running[1])
    BY <2>1 DEF Plain
  <2>3. UNCHANGED <<line, enabled, masked>> /\ pending' \in SUBSET Lines
    BY <1>0, <1>3 DEF lock, unlock, attach, timer_device, TypeOK
  <2>4. held' \in SUBSET Locks
    <3>1. CASE lock
      <4>1. Arg \in Locks
        BY <3>1, <1>1 DEF lock, At, Arg, Instr
      <4> QED BY <3>1, <4>1, <1>0 DEF lock, TypeOK
    <3>2. CASE unlock \/ attach \/ timer_device
      BY <3>2, <1>0 DEF unlock, attach, timer_device, TypeOK
    <3> QED BY <1>3, <3>1, <3>2
  <2>5. <<>> \in Program /\ \A j \in 1 .. Len(<<>>) : Plain(<<>>[j])
    <3>1. \A j \in 1 .. 0 : FALSE
      OBVIOUS
    <3> QED BY <3>1, Empty
  <2> QED BY <2>1, <2>2, <2>3, <2>4, <2>5, PlainStep
<1> QED BY <1>2, <1>3

LEMMA NeedStep ==
  ASSUME NInv, need
  PROVE  NInv'
<1>0. TypeOK /\ Nesting /\ NoReentry
  BY DEF NInv
<1>1. CASE Arg \in present
  <2>1. Running # <<>> /\ Running[1][1] = "need" /\ Continue(<<>>)
    BY <1>1 DEF need, At
  <2>2. Plain(Running[1])
    BY <2>1 DEF Plain
  <2>3. UNCHANGED <<line, enabled, masked>> /\ held' \in SUBSET Locks /\ pending' \in SUBSET Lines
    BY <1>0 DEF need, TypeOK
  <2>4. <<>> \in Program /\ \A j \in 1 .. Len(<<>>) : Plain(<<>>[j])
    <3>1. \A j \in 1 .. 0 : FALSE
      OBVIOUS
    <3> QED BY <3>1, Empty
  <2> QED BY <2>1, <2>2, <2>3, <2>4, PlainStep
<1>2. CASE Arg \notin present
  <2>1. UNCHANGED <<stack, line, held, enabled, masked, pending>>
    BY <1>2 DEF need
  <2> QED BY <2>1 DEF NInv, TypeOK, Nesting, NoReentry, Running
<1> QED BY <1>1, <1>2

\* Devices raise their lines at any time.
LEMMA DeviceStep ==
  ASSUME NInv, UNCHANGED vars \/ timer_fires \/ \E l \in Lines : device_fires(l)
  PROVE  NInv'
<1>1. UNCHANGED <<stack, line, held, enabled, masked>> /\ pending' \in SUBSET Lines
  BY LineAssumption DEF NInv, TypeOK, vars, timer_fires, device_fires
<1> QED BY <1>1 DEF NInv, TypeOK, Nesting, NoReentry, Running

LEMMA NestNext ==
  ASSUME NInv, [Next]_vars
  PROVE  NInv'
<1>1. CASE Step
  BY <1>1, OtherSteps, NeedStep, FlagStep, LineStep, EntryStep, ReturnStep DEF Step
<1>2. CASE spin \/ loop
  BY <1>2, DeviceStep DEF spin, loop
<1> QED BY <1>1, <1>2, DeviceStep DEF Next

\* The main context starts in kernel_init, in kernel_main or in the idle loop.
LEMMA MainPrograms ==
  /\ kernel_init \in Program /\ \A j \in 1 .. Len(kernel_init) : Plain(kernel_init[j])
  /\ kernel_main \in Program /\ \A j \in 1 .. Len(kernel_main) : Plain(kernel_main[j])
<1> DEFINE Good(b) == b \in Program /\ \A j \in 1 .. Len(b) : Plain(b[j])
<1>1. ASSUME NEW g \in Callees PROVE Good(Call(g))
  <2>1. <<"call", g>> \in Instr
    BY Instrs
  <2> QED BY <2>1 DEF Call, Plain, Program
<1>2. ASSUME NEW s, NEW t, Good(s), Good(t) PROVE Good(s \o t)
  BY <1>2 DEF Program
<1> HIDE DEF Good
<1>3. Good(kernel_init) /\ Good(kernel_main)
  <2>1. /\ Good(Call("log")) /\ Good(Call("init_devices")) /\ Good(Call("attach_runtime"))
        /\ Good(Call("log_available_devices")) /\ Good(Call("print_devices")) /\ Good(Call("draw"))
    BY <1>1 DEF Callees
  <2> QED BY <2>1, <1>2, Zenon DEF kernel_init, kernel_main
<1> QED BY <1>3 DEF Good

LEMMA NestInit ==
  ASSUME Init
  PROVE  NInv
<1>1. PICK s \in Starts :
        /\ stack = <<CASE s = "kernel_init" -> kernel_init
                       [] s = "kernel_main" -> kernel_main
                       [] s = "main_loop" -> <<>>>>
        /\ enabled = (s = "main_loop")
        /\ line = <<NoLine>> /\ held = {} /\ masked = {} /\ pending = {}
  BY DEF Init
<1>2. s \in {"kernel_init", "kernel_main", "main_loop"}
  BY LineAssumption
<1>3. PICK p : /\ stack = <<p>> /\ p \in Program /\ \A j \in 1 .. Len(p) : Plain(p[j])
               /\ s = "main_loop" => p = <<>>
  <2>1. CASE s = "kernel_init"
    BY <1>1, <2>1, MainPrograms
  <2>2. CASE s = "kernel_main"
    BY <1>1, <2>2, MainPrograms
  <2>3. CASE s = "main_loop"
    <3>1. \A j \in 1 .. Len(<<>>) : Plain(<<>>[j])
      <4>1. \A j \in 1 .. 0 : FALSE
        OBVIOUS
      <4> QED BY <4>1, Empty
    <3>2. stack = <<<<>>>>
      BY <1>1, <2>3
    <3> QED BY <2>3, <3>1, <3>2, Empty
  <2> QED BY <1>2, <2>1, <2>2, <2>3
<1>4. Len(stack) = 1 /\ stack[1] = p /\ Len(line) = 1 /\ line[1] = NoLine
      /\ stack \in Seq(Program) /\ line \in Seq(Lines \cup {NoLine})
  <2>1. stack = <<p>> /\ p \in Program /\ line = <<NoLine>>
    BY <1>1, <1>3
  <2> QED BY <2>1
<1>5. \A i : i \notin 2 .. 1 /\ i \notin 2 .. 0
  OBVIOUS
<1>6. TypeOK
  <2>1. enabled \in BOOLEAN /\ 1 >= 1
    BY <1>1
  <2> QED BY <2>1, <1>1, <1>4, <1>5 DEF TypeOK
<1>7. Nesting
  <2>1. enabled => p = <<>>
    BY <1>1, <1>3
  <2>2. ~ (1 > 1)
    OBVIOUS
  <2> QED BY <2>1, <2>2, <1>3, <1>4, <1>5 DEF Nesting
<1>8. NoReentry
  <2>1. \A i \in 1 .. 1 : i = 1
    OBVIOUS
  <2> QED BY <2>1, <1>4 DEF NoReentry
<1> QED BY <1>6, <1>7, <1>8 DEF NInv

LEMMA NestInvariance == Spec => []NInv
<1>1. Init => NInv
  BY NestInit
<1>2. NInv /\ [Next]_vars => NInv'
  BY NestNext
<1> QED BY <1>1, <1>2, PTL DEF Spec

\* The handler of a line is never entered again while it runs, whatever lines
\* there are, whatever handlers they have and however deep handlers nest: every
\* context that was interrupted while its handler ran has its line masked.
THEOREM HandlersNotReentered == Spec => []NoReentry
<1>1. NInv => NoReentry
  BY DEF NInv
<1> QED BY <1>1, NestInvariance, PTL

-----------------------------------------------------------------------------
(***************************************************************************)
(* Neither the main context nor a handler on top of it waits for a lock.   *)
(***************************************************************************)

\* The program r is s with its first instruction replaced by b.
Spliced(s, b, r) == /\ s \in Program /\ b \in Program /\ r \in Program
                    /\ Len(s) >= 1 /\ Len(r) = Len(b) + Len(s) - 1
                    /\ \A j \in 1 .. Len(b) : r[j] = b[j]
                    /\ \A j \in 2 .. Len(s) : r[Len(b) + j - 1] = s[j]

\* What is owed after the first instruction stays owed.
LEMMA OwedShift ==
  ASSUME NEW s, NEW b, NEW r, Spliced(s, b, r), NEW i \in Nat, 2 <= i, i <= Len(s) + 1, NEW l
  PROVE  Owed(r, Len(b) + i - 1, l) <=> Owed(s, i, l)
<1> DEFINE n == Len(s)
           p == Len(b)
           q == Len(r)
<1>1. /\ n \in Nat /\ p \in Nat /\ q = p + n - 1 /\ n >= 1 /\ i <= n + 1
      /\ \A j \in 2 .. n : r[p + j - 1] = s[j]
  BY DEF Spliced, Program
<1>2. /\ Owed(s, i, l) <=> \E j \in i .. n : s[j] = <<"unlock", l>> /\ \A k \in i .. j - 1 : s[k] # <<"lock", l>>
      /\ Owed(r, p + i - 1, l) <=>
           \E j \in p + i - 1 .. q : r[j] = <<"unlock", l>> /\ \A k \in p + i - 1 .. j - 1 : r[k] # <<"lock", l>>
  BY DEF Owed
<1> HIDE DEF n, p, q
<1>3. ASSUME Owed(s, i, l) PROVE Owed(r, p + i - 1, l)
  <2>1. PICK j \in i .. n : s[j] = <<"unlock", l>> /\ \A k \in i .. j - 1 : s[k] # <<"lock", l>>
    BY <1>2, <1>3
  <2>2. p + j - 1 \in p + i - 1 .. q /\ j \in 2 .. n
    BY <1>1
  <2>3. r[p + j - 1] = <<"unlock", l>>
    BY <2>1, <2>2, <1>1
  <2>4. \A k \in p + i - 1 .. (p + j - 1) - 1 : r[k] # <<"lock", l>>
    <3> TAKE k \in p + i - 1 .. (p + j - 1) - 1
    <3> DEFINE h == k - p + 1
    <3>1. h \in i .. j - 1 /\ h \in 2 .. n /\ p + h - 1 = k
      BY <1>1
    <3> HIDE DEF h
    <3>2. r[k] = s[h]
      BY <3>1, <1>1
    <3> QED BY <3>1, <3>2, <2>1
  <2> QED BY <2>2, <2>3, <2>4, <1>2
<1>4. ASSUME Owed(r, p + i - 1, l) PROVE Owed(s, i, l)
  <2>1. PICK j \in p + i - 1 .. q : r[j] = <<"unlock", l>> /\ \A k \in p + i - 1 .. j - 1 : r[k] # <<"lock", l>>
    BY <1>2, <1>4
  <2> DEFINE h == j - p + 1
  <2>2. h \in i .. n /\ h \in 2 .. n /\ p + h - 1 = j
    BY <1>1
  <2> HIDE DEF h
  <2>3. s[h] = <<"unlock", l>>
    BY <2>1, <2>2, <1>1
  <2>4. \A k \in i .. h - 1 : s[k] # <<"lock", l>>
    <3> TAKE k \in i .. h - 1
    <3>1. p + k - 1 \in p + i - 1 .. j - 1 /\ k \in 2 .. n
      BY <2>2, <1>1
    <3>2. r[p + k - 1] = s[k]
      BY <3>1, <1>1
    <3> QED BY <3>1, <3>2, <2>1
  <2> QED BY <2>2, <2>3, <2>4, <1>2
<1> QED BY <1>3, <1>4 DEF p

\* What a program owes in b, it owes there or after the call.
LEMMA OwedHead ==
  ASSUME NEW s, NEW b, NEW r, Spliced(s, b, r), NEW i \in Nat, 1 <= i, i <= Len(b) + 1, NEW l
  PROVE  /\ Owed(b, i, l) => Owed(r, i, l)
         /\ Owed(r, i, l) => Owed(b, i, l) \/ Owed(s, 2, l)
         /\ Owed(s, 2, l) /\ (\A j \in i .. Len(b) : b[j] # <<"lock", l>>) => Owed(r, i, l)
<1> DEFINE n == Len(s)
           p == Len(b)
           q == Len(r)
<1>1. /\ n \in Nat /\ p \in Nat /\ q = p + n - 1 /\ n >= 1 /\ i <= p + 1
      /\ \A j \in 2 .. n : r[p + j - 1] = s[j]
      /\ \A j \in 1 .. p : r[j] = b[j]
  BY DEF Spliced, Program
<1>2. /\ Owed(b, i, l) <=> \E j \in i .. p : b[j] = <<"unlock", l>> /\ \A k \in i .. j - 1 : b[k] # <<"lock", l>>
      /\ Owed(r, i, l) <=> \E j \in i .. q : r[j] = <<"unlock", l>> /\ \A k \in i .. j - 1 : r[k] # <<"lock", l>>
      /\ Owed(r, p + 1, l) <=>
           \E j \in p + 1 .. q : r[j] = <<"unlock", l>> /\ \A k \in p + 1 .. j - 1 : r[k] # <<"lock", l>>
  BY DEF Owed
<1>3. Owed(r, p + 1, l) <=> Owed(s, 2, l)
  <2>1. 2 <= n + 1 /\ p + 2 - 1 = p + 1
    BY <1>1
  <2>2. Owed(r, p + 2 - 1, l) <=> Owed(s, 2, l)
    BY <2>1, OwedShift
  <2> QED BY <2>1, <2>2
<1> HIDE DEF n, p, q
<1>4. ASSUME Owed(b, i, l) PROVE Owed(r, i, l)
  <2>1. PICK j \in i .. p : b[j] = <<"unlock", l>> /\ \A k \in i .. j - 1 : b[k] # <<"lock", l>>
    BY <1>2, <1>4
  <2>2. j \in i .. q /\ j \in 1 .. p /\ i .. j - 1 \subseteq 1 .. p
    BY <1>1
  <2>3. r[j] = <<"unlock", l>> /\ \A k \in i .. j - 1 : r[k] # <<"lock", l>>
    BY <2>1, <2>2, <1>1
  <2> QED BY <2>2, <2>3, <1>2
<1>5. ASSUME Owed(r, i, l), ~ Owed(b, i, l) PROVE Owed(s, 2, l)
  <2>1. PICK j \in i .. q : r[j] = <<"unlock", l>> /\ \A k \in i .. j - 1 : r[k] # <<"lock", l>>
    BY <1>2, <1>5
  <2>2. CASE j <= p
    <3>1. j \in i .. p /\ j \in 1 .. p /\ i .. j - 1 \subseteq 1 .. p
      BY <2>2, <1>1
    <3>2. b[j] = <<"unlock", l>> /\ \A k \in i .. j - 1 : b[k] # <<"lock", l>>
      BY <3>1, <2>1, <1>1
    <3> QED BY <3>1, <3>2, <1>2, <1>5
  <2>3. CASE j > p
    <3>1. j \in p + 1 .. q /\ p + 1 .. j - 1 \subseteq i .. j - 1
      BY <2>3, <1>1
    <3>2. Owed(r, p + 1, l)
      BY <3>1, <2>1, <1>2
    <3> QED BY <3>2, <1>3
  <2> QED BY <2>2, <2>3, <1>1
<1>6. ASSUME Owed(s, 2, l), \A j \in i .. p : b[j] # <<"lock", l>> PROVE Owed(r, i, l)
  <2>1. PICK j \in p + 1 .. q : r[j] = <<"unlock", l>> /\ \A k \in p + 1 .. j - 1 : r[k] # <<"lock", l>>
    BY <1>2, <1>3, <1>6
  <2>2. j \in i .. q
    BY <1>1
  <2>3. \A k \in i .. j - 1 : r[k] # <<"lock", l>>
    <3> TAKE k \in i .. j - 1
    <3>1. CASE k <= p
      <4>1. k \in i .. p /\ k \in 1 .. p
        BY <3>1, <1>1
      <4> QED BY <4>1, <1>1, <1>6
    <3>2. CASE k > p
      <4>1. k \in p + 1 .. j - 1
        BY <3>2, <1>1
      <4> QED BY <4>1, <2>1
    <3> QED BY <3>1, <3>2, <1>1
  <2> QED BY <2>1, <2>2, <2>3, <1>2
<1> QED BY <1>4, <1>5, <1>6 DEF p

\* The mode that what comes after the first instruction sees.
LEMMA ModeShift ==
  ASSUME NEW s, NEW b, NEW r, Spliced(s, b, r), NEW i \in 2 .. Len(s), NEW m, NEW mm,
         \/ Attaches(s[1]) /\ (mm = "Runtime" \/ \E j \in 1 .. Len(b) : Attaches(b[j]))
         \/ ~ Attaches(s[1]) /\ mm = m /\ \A j \in 1 .. Len(b) : ~ Attaches(b[j])
  PROVE  ModeAt(r, Len(b) + i - 1, mm) = ModeAt(s, i, m)
<1> DEFINE n == Len(s)
           p == Len(b)
<1>1. /\ n \in Nat /\ p \in Nat /\ n >= 1 /\ i \in 2 .. n
      /\ \A j \in 2 .. n : r[p + j - 1] = s[j]
      /\ \A j \in 1 .. p : r[j] = b[j]
  <2>1. s \in Seq(Instr) /\ b \in Seq(Instr)
    BY DEF Spliced, Program
  <2>2. n \in Nat /\ p \in Nat
    BY <2>1
  <2>3. n >= 1
    BY DEF Spliced
  <2>4. \A j \in 2 .. n : r[p + j - 1] = s[j]
    BY DEF Spliced
  <2>5. \A j \in 1 .. p : r[j] = b[j]
    BY DEF Spliced
  <2> QED BY <2>2, <2>3, <2>4, <2>5
<1> HIDE DEF n, p
<1>2. CASE Attaches(s[1])
  <2>1. 1 \in 1 .. i - 1
    BY <1>1
  <2>2. ModeAt(s, i, m) = "Runtime"
    BY <2>1, <1>2 DEF ModeAt
  <2>3. ASSUME NEW j \in 1 .. p, Attaches(b[j]) PROVE ModeAt(r, p + i - 1, mm) = "Runtime"
    <3>1. j \in 1 .. (p + i - 1) - 1 /\ r[j] = b[j]
      BY <1>1
    <3> QED BY <3>1, <2>3 DEF ModeAt
  <2>4. mm = "Runtime" => ModeAt(r, p + i - 1, mm) = "Runtime"
    BY DEF ModeAt
  <2> QED BY <2>2, <2>3, <2>4, <1>2 DEF p
<1>3. CASE ~ Attaches(s[1])
  <2>1. mm = m /\ \A j \in 1 .. p : ~ Attaches(r[j])
    BY <1>1, <1>3 DEF p
  <2>2. ASSUME NEW j \in 1 .. i - 1, Attaches(s[j]) PROVE \E k \in 1 .. (p + i - 1) - 1 : Attaches(r[k])
    <3>1. j # 1
      BY <2>2, <1>3
    <3>2. j \in 2 .. n /\ p + j - 1 \in 1 .. (p + i - 1) - 1
      BY <3>1, <1>1
    <3> QED BY <3>2, <2>2, <1>1
  <2>3. ASSUME NEW k \in 1 .. (p + i - 1) - 1, Attaches(r[k]) PROVE \E j \in 1 .. i - 1 : Attaches(s[j])
    <3>1. ~ (k <= p)
      <4> SUFFICES ASSUME k <= p PROVE FALSE
        OBVIOUS
      <4>1. k \in 1 .. p
        BY <1>1
      <4> QED BY <4>1, <2>1, <2>3
    <3> DEFINE h == k - p + 1
    <3>2. h \in 1 .. i - 1 /\ h \in 2 .. n /\ p + h - 1 = k
      BY <3>1, <1>1
    <3> HIDE DEF h
    <3>3. r[k] = s[h]
      BY <3>2, <1>1
    <3> QED BY <3>2, <3>3, <2>3
  <2> QED BY <2>1, <2>2, <2>3 DEF ModeAt, p
<1> QED BY <1>2, <1>3 DEF p
\* A call of a tidy program that takes no lock its caller holds.
LEMMA TidySplice ==
  ASSUME NEW s, NEW b, NEW r, Spliced(s, b, r), NEW U, NEW V, NEW m, NEW mm,
         Tidy(s, U, m), Tidy(b, V, mm), V \subseteq U, \A l \in V : ~ Owed(s, 2, l),
         \/ Attaches(s[1]) /\ (mm = "Runtime" \/ \E j \in 1 .. Len(b) : Attaches(b[j]))
         \/ ~ Attaches(s[1]) /\ mm = m /\ \A j \in 1 .. Len(b) : ~ Attaches(b[j])
  PROVE  Tidy(r, U, mm)
<1> DEFINE n == Len(s)
           p == Len(b)
           q == Len(r)
<1>1. /\ n \in Nat /\ p \in Nat /\ q = p + n - 1 /\ n >= 1
      /\ \A j \in 2 .. n : r[p + j - 1] = s[j]
      /\ \A j \in 1 .. p : r[j] = b[j]
  BY DEF Spliced, Program
<1> SUFFICES ASSUME NEW i \in 1 .. q
             PROVE  /\ r[i][1] = "lock" => r[i][2] \in U /\ Owed(r, i + 1, r[i][2])
                    /\ r[i][1] = "call" => Callable(r, i, U, ModeAt(r, i, mm))
  BY DEF Tidy
<1>2. CASE i <= p
  <2>1. i \in 1 .. p /\ r[i] = b[i] /\ 1 <= i + 1 /\ i + 1 <= p + 1 /\ i + 1 \in Nat
    BY <1>1, <1>2
  <2>2. \A l : Owed(b, i + 1, l) => Owed(r, i + 1, l)
    BY <2>1, OwedHead
  <2>3. \A l \in V : Owed(r, i + 1, l) => Owed(b, i + 1, l)
    BY <2>1, OwedHead
  <2>4. ModeAt(r, i, mm) = ModeAt(b, i, mm)
    <3>1. \A j \in 1 .. i - 1 : r[j] = b[j]
      BY <2>1, <1>1
    <3> QED BY <3>1 DEF ModeAt
  <2>5. /\ b[i][1] = "lock" => b[i][2] \in V /\ Owed(b, i + 1, b[i][2])
        /\ b[i][1] = "call" => Callable(b, i, V, ModeAt(b, i, mm))
    BY <2>1 DEF Tidy
  <2>6. ASSUME r[i][1] = "lock" PROVE r[i][2] \in U /\ Owed(r, i + 1, r[i][2])
    BY <2>1, <2>2, <2>5, <2>6
  <2> DEFINE T == Takes(ModeAt(b, i, mm))
  <2>7. ASSUME r[i][1] = "call" PROVE Callable(r, i, U, ModeAt(r, i, mm))
    <3>1. r[i][2] \in DOMAIN T /\ T[r[i][2]] \subseteq V /\ \A l \in T[r[i][2]] : ~ Owed(b, i + 1, l)
      BY <2>1, <2>5, <2>7 DEF Callable
    <3> HIDE DEF T
    <3>2. T[r[i][2]] \subseteq U /\ \A l \in T[r[i][2]] : ~ Owed(r, i + 1, l)
      BY <3>1, <2>3
    <3> QED BY <3>1, <3>2, <2>4 DEF Callable, T
  <2> QED BY <2>6, <2>7
<1>3. CASE i > p
  <2> DEFINE h == i - p + 1
  <2>1. h \in 2 .. n /\ h \in 1 .. n /\ p + h - 1 = i /\ h + 1 \in Nat /\ 2 <= h + 1 /\ h + 1 <= n + 1
        /\ p + (h + 1) - 1 = i + 1
    BY <1>1, <1>3
  <2> HIDE DEF h
  <2>2. r[i] = s[h]
    BY <2>1, <1>1
  <2>3. \A l : Owed(r, i + 1, l) <=> Owed(s, h + 1, l)
    <3>1. \A l : Owed(r, p + (h + 1) - 1, l) <=> Owed(s, h + 1, l)
      BY <2>1, OwedShift
    <3> QED BY <3>1, <2>1
  <2>4. ModeAt(r, i, mm) = ModeAt(s, h, m)
    <3>1. ModeAt(r, p + h - 1, mm) = ModeAt(s, h, m)
      BY <2>1, ModeShift
    <3> QED BY <3>1, <2>1
  <2>5. /\ s[h][1] = "lock" => s[h][2] \in U /\ Owed(s, h + 1, s[h][2])
        /\ s[h][1] = "call" => Callable(s, h, U, ModeAt(s, h, m))
    BY <2>1 DEF Tidy
  <2>6. ASSUME r[i][1] = "lock" PROVE r[i][2] \in U /\ Owed(r, i + 1, r[i][2])
    BY <2>2, <2>3, <2>5, <2>6
  <2>7. ASSUME r[i][1] = "call" PROVE Callable(r, i, U, ModeAt(r, i, mm))
    BY <2>2, <2>3, <2>4, <2>5, <2>7 DEF Callable
  <2> QED BY <2>6, <2>7
<1> QED BY <1>1, <1>2, <1>3

\* What is owed before an instruction is owed after it, unless it is unlocked.
LEMMA OwedStep ==
  ASSUME NEW s, NEW l, Owed(s, 1, l), s[1] # <<"unlock", l>>
  PROVE  Owed(s, 2, l)
<1> DEFINE n == Len(s)
<1>1. PICK j \in 1 .. n : s[j] = <<"unlock", l>> /\ \A k \in 1 .. j - 1 : s[k] # <<"lock", l>>
  BY DEF Owed
<1>2. j # 1
  BY <1>1
<1> HIDE DEF n
<1>3. j \in 2 .. n /\ \A k \in 2 .. j - 1 : k \in 1 .. j - 1
  BY <1>2
<1> QED BY <1>1, <1>3 DEF Owed, n

\* The empty program.
LEMMA TidyEmpty ==
  ASSUME NEW U, NEW m
  PROVE  Tidy(<<>>, U, m) /\ (\A l : ~ Owed(<<>>, 1, l)) /\ \A j \in 1 .. Len(<<>>) : ~ Attaches(<<>>[j])
<1>1. \A j \in 1 .. 0 : FALSE
  OBVIOUS
<1> QED BY <1>1, Empty DEF Tidy, Owed

\* One instruction of the running context.
LEMMA LockStep ==
  ASSUME NInv, LInv, Running # <<>>, NEW b \in Program, Continue(b), NEW V \in SUBSET Locks,
         NEW mm, mm = IF Len(stack) = 1 THEN mode' ELSE "Runtime",
         mode' \in {"Boot", "Runtime"},
         Tidy(b, V, mm), \A l \in V : ~ Owed(Running, 2, l),
         \/ Attaches(Running[1]) /\ (mm = "Runtime" \/ \E j \in 1 .. Len(b) : Attaches(b[j]))
         \/ ~ Attaches(Running[1]) /\ mode' = mode /\ \A j \in 1 .. Len(b) : ~ Attaches(b[j]),
         \A l \in held' : \/ l \in held /\ Running[1] # <<"unlock", l>>
                          \/ Owed(Running, 2, l)
  PROVE  LInv'
<1> DEFINE n == Len(stack)
           s == stack[n]
           r == stack'[n]
<1>0. TypeOK /\ Nesting
  BY DEF NInv
<1>1. /\ n \in Nat /\ n >= 1 /\ s \in Program /\ Len(s) \in Nat /\ Len(s) >= 1 /\ Running = s
      /\ Len(stack') = n /\ \A i \in 1 .. n - 1 : stack'[i] = stack[i]
  BY <1>0, ContinueFacts
<1>2. Spliced(s, b, r)
  <2>1. r \in Program /\ Len(r) = Len(b) + Len(s) - 1
    BY <1>0, ContinueFacts
  <2>2. (\A j \in 1 .. Len(b) : r[j] = b[j]) /\ \A j \in 2 .. Len(s) : r[Len(b) + j - 1] = s[j]
    BY <1>0, ContinueFacts
  <2> QED BY <1>1, <2>1, <2>2 DEF Spliced
<1>3. Tidy(s, Locks, ModeOf(n))
  <2>1. n \in 1 .. n
    BY <1>1
  <2> QED BY <2>1 DEF LInv
<1> HIDE DEF n, s, r
<1>4. Tidy(r, Locks, mm)
  <2>1. \/ Attaches(s[1]) /\ (mm = "Runtime" \/ \E j \in 1 .. Len(b) : Attaches(b[j]))
        \/ ~ Attaches(s[1]) /\ mm = ModeOf(n) /\ \A j \in 1 .. Len(b) : ~ Attaches(b[j])
    BY <1>1 DEF ModeOf, n
  <2>2. V \subseteq Locks /\ \A l \in V : ~ Owed(s, 2, l)
    BY <1>1
  <2> QED BY <2>1, <2>2, <1>2, <1>3, TidySplice
<1>5. ASSUME NEW i \in 1 .. n PROVE Tidy(stack'[i], Locks, ModeOf(i)')
  <2>1. CASE i = n
    BY <2>1, <1>4 DEF ModeOf, n, r
  <2>2. CASE i # n
    <3>1. i \in 1 .. n - 1 /\ stack'[i] = stack[i] /\ n > 1
      BY <2>2, <1>1
    <3>2. CASE i = 1
      <4>1. stack[1] = <<>>
        BY <3>1, <1>0 DEF Nesting, n
      <4> QED BY <3>1, <3>2, <4>1, TidyEmpty
    <3>3. CASE i # 1
      <4>1. ModeOf(i)' = ModeOf(i)
        BY <3>3 DEF ModeOf
      <4>2. Tidy(stack[i], Locks, ModeOf(i))
        BY DEF LInv, n
      <4> QED BY <3>1, <4>1, <4>2
    <3> QED BY <3>2, <3>3
  <2> QED BY <2>1, <2>2
<1>6. ASSUME NEW l, Owed(s, 2, l) PROVE Owed(r, 1, l)
  <2>1. l \notin V
    BY <1>1, <1>6
  <2>2. \A j \in 1 .. Len(b) : b[j] # <<"lock", l>>
    <3> SUFFICES ASSUME NEW j \in 1 .. Len(b), b[j] = <<"lock", l>> PROVE FALSE
      OBVIOUS
    <3>1. b[j][1] = "lock" /\ b[j][2] = l
      OBVIOUS
    <3>2. l \in V
      BY <3>1 DEF Tidy
    <3> QED BY <3>2, <2>1
  <2>3. 1 \in Nat /\ 1 <= 1 /\ 1 <= Len(b) + 1
    BY DEF Program
  <2> QED BY <2>2, <2>3, <1>2, <1>6, OwedHead
<1>7. ASSUME NEW l \in held' PROVE \E i \in 1 .. n : Owed(stack'[i], 1, l)
  <2>0. n \in 1 .. n /\ stack'[n] = r
    BY <1>1 DEF r
  <2>1. CASE Owed(s, 2, l)
    BY <2>0, <2>1, <1>6
  <2>2. CASE l \in held /\ s[1] # <<"unlock", l>>
    <3>1. PICK i \in 1 .. n : Owed(stack[i], 1, l)
      BY <2>2 DEF LInv, n
    <3>2. CASE i = n
      <4>1. Owed(s, 2, l)
        BY <3>1, <3>2, <2>2, OwedStep DEF s
      <4> QED BY <4>1, <2>1
    <3>3. CASE i # n
      <4>1. i \in 1 .. n - 1
        BY <3>3, <1>1
      <4> QED BY <4>1, <3>1, <1>1
    <3> QED BY <3>2, <3>3
  <2> QED BY <2>1, <2>2, <1>1
<1> QED BY <1>1, <1>5, <1>7 DEF LInv, n
\* A program is tidy when it unlocks what it locks at once, or after one more
\* instruction, and unlocks nothing that it calls takes after the call.
LEMMA TidyBy ==
  ASSUME NEW s, Len(s) \in Nat, NEW U, NEW m,
         \A i \in 1 .. Len(s) : s[i][1] = "lock" =>
           /\ s[i][2] \in U
           /\ \/ i + 1 <= Len(s) /\ s[i + 1] = <<"unlock", s[i][2]>>
              \/ i + 2 <= Len(s) /\ s[i + 2] = <<"unlock", s[i][2]>> /\ s[i + 1][1] # "lock",
         \A i \in 1 .. Len(s) : s[i][1] = "call" =>
           LET T == Takes(ModeAt(s, i, m))
           IN  /\ s[i][2] \in DOMAIN T /\ T[s[i][2]] \subseteq U
               /\ \A j \in i + 1 .. Len(s) : s[j][1] = "unlock" => s[j][2] \notin T[s[i][2]]
  PROVE  Tidy(s, U, m)
<1> DEFINE n == Len(s)
<1> SUFFICES ASSUME NEW i \in 1 .. n
             PROVE  /\ s[i][1] = "lock" => s[i][2] \in U /\ Owed(s, i + 1, s[i][2])
                    /\ s[i][1] = "call" => Callable(s, i, U, ModeAt(s, i, m))
  BY DEF Tidy
<1>1. n \in Nat
  OBVIOUS
<1>2. ASSUME s[i][1] = "lock" PROVE s[i][2] \in U /\ Owed(s, i + 1, s[i][2])
  <2> DEFINE l == s[i][2]
  <2>1. /\ l \in U
        /\ \/ i + 1 <= n /\ s[i + 1] = <<"unlock", l>>
           \/ i + 2 <= n /\ s[i + 2] = <<"unlock", l>> /\ s[i + 1][1] # "lock"
    BY <1>2
  <2> HIDE DEF l, n
  <2>2. CASE i + 1 <= n /\ s[i + 1] = <<"unlock", l>>
    <3>1. i + 1 \in i + 1 .. n /\ \A k \in i + 1 .. (i + 1) - 1 : FALSE
      BY <2>2, <1>1
    <3>2. Owed(s, i + 1, l)
      BY <3>1, <2>2 DEF Owed, n
    <3> QED BY <2>1, <3>2 DEF l
  <2>3. CASE i + 2 <= n /\ s[i + 2] = <<"unlock", l>> /\ s[i + 1][1] # "lock"
    <3>1. i + 2 \in i + 1 .. n /\ \A k \in i + 1 .. (i + 2) - 1 : k = i + 1
      BY <2>3, <1>1
    <3>2. s[i + 1] # <<"lock", l>>
      BY <2>3
    <3>3. Owed(s, i + 1, l)
      BY <3>1, <3>2, <2>3 DEF Owed, n
    <3> QED BY <2>1, <3>3 DEF l
  <2> QED BY <2>1, <2>2, <2>3
<1>3. ASSUME s[i][1] = "call" PROVE Callable(s, i, U, ModeAt(s, i, m))
  <2> DEFINE T == Takes(ModeAt(s, i, m))
  <2>1. /\ s[i][2] \in DOMAIN T /\ T[s[i][2]] \subseteq U
        /\ \A j \in i + 1 .. n : s[j][1] = "unlock" => s[j][2] \notin T[s[i][2]]
    BY <1>3
  <2> HIDE DEF T
  <2>2. ASSUME NEW l \in T[s[i][2]], Owed(s, i + 1, l) PROVE FALSE
    <3>1. PICK j \in i + 1 .. n : s[j] = <<"unlock", l>>
      BY <2>2 DEF Owed
    <3> QED BY <3>1, <2>1
  <2> QED BY <2>1, <2>2 DEF Callable, T
<1> QED BY <1>2, <1>3

\* The programs of the functions, instruction by instruction.
LEMMA LogIs == /\ Len(log) = 3 /\ log[1] = <<"lock", "mode">> /\ log[2] = <<"call", "sinks">>
               /\ log[3] = <<"unlock", "mode">>
BY DEF log, Locked, Call

LEMMA InitDevicesIs ==
  /\ Len(init_devices) = 3 /\ init_devices[1] = <<"lock", "device_manager">>
  /\ init_devices[2] = <<"call", "log">> /\ init_devices[3] = <<"unlock", "device_manager">>
BY DEF init_devices, Locked, Call

LEMMA AttachRuntimeIs ==
  /\ Len(attach_runtime) = 3 /\ attach_runtime[1] = <<"lock", "mode">>
  /\ attach_runtime[2] = <<"attach", "Runtime">> /\ attach_runtime[3] = <<"unlock", "mode">>
BY DEF attach_runtime, Locked

LEMMA LogAvailableDevicesIs ==
  /\ Len(log_available_devices) = 3 /\ log_available_devices[1] = <<"lock", "device_manager">>
  /\ log_available_devices[2] = <<"unlock", "device_manager">> /\ log_available_devices[3] = <<"call", "log">>
BY DEF log_available_devices, Lookup, Locked, Call

LEMMA SinksIs ==
  \/ Len(sinks) = 1 /\ sinks[1] = <<"need", "boot_sink">>
  \/ /\ Len(sinks) = 2 /\ mode = "Runtime"
     /\ sinks[1] = <<"lock", "device_manager">> /\ sinks[2] = <<"unlock", "device_manager">>
  \/ /\ Len(sinks) = 4 /\ mode = "Runtime"
     /\ sinks[1] = <<"lock", "device_manager">> /\ sinks[2] = <<"unlock", "device_manager">>
     /\ sinks[3] = <<"lock", "serial">> /\ sinks[4] = <<"unlock", "serial">>
<1> USE DEF sinks, SerialLogSink_write_str, Lookup, Locked
<1>1. CASE mode = "Runtime" /\ "serial" \in present
  BY <1>1
<1>2. CASE mode = "Runtime" /\ "serial" \notin present
  BY <1>2
<1>3. CASE mode # "Runtime"
  BY <1>3
<1> QED BY <1>1, <1>2, <1>3

LEMMA TimerIs ==
  /\ Len(timer) = 14 /\ timer[1] = <<"need", "timer">>
  /\ timer[2] = <<"lock", "device_manager">> /\ timer[3] = <<"unlock", "device_manager">>
  /\ timer[4] = <<"lock", "timer">> /\ timer[5] = <<"stop", "timer">> /\ timer[6] = <<"unlock", "timer">>
  /\ timer[7] = <<"lock", "device_manager">> /\ timer[8] = <<"unlock", "device_manager">>
  /\ timer[9] = <<"need", "serial">>
  /\ timer[10] = <<"lock", "serial">> /\ timer[11] = <<"unlock", "serial">>
  /\ timer[12] = <<"lock", "timer">> /\ timer[13] = <<"start", "timer">> /\ timer[14] = <<"unlock", "timer">>
<1> USE DEF timer, Lookup, Locked
<1>1. Len(timer) = 14
  OBVIOUS
<1>2. /\ timer[1] = <<"need", "timer">>
      /\ timer[2] = <<"lock", "device_manager">> /\ timer[3] = <<"unlock", "device_manager">>
      /\ timer[4] = <<"lock", "timer">> /\ timer[5] = <<"stop", "timer">> /\ timer[6] = <<"unlock", "timer">>
      /\ timer[7] = <<"lock", "device_manager">> /\ timer[8] = <<"unlock", "device_manager">>
  OBVIOUS
<1>3. /\ timer[9] = <<"need", "serial">>
      /\ timer[10] = <<"lock", "serial">> /\ timer[11] = <<"unlock", "serial">>
      /\ timer[12] = <<"lock", "timer">> /\ timer[13] = <<"start", "timer">> /\ timer[14] = <<"unlock", "timer">>
  OBVIOUS
<1> QED BY <1>1, <1>2, <1>3

LEMMA KernelInitIs ==
  /\ Len(kernel_init) = 5 /\ kernel_init[1] = <<"call", "init_devices">> /\ kernel_init[2] = <<"call", "log">>
  /\ kernel_init[3] = <<"call", "attach_runtime">> /\ kernel_init[4] = <<"call", "log">>
  /\ kernel_init[5] = <<"call", "log_available_devices">>
BY DEF kernel_init, Call
\* The same when the program does not change the mode.
LEMMA TidyPlain ==
  ASSUME NEW s, Len(s) \in Nat, NEW U, NEW m, \A i \in 1 .. Len(s) : ~ Attaches(s[i]),
         \A i \in 1 .. Len(s) : s[i][1] = "lock" =>
           /\ s[i][2] \in U
           /\ \/ i + 1 <= Len(s) /\ s[i + 1] = <<"unlock", s[i][2]>>
              \/ i + 2 <= Len(s) /\ s[i + 2] = <<"unlock", s[i][2]>> /\ s[i + 1][1] # "lock",
         \A i \in 1 .. Len(s) : s[i][1] = "call" =>
           /\ s[i][2] \in DOMAIN Takes(m) /\ Takes(m)[s[i][2]] \subseteq U
           /\ \A j \in i + 1 .. Len(s) : s[j][1] = "unlock" => s[j][2] \notin Takes(m)[s[i][2]]
  PROVE  Tidy(s, U, m)
<1>1. ASSUME NEW i \in 1 .. Len(s) PROVE ModeAt(s, i, m) = m
  <2>1. \A j \in 1 .. i - 1 : j \in 1 .. Len(s)
    OBVIOUS
  <2> QED BY <2>1 DEF ModeAt
<1> QED BY <1>1, TidyBy

\* What each function takes.
LEMMA TakesIs ==
  /\ DOMAIN Takes("Boot") = {"log", "sinks", "attach_runtime", "init_devices"}
  /\ Takes("Boot")["log"] = {"mode"} /\ Takes("Boot")["sinks"] = {} /\ Takes("Boot")["attach_runtime"] = {"mode"}
  /\ Takes("Boot")["init_devices"] = {"mode", "device_manager"}
  /\ DOMAIN Takes("Runtime") = {"log", "sinks", "log_available_devices", "handler"}
  /\ Takes("Runtime")["log"] = {"mode", "device_manager", "serial"}
  /\ Takes("Runtime")["sinks"] = {"device_manager", "serial"}
  /\ Takes("Runtime")["log_available_devices"] = {"mode", "device_manager", "serial"}
  /\ Takes("Runtime")["handler"] = {"mode", "device_manager", "serial", "timer"}
BY DEF Takes, BootUses, Uses

LEMMA LogTidy ==
  ASSUME NEW m \in {"Boot", "Runtime"}
  PROVE  Tidy(log, Takes(m)["log"], m) /\ \A j \in 1 .. Len(log) : ~ Attaches(log[j])
<1>1. \A i \in 1 .. 3 : i = 1 \/ i = 2 \/ i = 3
  OBVIOUS
<1>2. \A i \in 1 .. 3 : ~ Attaches(log[i])
  BY <1>1, LogIs DEF Attaches
<1>3. \A i \in 1 .. 3 : log[i][1] = "lock" =>
        /\ log[i][2] \in Takes(m)["log"]
        /\ i + 2 <= 3 /\ log[i + 2] = <<"unlock", log[i][2]>> /\ log[i + 1][1] # "lock"
  BY <1>1, LogIs, TakesIs
<1>4. \A i \in 1 .. 3 : log[i][1] = "call" =>
        /\ log[i][2] \in DOMAIN Takes(m) /\ Takes(m)[log[i][2]] \subseteq Takes(m)["log"]
        /\ \A j \in i + 1 .. 3 : log[j][1] = "unlock" => log[j][2] \notin Takes(m)[log[i][2]]
  <2>1. log[2] = <<"call", "sinks">> /\ \A j \in 3 .. 3 : log[j] = <<"unlock", "mode">>
    BY LogIs
  <2>2. "sinks" \in DOMAIN Takes(m) /\ Takes(m)["sinks"] \subseteq Takes(m)["log"] /\ "mode" \notin Takes(m)["sinks"]
    BY TakesIs
  <2>3. \A i \in 1 .. 3 : log[i][1] = "call" => i = 2
    BY <1>1, LogIs
  <2>4. \A j \in 2 + 1 .. 3 : j \in 3 .. 3
    OBVIOUS
  <2> QED BY <2>1, <2>2, <2>3, <2>4
<1>5. Len(log) = 3 /\ Len(log) \in Nat
  BY LogIs
<1> QED BY <1>2, <1>3, <1>4, <1>5, TidyPlain

LEMMA SinksTidy ==
  ASSUME NEW m \in {"Boot", "Runtime"}, m = "Boot" => mode = "Boot"
  PROVE  Tidy(sinks, Takes(m)["sinks"], m) /\ \A j \in 1 .. Len(sinks) : ~ Attaches(sinks[j])
<1> DEFINE n == Len(sinks)
<1>1. n \in {1, 2, 4} /\ (n = 1 => sinks[1] = <<"need", "boot_sink">>)
  BY SinksIs
<1>2. \A i \in 1 .. n : i = 1 \/ (n # 1 /\ i = 2) \/ (n = 4 /\ (i = 3 \/ i = 4))
  <2> HIDE DEF n
  <2> QED BY <1>1
<1>3. n # 1 => /\ m = "Runtime" /\ sinks[1] = <<"lock", "device_manager">> /\ sinks[2] = <<"unlock", "device_manager">>
               /\ n = 4 => sinks[3] = <<"lock", "serial">> /\ sinks[4] = <<"unlock", "serial">>
  BY SinksIs
<1>4. n \in Nat
  <2> HIDE DEF n
  <2> QED BY <1>1
<1> HIDE DEF n
<1>5. \A i \in 1 .. n : ~ Attaches(sinks[i]) /\ sinks[i][1] # "call"
  BY <1>1, <1>2, <1>3, <1>4 DEF Attaches
<1>6. \A i \in 1 .. n : sinks[i][1] = "lock" =>
        sinks[i][2] \in Takes(m)["sinks"] /\ i + 1 <= n /\ sinks[i + 1] = <<"unlock", sinks[i][2]>>
  <2> SUFFICES ASSUME NEW i \in 1 .. n, sinks[i][1] = "lock"
               PROVE  sinks[i][2] \in Takes(m)["sinks"] /\ i + 1 <= n /\ sinks[i + 1] = <<"unlock", sinks[i][2]>>
    OBVIOUS
  <2>1. n # 1 /\ (i = 1 \/ (n = 4 /\ i = 3))
    BY <1>1, <1>2, <1>3, <1>4
  <2>2. i + 1 <= n
    BY <2>1, <1>1, <1>4
  <2>3. "device_manager" \in Takes(m)["sinks"] /\ "serial" \in Takes(m)["sinks"]
    BY <2>1, <1>3, <1>4, TakesIs
  <2>4. CASE i = 1
    BY <2>1, <2>2, <2>3, <2>4, <1>3, <1>4
  <2>5. CASE n = 4 /\ i = 3
    BY <2>1, <2>2, <2>3, <2>5, <1>3, <1>4
  <2> QED BY <2>1, <2>4, <2>5
<1> QED BY <1>4, <1>5, <1>6, TidyPlain DEF n

LEMMA BootTidy ==
  ASSUME mode = "Boot"
  PROVE  /\ Tidy(init_devices, Takes("Boot")["init_devices"], "Boot")
         /\ \A j \in 1 .. Len(init_devices) : ~ Attaches(init_devices[j])
         /\ Tidy(attach_runtime, Takes("Boot")["attach_runtime"], "Boot")
         /\ \E j \in 1 .. Len(attach_runtime) : Attaches(attach_runtime[j])
<1>1. \A i \in 1 .. 3 : i = 1 \/ i = 2 \/ i = 3
  OBVIOUS
<1> DEFINE s == init_devices
           t == attach_runtime
<1>2. s[1] = <<"lock", "device_manager">> /\ s[2] = <<"call", "log">> /\ s[3] = <<"unlock", "device_manager">>
  BY InitDevicesIs
<1>3. t[1] = <<"lock", "mode">> /\ t[2] = <<"attach", "Runtime">> /\ t[3] = <<"unlock", "mode">>
  BY AttachRuntimeIs
<1>4. Len(s) = 3 /\ Len(t) = 3
  BY InitDevicesIs, AttachRuntimeIs
<1> HIDE DEF s, t
<1>5. \A i \in 1 .. 3 : ~ Attaches(s[i])
  BY <1>1, <1>2 DEF Attaches
<1>6. Tidy(s, Takes("Boot")["init_devices"], "Boot")
  <2>1. \A i \in 1 .. 3 : s[i][1] = "lock" =>
          /\ s[i][2] \in Takes("Boot")["init_devices"]
          /\ i + 2 <= 3 /\ s[i + 2] = <<"unlock", s[i][2]>> /\ s[i + 1][1] # "lock"
    BY <1>1, <1>2, TakesIs
  <2>2. \A i \in 1 .. 3 : s[i][1] = "call" =>
          /\ s[i][2] \in DOMAIN Takes("Boot") /\ Takes("Boot")[s[i][2]] \subseteq Takes("Boot")["init_devices"]
          /\ \A j \in i + 1 .. 3 : s[j][1] = "unlock" => s[j][2] \notin Takes("Boot")[s[i][2]]
    <3>1. \A i \in 1 .. 3 : s[i][1] = "call" => i = 2
      BY <1>1, <1>2
    <3>2. \A j \in 2 + 1 .. 3 : s[j][2] = "device_manager"
      <4>1. \A j \in 2 + 1 .. 3 : j = 3
        OBVIOUS
      <4> QED BY <4>1, <1>2
    <3>3. "log" \in DOMAIN Takes("Boot") /\ Takes("Boot")["log"] \subseteq Takes("Boot")["init_devices"]
          /\ "device_manager" \notin Takes("Boot")["log"]
      BY TakesIs
    <3> QED BY <3>1, <3>2, <3>3, <1>2
  <2>3. Len(s) \in Nat
    BY <1>4
  <2> DEFINE U == Takes("Boot")["init_devices"]
  <2> HIDE DEF U
  <2>4. Tidy(s, U, "Boot")
    BY <2>1, <2>2, <2>3, <1>4, <1>5, TidyPlain DEF U
  <2> QED BY <2>4 DEF U
<1>7. Tidy(t, Takes("Boot")["attach_runtime"], "Boot")
  <2>1. \A i \in 1 .. 3 : t[i][1] = "lock" =>
          /\ t[i][2] \in Takes("Boot")["attach_runtime"]
          /\ i + 2 <= 3 /\ t[i + 2] = <<"unlock", t[i][2]>> /\ t[i + 1][1] # "lock"
    BY <1>1, <1>3, TakesIs
  <2>2. \A i \in 1 .. 3 : t[i][1] # "call"
    BY <1>1, <1>3
  <2> QED BY <2>1, <2>2, <1>4, TidyBy
<1>8. Attaches(t[2]) /\ 2 \in 1 .. 3
  BY <1>3 DEF Attaches
<1> QED BY <1>4, <1>5, <1>6, <1>7, <1>8 DEF s, t
LEMMA RuntimeTidy ==
  /\ Tidy(log_available_devices, Takes("Runtime")["log_available_devices"], "Runtime")
  /\ \A j \in 1 .. Len(log_available_devices) : ~ Attaches(log_available_devices[j])
  /\ Tidy(handler, Takes("Runtime")["handler"], "Runtime")
  /\ \A j \in 1 .. Len(handler) : ~ Attaches(handler[j])
  /\ Tidy(dispatch, Locks, "Runtime")
<1>1. /\ Tidy(log_available_devices, Takes("Runtime")["log_available_devices"], "Runtime")
      /\ \A j \in 1 .. Len(log_available_devices) : ~ Attaches(log_available_devices[j])
  <2> DEFINE s == log_available_devices
             U == Takes("Runtime")["log_available_devices"]
  <2>1. s[1] = <<"lock", "device_manager">> /\ s[2] = <<"unlock", "device_manager">> /\ s[3] = <<"call", "log">>
    BY LogAvailableDevicesIs
  <2>2. Len(s) = 3 /\ Len(s) \in Nat
    BY LogAvailableDevicesIs
  <2>3. "device_manager" \in U /\ "log" \in DOMAIN Takes("Runtime") /\ Takes("Runtime")["log"] \subseteq U
    BY TakesIs
  <2> HIDE DEF s, U
  <2>4. \A i \in 1 .. 3 : i = 1 \/ i = 2 \/ i = 3
    OBVIOUS
  <2>5. \A i \in 1 .. 3 : ~ Attaches(s[i])
    BY <2>1, <2>4 DEF Attaches
  <2>6. \A i \in 1 .. 3 : s[i][1] = "lock" =>
          s[i][2] \in U /\ i + 1 <= 3 /\ s[i + 1] = <<"unlock", s[i][2]>>
    BY <2>1, <2>3, <2>4
  <2>7. \A i \in 1 .. 3 : s[i][1] = "call" =>
          /\ s[i][2] \in DOMAIN Takes("Runtime") /\ Takes("Runtime")[s[i][2]] \subseteq U
          /\ \A j \in i + 1 .. 3 : s[j][1] = "unlock" => s[j][2] \notin Takes("Runtime")[s[i][2]]
    <3>1. \A i \in 1 .. 3 : s[i][1] = "call" => i = 3
      BY <2>1, <2>4
    <3>2. \A j \in 3 + 1 .. 3 : FALSE
      OBVIOUS
    <3> QED BY <3>1, <3>2, <2>1, <2>3
  <2>8. Tidy(s, U, "Runtime")
    BY <2>2, <2>5, <2>6, <2>7, TidyPlain
  <2> QED BY <2>2, <2>5, <2>8 DEF s, U
<1> DEFINE U == Takes("Runtime")["handler"]
<1>2. /\ "device_manager" \in U /\ "serial" \in U /\ "timer" \in U
      /\ "log" \in DOMAIN Takes("Runtime") /\ Takes("Runtime")["log"] \subseteq U
  BY TakesIs
<1> HIDE DEF U
<1>3. Tidy(timer, U, "Runtime") /\ \A j \in 1 .. Len(timer) : ~ Attaches(timer[j])
  <2>1. Len(timer) = 14 /\ Len(timer) \in Nat
    BY TimerIs
  <2>2. \A i \in 1 .. 14 : \/ i = 1 \/ i = 2 \/ i = 3 \/ i = 4 \/ i = 5 \/ i = 6 \/ i = 7
                           \/ i = 8 \/ i = 9 \/ i = 10 \/ i = 11 \/ i = 12 \/ i = 13 \/ i = 14
    OBVIOUS
  <2>3. \A i \in 1 .. 14 : ~ Attaches(timer[i]) /\ timer[i][1] # "call"
    BY <2>2, TimerIs DEF Attaches
  <2>4. \A i \in 1 .. 14 : timer[i][1] = "lock" => i \in {2, 4, 7, 10, 12}
    BY <2>2, TimerIs
  <2>5. ASSUME NEW i \in {2, 4, 7, 10, 12}
        PROVE  /\ timer[i][2] \in U
               /\ \/ i + 1 <= 14 /\ timer[i + 1] = <<"unlock", timer[i][2]>>
                  \/ i + 2 <= 14 /\ timer[i + 2] = <<"unlock", timer[i][2]>> /\ timer[i + 1][1] # "lock"
    <3>1. CASE i = 2 \/ i = 7
      BY <3>1, <1>2, TimerIs
    <3>2. CASE i = 4 \/ i = 12
      BY <3>2, <1>2, TimerIs
    <3>3. CASE i = 10
      BY <3>3, <1>2, TimerIs
    <3> QED BY <3>1, <3>2, <3>3
  <2>6. \A i \in 1 .. Len(timer) : timer[i][1] = "lock" =>
          /\ timer[i][2] \in U
          /\ \/ i + 1 <= Len(timer) /\ timer[i + 1] = <<"unlock", timer[i][2]>>
             \/ i + 2 <= Len(timer) /\ timer[i + 2] = <<"unlock", timer[i][2]>> /\ timer[i + 1][1] # "lock"
    BY <2>1, <2>4, <2>5
  <2>7. \A i \in 1 .. Len(timer) : ~ Attaches(timer[i]) /\ timer[i][1] # "call"
    BY <2>1, <2>3
  <2> DEFINE s == timer
  <2> HIDE DEF s
  <2>8. Tidy(s, U, "Runtime")
    BY <2>1, <2>6, <2>7, TidyPlain DEF s
  <2> QED BY <2>7, <2>8 DEF s
<1>4. Tidy(Call("log"), U, "Runtime") /\ \A j \in 1 .. Len(Call("log")) : ~ Attaches(Call("log")[j])
  <2> DEFINE s == Call("log")
  <2>1. Len(s) = 1 /\ Len(s) \in Nat /\ s[1] = <<"call", "log">>
    BY DEF Call
  <2> HIDE DEF s
  <2>2. \A i \in 1 .. 1 : i = 1
    OBVIOUS
  <2>3. \A i \in 1 .. 1 : ~ Attaches(s[i]) /\ s[i][1] # "lock"
    BY <2>1, <2>2 DEF Attaches
  <2>4. \A i \in 1 .. 1 : s[i][1] = "call" =>
          /\ s[i][2] \in DOMAIN Takes("Runtime") /\ Takes("Runtime")[s[i][2]] \subseteq U
          /\ \A j \in i + 1 .. 1 : s[j][1] = "unlock" => s[j][2] \notin Takes("Runtime")[s[i][2]]
    <3>1. \A j \in 1 + 1 .. 1 : FALSE
      OBVIOUS
    <3> QED BY <3>1, <2>1, <2>2, <1>2
  <2>5. Tidy(s, U, "Runtime")
    BY <2>1, <2>3, <2>4, TidyPlain
  <2> QED BY <2>1, <2>3, <2>5 DEF s
<1>5. Tidy(handler, U, "Runtime") /\ \A j \in 1 .. Len(handler) : ~ Attaches(handler[j])
  <2>1. handler \in {Call("log"), timer, <<>>}
    BY DEF handler
  <2> QED BY <2>1, <1>3, <1>4, TidyEmpty
<1>6. Tidy(dispatch, Locks, "Runtime")
  <2> DEFINE s == dispatch
  <2>1. Len(s) = 12 /\ Len(s) \in Nat
    BY DispatchIs
  <2>2. \A i \in 1 .. 12 : \/ i = 1 \/ i = 2 \/ i = 3 \/ i = 4 \/ i = 5 \/ i = 6
                           \/ i = 7 \/ i = 8 \/ i = 9 \/ i = 10 \/ i = 11 \/ i = 12
    OBVIOUS
  <2>3. \A i \in 1 .. 12 : ~ Attaches(s[i])
    BY <2>2, DispatchIs DEF Attaches
  <2>4. \A i \in 1 .. 12 : s[i][1] = "lock" => i \in {1, 4, 10}
    BY <2>2, DispatchIs
  <2>5. ASSUME NEW i \in {1, 4, 10}
        PROVE  /\ s[i][2] \in Locks
               /\ \/ i + 1 <= 12 /\ s[i + 1] = <<"unlock", s[i][2]>>
                  \/ i + 2 <= 12 /\ s[i + 2] = <<"unlock", s[i][2]>> /\ s[i + 1][1] # "lock"
    <3>1. CASE i = 1
      BY <3>1, DispatchIs DEF Locks
    <3>2. CASE i = 4 \/ i = 10
      BY <3>2, DispatchIs DEF Locks
    <3> QED BY <3>1, <3>2
  <2>6. \A i \in 1 .. 12 : s[i][1] = "call" => i = 8 /\ s[i][2] = "handler"
    BY <2>2, DispatchIs
  <2>7. "handler" \in DOMAIN Takes("Runtime") /\ Takes("Runtime")["handler"] \subseteq Locks
    BY TakesIs DEF Locks
  <2>8. \A j \in 8 + 1 .. 12 : s[j][1] = "unlock" => s[j][2] \notin Takes("Runtime")["handler"]
    <3>1. \A j \in 8 + 1 .. 12 : j = 9 \/ j = 10 \/ j = 11 \/ j = 12
      OBVIOUS
    <3>2. "intc" \notin Takes("Runtime")["handler"]
      BY TakesIs
    <3> QED BY <3>1, <3>2, DispatchIs
  <2> HIDE DEF s
  <2>10. \A i \in 1 .. Len(s) : s[i][1] = "lock" =>
           /\ s[i][2] \in Locks
           /\ \/ i + 1 <= Len(s) /\ s[i + 1] = <<"unlock", s[i][2]>>
              \/ i + 2 <= Len(s) /\ s[i + 2] = <<"unlock", s[i][2]>> /\ s[i + 1][1] # "lock"
    BY <2>1, <2>4, <2>5
  <2>11. \A i \in 1 .. Len(s) : s[i][1] = "call" =>
           /\ s[i][2] \in DOMAIN Takes("Runtime") /\ Takes("Runtime")[s[i][2]] \subseteq Locks
           /\ \A j \in i + 1 .. Len(s) : s[j][1] = "unlock" => s[j][2] \notin Takes("Runtime")[s[i][2]]
    BY <2>1, <2>6, <2>7, <2>8
  <2>9. Tidy(s, Locks, "Runtime")
    BY <2>1, <2>3, <2>10, <2>11, TidyPlain
  <2> QED BY <2>9 DEF s
<1> QED BY <1>1, <1>5, <1>6 DEF U

\* What the kernel calls takes the locks it is said to take, and only
\* attach_runtime changes the logger's mode.
LEMMA BodyTidy ==
  ASSUME NEW m \in {"Boot", "Runtime"}, m = "Boot" => mode = "Boot", NEW f \in DOMAIN Takes(m)
  PROVE  /\ Tidy(Body[f], Takes(m)[f], m) /\ Takes(m)[f] \in SUBSET Locks
         /\ (\E j \in 1 .. Len(Body[f]) : Attaches(Body[f][j])) <=> f = "attach_runtime"
<1>1. Takes(m)[f] \in SUBSET Locks
  BY TakesIs DEF Locks
<1>2. /\ Body["log"] = log /\ Body["sinks"] = sinks /\ Body["init_devices"] = init_devices
      /\ Body["attach_runtime"] = attach_runtime /\ Body["log_available_devices"] = log_available_devices
      /\ Body["handler"] = handler
  BY DEF Body
<1>3. CASE f = "log"
  BY <1>1, <1>2, <1>3, LogTidy
<1>4. CASE f = "sinks"
  BY <1>1, <1>2, <1>4, SinksTidy
<1>5. CASE m = "Boot" /\ f \in {"init_devices", "attach_runtime"}
  BY <1>1, <1>2, <1>5, BootTidy
<1>6. CASE m = "Runtime" /\ f \in {"log_available_devices", "handler"}
  BY <1>1, <1>2, <1>6, RuntimeTidy
<1> QED BY <1>3, <1>4, <1>5, <1>6, TakesIs
\* An instruction that neither calls, attaches nor unlocks, and takes a lock only
\* when it is free.
LEMMA SimpleLockStep ==
  ASSUME NInv, LInv, Running # <<>>, Continue(<<>>), ~ Attaches(Running[1]), mode' = mode,
         \A l \in held' : \/ l \in held /\ Running[1] # <<"unlock", l>>
                          \/ Owed(Running, 2, l)
  PROVE  LInv'
<1> DEFINE mm == IF Len(stack) = 1 THEN mode' ELSE "Runtime"
<1>1. Tidy(<<>>, {}, mm) /\ \A j \in 1 .. Len(<<>>) : ~ Attaches(<<>>[j])
  BY TidyEmpty
<1>2. mode' \in {"Boot", "Runtime"}
  BY DEF LInv
<1> HIDE DEF mm
<1> QED BY <1>1, <1>2, Empty, LockStep DEF mm

LEMMA RunningTidy ==
  ASSUME NInv, LInv, Running # <<>>
  PROVE  /\ Running[1] \in Instr
         /\ Running[1][1] = "lock" => Owed(Running, 2, Arg)
         /\ Running[1][1] = "call" => Callable(Running, 1, Locks, ModeOf(Len(stack)))
<1> DEFINE n == Len(stack)
           s == stack[n]
<1>1. n \in Nat /\ n >= 1 /\ s \in Program /\ Running = s
  BY DEF NInv, TypeOK, Running
<1>2. Tidy(s, Locks, ModeOf(n))
  BY <1>1 DEF LInv
<1>3. 1 \in 1 .. Len(s) /\ s[1] \in Instr
  BY <1>1 DEF Program
<1>4. ModeAt(s, 1, ModeOf(n)) = ModeOf(n)
  <2>1. \A j \in 1 .. 1 - 1 : FALSE
    OBVIOUS
  <2> QED BY <2>1 DEF ModeAt
<1> HIDE DEF n, s
<1>5. /\ s[1][1] = "lock" => Owed(s, 1 + 1, s[1][2])
      /\ s[1][1] = "call" => Callable(s, 1, Locks, ModeOf(n))
  BY <1>2, <1>3, <1>4 DEF Tidy
<1>6. 1 + 1 = 2
  OBVIOUS
<1> QED BY <1>1, <1>3, <1>5, <1>6 DEF n, Arg

LEMMA LocksKept ==
  ASSUME NInv, LInv, Step
  PROVE  LInv'
<1>0. /\ TypeOK /\ Nesting /\ mode \in {"Boot", "Runtime"}
      /\ \A i \in 1 .. Len(stack) : Tidy(stack[i], Locks, ModeOf(i))
      /\ \A l \in held : \E i \in 1 .. Len(stack) : Owed(stack[i], 1, l)
  BY DEF NInv, LInv
<1>1. CASE call
  <2>1. Running # <<>> /\ Running[1][1] = "call" /\ Continue(Body[Arg]) /\ mode' = mode /\ held' = held
    BY <1>1 DEF call, At
  <2> DEFINE m == ModeOf(Len(stack))
             b == Body[Arg]
             V == Takes(m)[Arg]
  <2>2. m \in {"Boot", "Runtime"} /\ (m = "Boot" => mode = "Boot") /\ m = IF Len(stack) = 1 THEN mode' ELSE "Runtime"
    BY <2>1, <1>0 DEF ModeOf
  <2>3. Callable(Running, 1, Locks, m) /\ Running[1] \in Instr
    BY <2>1, RunningTidy
  <2>4. Arg \in DOMAIN Takes(m) /\ \A l \in V : ~ Owed(Running, 2, l)
    <3>1. 1 + 1 = 2
      OBVIOUS
    <3> QED BY <2>3, <3>1 DEF Callable, Arg
  <2>5. Running[1] = <<"call", Arg>> /\ Arg \in Callees
    BY <2>1, <2>3 DEF Arg, Instr
  <2>6. b \in Program
    BY <2>5, BodyTyped
  <2>7. /\ Tidy(b, V, m) /\ V \in SUBSET Locks
        /\ (\E j \in 1 .. Len(b) : Attaches(b[j])) <=> Arg = "attach_runtime"
    BY <2>2, <2>4, BodyTidy
  <2>8. Attaches(Running[1]) <=> Arg = "attach_runtime"
    BY <2>5 DEF Attaches
  <2>9. \A l : Running[1] # <<"unlock", l>>
    BY <2>5
  <2>10. Continue(b)
    BY <2>1
  <2> HIDE DEF b, V, m
  <2> QED BY <2>1, <2>2, <2>4, <2>6, <2>7, <2>8, <2>9, <2>10, <1>0, LockStep
<1>2. CASE lock
  <2>1. /\ Running # <<>> /\ Running[1][1] = "lock" /\ Continue(<<>>) /\ mode' = mode
        /\ held' = held \cup {Arg}
    BY <1>2 DEF lock, At
  <2>2. Owed(Running, 2, Arg) /\ ~ Attaches(Running[1]) /\ \A l : Running[1] # <<"unlock", l>>
    BY <2>1, RunningTidy DEF Attaches
  <2> QED BY <2>1, <2>2, SimpleLockStep
<1>3. CASE unlock
  <2>1. /\ Running # <<>> /\ Running[1][1] = "unlock" /\ Continue(<<>>) /\ mode' = mode
        /\ held' = held \ {Arg}
    BY <1>3 DEF unlock, At
  <2>2. ~ Attaches(Running[1]) /\ \A l : Running[1] = <<"unlock", l>> => l = Arg
    BY <2>1 DEF Attaches, Arg
  <2> QED BY <2>1, <2>2, SimpleLockStep
<1>4. CASE need
  <2>1. CASE Arg \in present
    <3>1. /\ Running # <<>> /\ Running[1][1] = "need" /\ Continue(<<>>) /\ mode' = mode /\ held' = held
      BY <1>4, <2>1 DEF need, At
    <3>2. ~ Attaches(Running[1]) /\ \A l : Running[1] # <<"unlock", l>>
      BY <3>1 DEF Attaches
    <3> QED BY <3>1, <3>2, SimpleLockStep
  <2>2. CASE Arg \notin present
    <3>1. UNCHANGED <<stack, held, mode>>
      BY <1>4, <2>2 DEF need
    <3> QED BY <3>1 DEF LInv, ModeOf
  <2> QED BY <2>1, <2>2
<1>5. CASE attach
  <2>1. /\ Running # <<>> /\ Running[1][1] = "attach" /\ Continue(<<>>) /\ mode' = Arg /\ held' = held
    BY <1>5 DEF attach, At
  <2>2. Running[1] = <<"attach", "Runtime">>
    BY <2>1, RunningTidy DEF Instr
  <2>3. mode' = "Runtime" /\ Attaches(Running[1]) /\ \A l : Running[1] # <<"unlock", l>>
    BY <2>1, <2>2 DEF Arg, Attaches
  <2>4. Tidy(<<>>, {}, "Runtime")
    BY TidyEmpty
  <2>5. "Runtime" = IF Len(stack) = 1 THEN mode' ELSE "Runtime"
    BY <2>3
  <2> QED BY <2>1, <2>3, <2>4, <2>5, Empty, LockStep
<1>6. CASE interrupt_flag \/ interrupt_line \/ timer_device
  <2>1. /\ Running # <<>> /\ Continue(<<>>) /\ mode' = mode /\ held' = held
        /\ Running[1][1] \in {"enable", "disable", "mask", "unmask", "stop", "start"}
    BY <1>6 DEF interrupt_flag, interrupt_line, timer_device, At
  <2>2. ~ Attaches(Running[1]) /\ \A l : Running[1] # <<"unlock", l>>
    BY <2>1 DEF Attaches
  <2> QED BY <2>1, <2>2, SimpleLockStep
<1>7. CASE irq_entry
  <2> DEFINE n == Len(stack)
  <2>1. n \in Nat /\ n >= 1 /\ stack \in Seq(Program)
    BY <1>0 DEF TypeOK
  <2>2. stack' = Append(stack, dispatch) /\ mode' = mode /\ held' = held
    BY <1>7 DEF irq_entry
  <2> HIDE DEF n
  <2>3. Len(stack') = n + 1 /\ stack'[n + 1] = dispatch /\ \A i \in 1 .. n : stack'[i] = stack[i]
    BY <2>1, <2>2, DispatchIs DEF n
  <2>4. ASSUME NEW i \in 1 .. n + 1 PROVE Tidy(stack'[i], Locks, ModeOf(i)')
    <3>1. CASE i = n + 1
      <4>1. ModeOf(i)' = "Runtime"
        BY <3>1, <2>1 DEF ModeOf
      <4> QED BY <3>1, <4>1, <2>3, RuntimeTidy
    <3>2. CASE i # n + 1
      <4>1. i \in 1 .. n
        BY <3>2, <2>1
      <4>2. ModeOf(i)' = ModeOf(i)
        BY <2>2 DEF ModeOf
      <4> QED BY <4>1, <4>2, <2>3, <1>0 DEF n
    <3> QED BY <3>1, <3>2
  <2>5. ASSUME NEW l \in held' PROVE \E i \in 1 .. n + 1 : Owed(stack'[i], 1, l)
    <3>1. PICK i \in 1 .. n : Owed(stack[i], 1, l)
      BY <2>2, <2>5, <1>0 DEF n
    <3>2. i \in 1 .. n + 1
      BY <2>1
    <3> QED BY <3>1, <3>2, <2>3
  <2> QED BY <2>2, <2>3, <2>4, <2>5, <1>0 DEF LInv
<1>8. CASE irq_return
  <2> DEFINE n == Len(stack)
  <2>1. n \in Nat /\ n > 1 /\ stack \in Seq(Program) /\ stack[n] = <<>>
    BY <1>0, <1>8 DEF TypeOK, irq_return, Running
  <2>2. stack' = SubSeq(stack, 1, n - 1) /\ mode' = mode /\ held' = held
    BY <1>8 DEF irq_return
  <2> HIDE DEF n
  <2>3. 1 .. n - 1 \subseteq 1 .. n /\ n - 1 \in Nat
    BY <2>1
  <2>4. Len(stack') = n - 1 /\ \A i \in 1 .. n - 1 : stack'[i] = stack[i]
    BY <2>1, <2>2, <2>3 DEF n
  <2>5. ASSUME NEW i \in 1 .. n - 1 PROVE Tidy(stack'[i], Locks, ModeOf(i)')
    <3>1. ModeOf(i)' = ModeOf(i)
      BY <2>2 DEF ModeOf
    <3> QED BY <3>1, <2>3, <2>4, <1>0 DEF n
  <2>6. ASSUME NEW l \in held' PROVE \E i \in 1 .. n - 1 : Owed(stack'[i], 1, l)
    <3>1. PICK i \in 1 .. n : Owed(stack[i], 1, l)
      BY <2>2, <2>6, <1>0 DEF n
    <3>2. i # n
      BY <3>1, <2>1, TidyEmpty
    <3>3. i \in 1 .. n - 1
      BY <3>2, <2>1
    <3> QED BY <3>1, <3>3, <2>4
  <2> QED BY <2>2, <2>4, <2>5, <2>6, <1>0 DEF LInv
<1> QED BY <1>1, <1>2, <1>3, <1>4, <1>5, <1>6, <1>7, <1>8 DEF Step

LEMMA LocksNext ==
  ASSUME NInv, LInv, [Next]_vars
  PROVE  LInv'
<1>1. CASE Step
  BY <1>1, LocksKept
<1>2. CASE ~ Step
  <2>1. UNCHANGED <<stack, held, mode>>
    BY <1>2 DEF Next, spin, loop, timer_fires, device_fires, vars
  <2> QED BY <2>1 DEF LInv, ModeOf
<1> QED BY <1>1, <1>2

\* kernel_init calls what it calls with no lock held, and the runtime sinks are
\* attached when it logs the devices.
LEMMA LocksInit ==
  ASSUME Init, "kernel_main" \notin Starts
  PROVE  LInv
<1>1. PICK s \in Starts :
        /\ stack = <<CASE s = "kernel_init" -> kernel_init
                       [] s = "kernel_main" -> kernel_main
                       [] s = "main_loop" -> <<>>>>
        /\ mode = IF s = "kernel_init" THEN "Boot" ELSE "Runtime"
        /\ held = {}
  BY DEF Init
<1>2. s = "kernel_init" \/ s = "main_loop"
  BY LineAssumption
<1>3. Tidy(kernel_init, Locks, "Boot")
  <2> DEFINE k == kernel_init
  <2>1. Len(k) = 5 /\ Len(k) \in Nat
    BY KernelInitIs
  <2>2. \A i \in 1 .. 5 : i = 1 \/ i = 2 \/ i = 3 \/ i = 4 \/ i = 5
    OBVIOUS
  <2>3. \A i \in 1 .. 5 : k[i][1] # "lock" /\ k[i][1] # "unlock"
    BY <2>2, KernelInitIs
  <2>4. /\ k[1] = <<"call", "init_devices">> /\ k[2] = <<"call", "log">> /\ k[3] = <<"call", "attach_runtime">>
        /\ k[4] = <<"call", "log">> /\ k[5] = <<"call", "log_available_devices">>
    BY KernelInitIs
  <2> HIDE DEF k
  <2>5. ASSUME NEW i \in {1, 2, 3} PROVE ModeAt(k, i, "Boot") = "Boot"
    <3>1. \A j \in 1 .. i - 1 : j = 1 \/ j = 2
      OBVIOUS
    <3>2. ~ Attaches(k[1]) /\ ~ Attaches(k[2])
      BY <2>4 DEF Attaches
    <3> QED BY <3>1, <3>2 DEF ModeAt
  <2>6. ASSUME NEW i \in {4, 5} PROVE ModeAt(k, i, "Boot") = "Runtime"
    <3>1. 3 \in 1 .. i - 1
      OBVIOUS
    <3>2. Attaches(k[3])
      BY <2>4 DEF Attaches
    <3> QED BY <3>1, <3>2 DEF ModeAt
  <2>7. ASSUME NEW i \in 1 .. 5
        PROVE  LET T == Takes(ModeAt(k, i, "Boot")) IN k[i][2] \in DOMAIN T /\ T[k[i][2]] \subseteq Locks
    <3>1. CASE i \in {1, 2, 3}
      <4>1. ModeAt(k, i, "Boot") = "Boot"
        BY <3>1, <2>5
      <4>2. k[i][2] \in DOMAIN Takes("Boot") /\ Takes("Boot")[k[i][2]] \subseteq Locks
        BY <3>1, <2>4, TakesIs DEF Locks
      <4> QED BY <4>1, <4>2
    <3>2. CASE i \in {4, 5}
      <4>1. ModeAt(k, i, "Boot") = "Runtime"
        BY <3>2, <2>6
      <4>2. k[i][2] \in DOMAIN Takes("Runtime") /\ Takes("Runtime")[k[i][2]] \subseteq Locks
        BY <3>2, <2>4, TakesIs DEF Locks
      <4> QED BY <4>1, <4>2
    <3> QED BY <3>1, <3>2, <2>2
  <2>8. \A i \in 1 .. 5 : \A j \in i + 1 .. 5 : k[j][1] # "unlock"
    <3>1. \A i \in 1 .. 5 : \A j \in i + 1 .. 5 : j \in 1 .. 5
      OBVIOUS
    <3> QED BY <3>1, <2>3
  <2>9. Tidy(k, Locks, "Boot")
    BY <2>1, <2>3, <2>7, <2>8, TidyBy
  <2> QED BY <2>9 DEF k
<1>4. PICK p : stack = <<p>> /\ Tidy(p, Locks, mode) /\ mode \in {"Boot", "Runtime"}
  <2>1. CASE s = "kernel_init"
    BY <2>1, <1>1, <1>3
  <2>2. CASE s = "main_loop"
    <3>1. stack = <<<<>>>> /\ mode = "Runtime"
      BY <2>2, <1>1
    <3> QED BY <3>1, TidyEmpty
  <2> QED BY <1>2, <2>1, <2>2
<1>5. Len(stack) = 1 /\ stack[1] = p /\ \A i \in 1 .. 1 : i = 1
  <2>1. stack = <<p>>
    BY <1>4
  <2> QED BY <2>1
<1>6. held = {}
  BY <1>1
<1> QED BY <1>4, <1>5, <1>6 DEF LInv, ModeOf

LEMMA LockInvariance ==
  ASSUME "kernel_main" \notin Starts
  PROVE  Spec => [](NInv /\ LInv)
<1>1. Init => NInv /\ LInv
  BY NestInit, LocksInit
<1>2. NInv /\ LInv /\ [Next]_vars => NInv' /\ LInv'
  BY NestNext, LocksNext
<1> QED BY <1>1, <1>2, PTL DEF Spec

\* From boot to the idle loop, neither the main context nor a handler that
\* interrupts it waits for a lock, which with one CPU would be for ever: whoever
\* holds a lock has still to release it before it takes it again, calls nothing
\* that takes it, and is not interrupted, since only the idle loop and handlers
\* are.  Without kernel_main among the starts: it logs the devices with the
\* manager locked.
THEOREM NoContextWaits ==
  ASSUME "kernel_main" \notin Starts
  PROVE  Spec => []NoSelfDeadlock
<1>1. NInv /\ LInv => NoSelfDeadlock
  <2> SUFFICES ASSUME NInv, LInv, Stuck, ~ (Len(stack) > 2) PROVE FALSE
    BY DEF NoSelfDeadlock, Nested
  <2> DEFINE n == Len(stack)
  <2>1. n \in Nat /\ n >= 1 /\ Running = stack[n]
    BY DEF NInv, TypeOK, Running
  <2>2. Running # <<>> /\ Running[1][1] = "lock" /\ Arg \in held
    BY DEF Stuck, At
  <2>3. Running[1] = <<"lock", Arg>>
    BY <2>2, RunningTidy DEF Arg, Instr
  <2>4. PICK i \in 1 .. n : Owed(stack[i], 1, Arg)
    BY <2>2 DEF LInv
  <2>5. ~ Owed(Running, 1, Arg)
    <3> SUFFICES ASSUME NEW j \in 1 .. Len(Running), Running[j] = <<"unlock", Arg>>,
                        \A k \in 1 .. j - 1 : Running[k] # <<"lock", Arg>>
                 PROVE  FALSE
      BY DEF Owed
    <3>1. j # 1
      BY <2>3
    <3>2. 1 \in 1 .. j - 1
      BY <3>1
    <3> QED BY <3>2, <2>3
  <2> HIDE DEF n
  <2>6. i # n
    BY <2>1, <2>4, <2>5
  <2>7. i = 1 /\ n > 1
    BY <2>1, <2>6 DEF n
  <2>8. stack[1] = <<>>
    BY <2>7 DEF NInv, Nesting, n
  <2> QED BY <2>4, <2>7, <2>8, TidyEmpty
<1> QED BY <1>1, LockInvariance, PTL
=============================================================================
