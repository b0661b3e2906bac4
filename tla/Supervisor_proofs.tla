------------------------- MODULE Supervisor_proofs -------------------------
(***************************************************************************)
(* Theorems about Supervisor, for any services and any number of signals,  *)
(* midnights, crashes and failures.                                        *)
(***************************************************************************)
EXTENDS Supervisor, SequenceTheorems, TLAPS

Shape == [fn : {"main", "restart"}, at : MainSteps \cup RestartSteps, i : Nat \ {0},
          gen : Nat]

Typed == /\ proc \in [Gens -> [Kinds -> States]]
         /\ built \in Nat
         /\ stack \in Seq(Shape) /\ Len(stack) > 0

\* Main's frame is the first; the others are restarts.
Frames == \A i \in 1..Len(stack) :
            IF i = 1 THEN stack[i].fn = "main" /\ stack[i].at \in MainSteps
            ELSE stack[i].fn = "restart" /\ stack[i].at \in RestartSteps

\* A restart is past the lock.
Inside(i) == i # 1 /\ stack[i].at # "acquire"

\* One restart is past the lock, and holds it.
Locked == /\ \A i \in 1..Len(stack) : Inside(i) => lock
          /\ \A i, j \in 1..Len(stack) : Inside(i) /\ Inside(j) => i = j

\* Nothing lives that ends in time.
NoneLives == \A g \in Gens, k \in Kinds \ Slow : ~Alive(g, k)

\* A restart that is about to set up has joined the old processes.
Cleared == \A i \in 1..Len(stack) :
             i # 1 /\ stack[i].at \in {"clear", "setup"} => NoneLives

\* Before the first set-up there is no web process to ask for a restart.
Fresh == stack[1].at = "setup" =>
           /\ Len(stack) = 1 /\ ~usr /\ services = 0
           /\ \A g \in Gens, k \in Kinds : proc[g][k] = "none"

\* Only processes of the present generation live, but for the slow ones.
Present == \A g \in Gens, k \in Kinds \ Slow : Alive(g, k) => g = services

Inv == Typed /\ Frames /\ Locked /\ Cleared /\ Fresh /\ Present

----------------------------------------------------------------------------
(* What the operators do to the stack and the processes *)

\* The top frame goes on to `at'.
TopMoves(at) ==
  /\ stack' \in Seq(Shape) /\ Len(stack') = Len(stack)
  /\ stack'[Len(stack)].fn = Top.fn /\ stack'[Len(stack)].at = at
  /\ \A i \in 1..(Len(stack) - 1) : stack'[i] = stack[i]

\* Goto and Enter move the top frame alone.
LEMMA Moved ==
  ASSUME Typed, NEW at \in MainSteps \cup RestartSteps,
         Goto(at) \/ (\E g \in Nat : Enter(at, g))
  PROVE  TopMoves(at)
<1>1. Top \in Shape
  BY DEF Top, Typed
<1>2. CASE Goto(at)
  <2> DEFINE f == [Top EXCEPT !.at = at]
  <2>1. f \in Shape /\ f.fn = Top.fn /\ f.at = at
    BY <1>1 DEF Shape
  <2>2. stack' = [stack EXCEPT ![Len(stack)] = f]
    BY <1>2 DEF Goto, Top
  <2> HIDE DEF f
  <2> QED
    BY <2>1, <2>2 DEF TopMoves, Typed
<1>3. CASE \E g \in Nat : Enter(at, g)
  BY <1>1, <1>3 DEF TopMoves, Enter, Typed, Shape, Top
<1> QED
  BY <1>2, <1>3

\* A call puts a restart that waits for the lock on top.
LEMMA Called ==
  ASSUME NEW s \in Seq(Shape), stack' = Append(s, Call)
  PROVE  /\ stack' \in Seq(Shape) /\ Len(stack') = Len(s) + 1
         /\ stack'[Len(s) + 1] = Call
         /\ \A i \in 1..Len(s) : stack'[i] = s[i]
<1>1. Call \in Shape
  BY DEF Call, Shape, RestartSteps
<1> HIDE DEF Call
<1> QED
  BY <1>1

\* An exception leaves main's frame, on its way out.
LEMMA Raised ==
  ASSUME Typed, Frames, Raise
  PROVE  /\ stack' \in Seq(Shape) /\ Len(stack') = 1
         /\ stack'[1].fn = "main" /\ stack'[1].at \in {"stop", "exit"}
<1>1. stack[1] \in Shape /\ stack[1].fn = "main"
  BY DEF Typed, Frames
<1>2. PICK at \in {"stop", "exit"} : stack' = <<[stack[1] EXCEPT !.at = at]>>
  BY DEF Raise
<1> DEFINE f == [stack[1] EXCEPT !.at = at]
<1>3. f \in Shape /\ f.fn = "main" /\ f.at = at
  BY <1>1, <1>2 DEF Shape, MainSteps
<1>4. stack' = <<f>>
  BY <1>2
<1> HIDE DEF f
<1> QED
  BY <1>3, <1>4

\* No process comes to life; none is made.
NoneStarts == /\ proc' \in [Gens -> [Kinds -> States]]
              /\ \A g \in Gens, k \in Kinds : Alive(g, k)' => Alive(g, k)
NoneMade == \A g \in Gens, k \in Kinds : proc[g][k] = "none" => proc'[g][k] = "none"

\* A kill starts nothing.
LEMMA Killed == ASSUME Typed, NEW g, proc' = KillsOf(g) PROVE NoneStarts /\ NoneMade
  BY DEF Typed, KillsOf, Terminated, NoneStarts, NoneMade, Alive, States

----------------------------------------------------------------------------
(* The steps *)

\* At first main is about to set up.
LEMMA InitInv == Init => Inv
<1> SUFFICES ASSUME Init PROVE Inv
  OBVIOUS
<1> DEFINE m == [fn |-> "main", at |-> "setup", i |-> 1, gen |-> 0]
<1>1. m \in Shape /\ m.fn = "main" /\ m.at = "setup"
  BY DEF Shape, MainSteps
<1>2. stack = <<m>>
  BY DEF Init
<1> HIDE DEF m
<1>3. stack \in Seq(Shape) /\ Len(stack) = 1 /\ stack[1] = m
  BY <1>1, <1>2
<1> QED
  BY <1>1, <1>3 DEF Init, Inv, Typed, Frames, Locked, Inside, Cleared, Fresh, Present,
     NoneLives, Alive, States, MainSteps

\* The stack stays and nothing starts.
LEMMA StackKept ==
  ASSUME Inv, UNCHANGED <<stack, services, built, lock>>, NoneStarts, NoneMade,
         usr' => usr \/ \E g \in Gens, k \in Kinds : Alive(g, k)
  PROVE  Inv'
  BY DEF Inv, Typed, Frames, Locked, Inside, Cleared, Fresh, Present, NoneLives,
     NoneStarts, NoneMade, Alive

\* The top frame goes on; a new generation is present only when none lives, and
\* what starts is of the present one.
LEMMA TopMoved ==
  ASSUME Inv, NEW at \in MainSteps \cup RestartSteps, TopMoves(at), built' \in Nat,
         UNCHANGED <<lock, usr>>, proc' \in [Gens -> [Kinds -> States]],
         Top.fn = "main" => at # "setup" /\ at \in MainSteps,
         Top.fn = "restart" => at \in RestartSteps \ {"acquire"} /\ Top.at # "acquire",
         at # "start" => NoneStarts,
         Top.fn = "restart" /\ at \in {"clear", "setup"} => NoneLives,
         Present'
  PROVE  Inv'
<1> DEFINE n == Len(stack)
<1>1. /\ n \in Nat \ {0} /\ Top = stack[n]
      /\ stack' \in Seq(Shape) /\ Len(stack') = n
      /\ stack'[n].fn = stack[n].fn /\ stack'[n].at = at
      /\ \A i \in 1..n : i # n => stack'[i] = stack[i]
      /\ 1 \in 1..n /\ n \in 1..n
  BY DEF Inv, Typed, Top, TopMoves
<1>2. /\ \A i \in 1..n : IF i = 1 THEN stack[i].fn = "main" /\ stack[i].at \in MainSteps
                         ELSE stack[i].fn = "restart" /\ stack[i].at \in RestartSteps
      /\ stack[1].at = "setup" => n = 1
  BY DEF Inv, Frames, Fresh
<1> HIDE DEF n
<1>3. Typed'
  BY <1>1 DEF Inv, Typed
<1>4. Frames'
  BY <1>1, <1>2 DEF Frames
<1>5. \A i \in 1..n : Inside(i)' => Inside(i)
  BY <1>1, <1>2 DEF Inside
<1>6. Locked'
  BY <1>1, <1>5 DEF Inv, Locked, n
\* Where something starts, no restart is about to set up.
<1>7. Cleared'
  <2>1. CASE at = "start"
    <3>1. \A i \in 1..n : i # 1 => stack'[i].at \notin {"clear", "setup"}
      <4> SUFFICES ASSUME NEW i \in 1..n, i # 1, stack'[i].at \in {"clear", "setup"}
                   PROVE  FALSE
        OBVIOUS
      <4>1. i # n /\ stack[i] = stack'[i] /\ Inside(i)
        BY <1>1, <2>1 DEF Inside
      <4>2. n # 1 /\ stack[n].fn = "restart"
        BY <1>1, <1>2, <4>1
      <4>3. Inside(n)
        BY <1>1, <4>2 DEF Inside
      <4> QED
        BY <1>1, <4>1, <4>3 DEF Inv, Locked, n
    <3> QED
      BY <1>1, <3>1 DEF Cleared
  <2>2. CASE at # "start"
    <3>1. NoneLives => NoneLives'
      BY <2>2 DEF NoneLives, NoneStarts
    <3>2. Cleared
      BY DEF Inv
    <3> QED
      BY <1>1, <1>2, <3>1, <3>2 DEF Cleared, n
  <2> QED
    BY <2>1, <2>2
<1>8. Fresh'
  BY <1>1, <1>2 DEF Fresh
<1> QED
  BY <1>3, <1>4, <1>6, <1>7, <1>8 DEF Inv

\* The stack is back to main, on its way out.
LEMMA Falls == ASSUME Inv, Raise, UNCHANGED <<proc, services, built>> PROVE Inv'
<1>1. /\ stack' \in Seq(Shape) /\ Len(stack') = 1
      /\ stack'[1].fn = "main" /\ stack'[1].at \in {"stop", "exit"}
  BY Raised DEF Inv
<1>2. \A i \in 1..1 : i = 1
  OBVIOUS
<1> QED
  BY <1>1, <1>2 DEF Inv, Typed, Frames, Locked, Inside, Cleared, Fresh, Present,
     NoneLives, Alive, MainSteps

\* A restart that waits comes on top of a stack where nothing is at first.
LEMMA Pushed ==
  ASSUME Inv, NEW s \in Seq(Shape), Len(s) = Len(stack), stack' = Append(s, Call),
         UNCHANGED <<proc, services, built, lock>>,
         stack[1].at # "setup", s[1].fn = "main", s[1].at \in MainSteps \ {"setup"},
         \A i \in 2..Len(stack) : s[i] = stack[i]
  PROVE  Inv'
<1> DEFINE n == Len(stack)
<1>1. /\ n \in Nat \ {0} /\ stack' \in Seq(Shape) /\ Len(stack') = n + 1
      /\ stack'[n + 1] = Call /\ stack'[1] = s[1]
      /\ \A i \in 1..n : i # 1 => stack'[i] = stack[i]
      /\ \A i \in 1..(n + 1) : i \in 1..n \/ i = n + 1
  BY Called DEF Inv, Typed
<1>2. Call.fn = "restart" /\ Call.at = "acquire"
  BY DEF Call
<1> HIDE DEF n
<1>3. Typed'
  BY <1>1 DEF Inv, Typed
<1>4. Frames'
  BY <1>1, <1>2 DEF Inv, Frames, n, RestartSteps
<1>5. \A i \in 1..(n + 1) : Inside(i)' => i \in 1..n /\ Inside(i)
  BY <1>1, <1>2 DEF Inside
<1>6. Locked'
  BY <1>1, <1>5 DEF Inv, Locked, n
<1>7. Cleared'
  BY <1>1, <1>2 DEF Inv, Cleared, NoneLives, Alive, n
<1>8. Fresh' /\ Present'
  BY <1>1 DEF Inv, Fresh, Present, Alive
<1> QED
  BY <1>3, <1>4, <1>6, <1>7, <1>8 DEF Inv

\* The lock is free, so that no restart is past it.
LEMMA AcquireStep == ASSUME Inv, Acquire PROVE Inv'
<1> DEFINE n == Len(stack)
<1>1. TopMoves("kill") /\ stack[n].fn = "restart" /\ ~lock /\ lock'
  BY Moved DEF Inv, Acquire, LockFree, At, Top, RestartSteps
<1>2. /\ n \in Nat \ {0} /\ stack' \in Seq(Shape) /\ Len(stack') = n
      /\ stack'[n].fn = "restart" /\ stack'[n].at = "kill"
      /\ \A i \in 1..n : i # n => stack'[i] = stack[i]
  BY <1>1 DEF Inv, Typed, Top, TopMoves
<1>3. \A i \in 1..n : ~Inside(i)
  BY <1>1 DEF Inv, Locked
<1>4. n # 1
  BY <1>1, <1>2 DEF Inv, Frames
<1> HIDE DEF n
<1>5. UNCHANGED <<proc, services, built, usr>>
  BY DEF Acquire, signals
<1>6. Typed'
  BY <1>2, <1>5 DEF Inv, Typed
<1>7. Frames'
  BY <1>2, <1>4 DEF Inv, Frames, n, RestartSteps
<1>8. Locked'
  BY <1>1, <1>2, <1>3 DEF Locked, Inside
<1>9. Cleared'
  BY <1>2, <1>5 DEF Inv, Cleared, NoneLives, Alive, n
<1>10. Fresh' /\ Present'
  BY <1>2, <1>4, <1>5 DEF Inv, Fresh, Present, Alive, n
<1> QED
  BY <1>6, <1>7, <1>8, <1>9, <1>10 DEF Inv

\* The restart that held the lock is gone with it.
LEMMA ReleaseStep == ASSUME Inv, Release PROVE Inv'
<1> DEFINE n == Len(stack)
<1>1. /\ n \in Nat \ {0} /\ stack[n].fn = "restart" /\ stack[n].at = "release"
      /\ stack' = SubSeq(stack, 1, n - 1) /\ stack \in Seq(Shape)
      /\ UNCHANGED <<proc, services, built, usr>>
  BY DEF Inv, Typed, Release, At, Top, Return, signals
<1>2. n # 1
  BY <1>1 DEF Inv, Frames
<1>3. /\ stack' \in Seq(Shape) /\ Len(stack') = n - 1 /\ n - 1 > 0
      /\ \A i \in 1..(n - 1) : stack'[i] = stack[i]
  <2>1. n - 1 \in Int /\ \A i \in 1..(n - 1) : stack[i] \in Shape
    BY <1>1
  <2> HIDE DEF n
  <2>2. /\ SubSeq(stack, 1, n - 1) \in Seq(Shape)
        /\ Len(SubSeq(stack, 1, n - 1)) = IF 1 <= n - 1 THEN n - 1 - 1 + 1 ELSE 0
        /\ \A i \in 1..(n - 1 - 1 + 1) : SubSeq(stack, 1, n - 1)[i] = stack[1 + i - 1]
    BY <2>1, SubSeqProperties
  <2> QED
    BY <1>1, <1>2, <2>2
<1>4. \A i \in 1..(n - 1) : ~Inside(i)
  BY <1>1, <1>2 DEF Inv, Locked, Inside
<1> HIDE DEF n
<1>9. \A i \in 1..(n - 1) : ~Inside(i)'
  BY <1>1, <1>3, <1>4 DEF Inside
<1>5. Typed' /\ Frames'
  BY <1>1, <1>3 DEF Inv, Typed, Frames, n
<1>6. Locked'
  BY <1>3, <1>9 DEF Locked
<1>7. Cleared'
  BY <1>1, <1>3 DEF Inv, Cleared, NoneLives, Alive, n
<1>8. Fresh' /\ Present'
  BY <1>1, <1>2, <1>3 DEF Inv, Fresh, Present, Alive, n
<1> QED
  BY <1>5, <1>6, <1>7, <1>8 DEF Inv

\* setup has nothing alive beside it, main's because nobody can ask for a restart
\* before, a restart's because it has joined what it killed.
LEMMA SetupStep ==
  ASSUME Inv, NEW fn \in {"main", "restart"}, Setup(fn, "start") PROVE Inv'
<1>1. /\ Top.fn = fn /\ Top.at = "setup" /\ UNCHANGED <<lock, usr>>
      /\ built' \in Nat /\ services' = built + 1 /\ Len(stack) \in 1..Len(stack)
  BY DEF Setup, At, Inv, Typed, signals
<1>2. TopMoves("start")
  BY Moved DEF Setup, Inv, Typed, MainSteps
<1>3. NoneLives
  <2>1. CASE Len(stack) = 1
    BY <1>1, <2>1 DEF Inv, Fresh, Top, NoneLives, Alive
  <2>2. CASE Len(stack) # 1
    BY <1>1, <2>2 DEF Inv, Cleared, Top
  <2> QED
    BY <2>1, <2>2
<1>4. /\ proc' \in [Gens -> [Kinds -> States]]
      /\ \A g \in Gens, k \in Kinds : Alive(g, k)' => Alive(g, k)
  BY DEF Setup, Inv, Typed, States, Alive
<1>5. Present'
  BY <1>3, <1>4 DEF Present, NoneLives
<1> QED
  BY <1>1, <1>2, <1>4, <1>5, TopMoved DEF MainSteps, RestartSteps

\* start goes on only with the processes of the present generation.
LEMMA StartStep ==
  ASSUME Inv, NEW fn \in {"main", "restart"}, NEW next,
         fn = "main" => next = "run", fn = "restart" => next = "release",
         StartLoop(fn, next)
  PROVE  Inv'
<1>1. /\ Top.fn = fn /\ Top.at = "start" /\ UNCHANGED <<lock, usr, services, built>>
      /\ built' \in Nat /\ Top \in Shape
  BY DEF StartLoop, At, Inv, Typed, signals, Top
<1>2. CASE Top.gen # services \/ AllStarted
  <2>1. Goto(next) /\ UNCHANGED proc
    BY <1>2 DEF StartLoop
  <2>2. NoneStarts /\ Present'
    BY <2>1, <1>1 DEF NoneStarts, Alive, Inv, Typed, Present
  <2>3. next \in MainSteps \cup RestartSteps /\ TopMoves(next)
    BY <2>1, Moved DEF Inv, MainSteps, RestartSteps
  <2> QED
    BY <1>1, <2>2, <2>3, TopMoved DEF NoneStarts, MainSteps, RestartSteps
<1>3. CASE ~(Top.gen # services \/ AllStarted)
  <2> DEFINE g == Top.gen
             k == Order[Top.i]
             s == IF PortTaken(g, k) THEN "dead" ELSE "alive"
             f == [Top EXCEPT !.i = @ + 1]
  <2>1. /\ stack' = [stack EXCEPT ![Len(stack)] = f]
        /\ proc' = [proc EXCEPT ![g][k] = s]
        /\ g = services /\ s \in States
    BY <1>3 DEF StartLoop, Top, States
  <2>2. k \in Kinds
    BY <1>1, <1>3, KindsAssumption DEF AllStarted, Shape
  <2>3. f \in Shape /\ f.fn = Top.fn /\ f.at = Top.at
    BY <1>1 DEF Shape
  <2> HIDE DEF f, g, k, s
  <2>4. TopMoves("start")
    BY <1>1, <2>1, <2>3 DEF TopMoves, Inv, Typed
  <2>5. proc' \in [Gens -> [Kinds -> States]]
    BY <2>1, <2>2 DEF Inv, Typed
  <2>6. Present'
    BY <1>1, <2>1, <2>2 DEF Inv, Typed, Present, Alive
  <2> QED
    BY <1>1, <2>4, <2>5, <2>6, TopMoved DEF MainSteps, RestartSteps
<1> QED
  BY <1>2, <1>3

\* What restart waits for: the old generation is gone, but for the slow.
LEMMA JoinStep == ASSUME Inv, Join PROVE Inv'
<1>1. UNCHANGED <<proc, services, built, lock, usr>> /\ Top.fn = "restart" /\ Top.at = "join"
  BY DEF Join, signals, At
<1>2. CASE NotStarted
  BY <1>1, <1>2, Falls DEF Join
<1>3. CASE ~NotStarted
  <2>1. TopMoves("clear")
    BY <1>3, Moved DEF Join, Inv, RestartSteps
  <2>2. NoneLives
    BY <1>3 DEF Join, Joined, Inv, Present, NoneLives, Gens
  <2>3. NoneStarts /\ Present' /\ built' \in Nat
    BY <1>1 DEF NoneStarts, Alive, Inv, Typed, Present
  <2> QED
    BY <1>1, <2>1, <2>2, <2>3, TopMoved DEF NoneStarts, MainSteps, RestartSteps
<1> QED
  BY <1>2, <1>3

\* The list is emptied, and nothing of it lives.
LEMMA ClearStep == ASSUME Inv, Clear PROVE Inv'
<1>1. /\ UNCHANGED <<proc, built, lock, usr>> /\ Top.fn = "restart" /\ Top.at = "clear"
      /\ TopMoves("setup")
  BY Moved DEF Clear, signals, At, Inv, RestartSteps
<1>2. NoneLives
  BY <1>1 DEF Inv, Frames, Cleared, Top, Typed
<1>3. NoneStarts /\ Present' /\ built' \in Nat
  BY <1>1, <1>2 DEF NoneStarts, Alive, Inv, Typed, Present, NoneLives
<1> QED
  BY <1>1, <1>2, <1>3, TopMoved DEF NoneStarts, MainSteps, RestartSteps

\* The other steps of the top frame start nothing and leave the generation.
LEMMA GoesOnSteps ==
  ASSUME Inv,
         \/ KillStep \/ Run \/ Check \/ NightOver \/ Stop
         \/ (WaitStep /\ ~due) \/ (Exit /\ UNCHANGED proc)
  PROVE  Inv'
<1>1. PICK at \in MainSteps \cup RestartSteps :
        /\ Goto(at)
        /\ Top.fn = "main" => at # "setup" /\ at \in MainSteps
        /\ Top.fn = "restart" => at = "join" /\ Top.at = "kill"
        /\ at # "start"
  BY DEF KillStep, Run, Check, NightOver, Stop, WaitStep, Exit, At, MainSteps, RestartSteps
<1>2. UNCHANGED <<services, built, lock, usr>>
  BY DEF KillStep, Run, Check, NightOver, Stop, WaitStep, Exit, signals
<1>3. NoneStarts
  <2>1. CASE proc' = KillsOf(services)
    BY <2>1, Killed DEF Inv
  <2>2. CASE UNCHANGED proc
    BY <2>2 DEF NoneStarts, Alive, Inv, Typed
  <2> QED
    BY <2>1, <2>2 DEF KillStep, Run, Check, NightOver, Stop, WaitStep, Exit
<1>4. TopMoves(at)
  BY <1>1, Moved DEF Inv
<1>5. Present' /\ built' \in Nat
  BY <1>2, <1>3 DEF Present, NoneStarts, Inv, Typed
<1> QED
  BY <1>1, <1>2, <1>3, <1>4, <1>5, TopMoved DEF NoneStarts, RestartSteps

\* The steps that leave the stack alone.
LEMMA WorldSteps ==
  ASSUME Inv,
         \/ HandleInt \/ AsksRestart \/ Interrupts \/ Midnight
         \/ (Exit /\ UNCHANGED stack)
         \/ \E g \in Gens, k \in Kinds : Dies(g, k) \/ Crashes(g, k)
         \/ UNCHANGED supervisor
  PROVE  Inv'
<1>1. UNCHANGED <<stack, services, built, lock>>
  BY DEF HandleInt, AsksRestart, Interrupts, Midnight, Exit, Dies, Crashes, supervisor, main_
<1>2. NoneStarts /\ NoneMade
  <2>1. CASE UNCHANGED proc
    BY <2>1 DEF NoneStarts, NoneMade, Alive, Inv, Typed
  <2>2. CASE HandleInt
    BY <2>2, Killed DEF HandleInt, Inv
  <2>3. CASE Exit
    BY <2>3 DEF Exit, NoneStarts, NoneMade, Alive, Inv, Typed, States
  <2>4. ASSUME NEW g \in Gens, NEW k \in Kinds, Dies(g, k) \/ Crashes(g, k)
        PROVE  NoneStarts /\ NoneMade
    BY <2>4 DEF Dies, Crashes, NoneStarts, NoneMade, Alive, Inv, Typed, States
  <2> QED
    BY <2>1, <2>2, <2>3, <2>4 DEF AsksRestart, Interrupts, Midnight, supervisor
<1>3. usr' => usr \/ \E g \in Gens, k \in Kinds : Alive(g, k)
  BY KindsAssumption DEF HandleInt, AsksRestart, Interrupts, Midnight, Exit, Dies, Crashes,
     supervisor, signals, Alive
<1> QED
  BY <1>1, <1>2, <1>3, StackKept

\* A signal or midnight calls restart.
LEMMA CallSteps == ASSUME Inv, HandleUsr \/ (WaitStep /\ due) PROVE Inv'
<1>1. CASE HandleUsr
  BY <1>1, Pushed DEF HandleUsr, Inv, Typed, Frames, Fresh
<1>2. CASE WaitStep /\ due
  <2> DEFINE s == [stack EXCEPT ![1].at = "night"]
  <2>1. /\ stack' = Append(s, Call) /\ UNCHANGED <<proc, services, built, lock>>
        /\ Top.fn = "main" /\ Top.at = "wait"
    BY <1>2 DEF WaitStep, At
  <2>2. Len(stack) = 1 /\ stack[1].fn = "main" /\ stack[1].at = "wait" /\ stack[1] \in Shape
    <3>1. Len(stack) \in 1..Len(stack) /\ 1 \in 1..Len(stack) /\ stack[Len(stack)].fn = "main"
      BY <2>1 DEF Inv, Typed, Top
    <3>2. Len(stack) = 1
      BY <3>1 DEF Inv, Frames
    <3> QED
      BY <2>1, <3>1, <3>2 DEF Inv, Typed, Top
  <2> DEFINE f == [stack[1] EXCEPT !.at = "night"]
  <2>3. f \in Shape /\ f.fn = "main" /\ f.at = "night"
    BY <2>2 DEF Shape, MainSteps
  <2>4. s = [stack EXCEPT ![1] = f]
    OBVIOUS
  <2> HIDE DEF f
  <2>5. s \in Seq(Shape) /\ Len(s) = Len(stack) /\ s[1] = f
        /\ \A i \in 2..Len(stack) : s[i] = stack[i]
    BY <2>2, <2>3, <2>4 DEF Inv, Typed
  <2> HIDE DEF s
  <2> QED
    BY <2>1, <2>2, <2>3, <2>5, Pushed DEF MainSteps
<1> QED
  BY <1>1, <1>2

\* Every step of main, of the handlers and of the world.
LEMMA InvNext == Inv /\ [Next]_supervisor => Inv'
<1> SUFFICES ASSUME Inv, [Next]_supervisor PROVE Inv'
  OBVIOUS
<1>1. CASE SetupFails
  BY <1>1, Falls DEF SetupFails
<1>2. CASE MainThread
  <2>1. CASE Setup("main", "start") \/ Setup("restart", "start")
    BY <2>1, SetupStep
  <2>2. CASE StartLoop("main", "run") \/ StartLoop("restart", "release")
    BY <2>2, StartStep
  <2>3. CASE Exit
    BY <2>3, GoesOnSteps, WorldSteps DEF Exit
  <2> QED
    BY <1>2, <2>1, <2>2, <2>3, GoesOnSteps, CallSteps, AcquireStep, ReleaseStep, JoinStep,
       ClearStep DEF MainThread
<1> QED
  BY <1>1, <1>2, WorldSteps, CallSteps DEF Next, Handlers

\* The inductive invariant: whoever sets up is alone with the lock and with no old
\* process, so that all that lives is of one generation.
THEOREM InvHolds == Spec => []Inv
BY InitInv, InvNext, PTL DEF Spec

\* No service runs twice, but for one that outlasts its 10 seconds, however
\* signals, midnights, crashes and failures fall together.
THEOREM One == Spec => []OneOfEach
<1>1. Inv => OneOfEach
  BY DEF Inv, Present, OneOfEach
<1> QED
  BY <1>1, InvHolds, PTL

----------------------------------------------------------------------------
(* What is started *)

Up(k) == proc[services][k] = "alive" \/ <<services, k>> \in excused
AllUp == services # 0 /\ \A k \in Kinds : Up(k)

\* A start of the present generation has come to frame i's place.
Begun(i) == services # 0 /\ \A j \in 1..Len(Order) : j < stack[i].i => Up(Order[j])

Outside == \A i \in 1..Len(stack) : ~Inside(i)

\* A restart that is past its set-up starts the present generation, and when it
\* is through all of it is up.  With no restart past the lock, main's own start
\* has come to its place, or was overtaken by a restart that is through.
Started ==
  /\ \A i \in 1..Len(stack) : i # 1 =>
       /\ stack[i].at = "start" => stack[i].gen = services /\ Begun(i)
       /\ stack[i].at = "release" => AllUp
  /\ Outside =>
       /\ stack[1].at = "start" => IF stack[1].gen = services THEN Begun(1) ELSE AllUp
       /\ stack[1].at \in {"run", "check", "wait", "night"} => AllUp

\* Some restart is past its set-up.
PastSetup == \E i \in 1..Len(stack) : i # 1 /\ stack[i].at \in {"start", "release"}

\* Midnight has come, and main has not called restart for it.
DueStill == due /\ stack[1].at \in {"setup", "start", "run", "check", "wait"}

UsrOne == IF usr THEN 1 ELSE 0
DueOne == IF DueStill THEN 1 ELSE 0
SetupOne == IF stack[1].at = "setup" THEN 1 ELSE 0
PastOne == IF PastSetup THEN 1 ELSE 0

\* Every set-up but the first answers a signal or a midnight.
Budget ==
  built + Len(stack) - 1 + UsrOne + DueOne + SetupOne
    <= 1 + count.usr + count.night + PastOne

\* Every loop is over a generation that was set up.
GensFit == \A i \in 1..Len(stack) : stack[i].gen \in 0..built

Counted ==
  /\ count \in [usr : 0..MaxUsr, int : 0..MaxInt, night : 0..MaxNights,
                crash : 0..MaxCrashes, setup : 0..MaxFailures]
  /\ services \in 0..built
  /\ usr \in BOOLEAN /\ int \in BOOLEAN /\ due \in BOOLEAN
  /\ running \in BOOLEAN /\ lock \in BOOLEAN
  /\ GensFit
  /\ excused \subseteq Gens \X Kinds

AllInv == Inv /\ Counted /\ Budget /\ Started

\* The bounds leave a generation for every set-up.
LEMMA InGens ==
  ASSUME Inv, Counted, Budget
  PROVE  /\ built \in 0..(1 + MaxUsr + MaxNights)
         /\ services # 0 => services \in Gens
         /\ Top.at = "setup" => built + 1 \in Gens
<1>1. Len(stack) \in Nat /\ Len(stack) >= 1 /\ built \in Nat /\ Top = stack[Len(stack)]
  BY DEF Inv, Typed, Top
<1>2. PastSetup => Len(stack) >= 2
  BY <1>1 DEF PastSetup
<1>3. count.usr \in 0..MaxUsr /\ count.night \in 0..MaxNights
  BY DEF Counted
<1>4. UsrOne >= 0 /\ UsrOne \in Nat /\ DueOne \in Nat
      /\ SetupOne \in Nat /\ PastOne \in Nat
      /\ PastOne <= Len(stack) - 1
  BY <1>1, <1>2 DEF UsrOne, DueOne, SetupOne, PastOne
<1>5. built <= 1 + MaxUsr + MaxNights
  BY <1>1, <1>3, <1>4, BoundAssumption DEF Budget
<1>6. services # 0 => services \in Gens
  BY <1>1, <1>5, BoundAssumption DEF Gens, Counted
<1>7. ASSUME Top.at = "setup" PROVE built + 1 \in Gens
  <2>1. CASE Len(stack) = 1
    <3>1. SetupOne = 1 /\ PastOne = 0
      BY <1>1, <1>2, <1>7, <2>1 DEF UsrOne, DueOne, SetupOne, PastOne
    <3> QED
      BY <1>1, <1>3, <1>4, <2>1, <3>1, BoundAssumption DEF Budget, Gens
  <2>2. CASE Len(stack) # 1
    <3>1. Inside(Len(stack))
      BY <1>1, <1>7, <2>2 DEF Inside
    <3>2. ~PastSetup
      <4> SUFFICES ASSUME NEW i \in 1..Len(stack), i # 1,
                          stack[i].at \in {"start", "release"}
                   PROVE  FALSE
        BY DEF PastSetup
      <4>1. Inside(i) /\ i # Len(stack)
        BY <1>1, <1>7 DEF Inside
      <4> QED
        BY <1>1, <3>1, <4>1 DEF Inv, Locked
    <3>3. PastOne = 0
      BY <3>2 DEF UsrOne, DueOne, SetupOne, PastOne
    <3>6. \A n \in Nat : n >= 1 /\ n # 1 => n >= 2
      OBVIOUS
    <3>4. Len(stack) >= 2
      BY <1>1, <2>2, <3>6
    <3>5. built + 1 <= 1 + count.usr + count.night
      BY <1>1, <1>3, <1>4, <3>3, <3>4 DEF Budget
    <3> QED
      BY <1>1, <1>3, <3>5, BoundAssumption DEF Gens
  <2> QED
    BY <2>1, <2>2
<1> QED
  BY <1>1, <1>5, <1>6, <1>7, BoundAssumption

\* The top frame goes on, and its place and generation with it.
LEMMA Went ==
  ASSUME Typed, NEW at \in MainSteps \cup RestartSteps, Goto(at)
  PROVE  /\ TopMoves(at)
         /\ stack'[Len(stack)].i = Top.i /\ stack'[Len(stack)].gen = Top.gen
<1>1. Top \in Shape
  BY DEF Top, Typed
<1> DEFINE f == [Top EXCEPT !.at = at]
<1>2. f \in Shape /\ f.fn = Top.fn /\ f.at = at /\ f.i = Top.i /\ f.gen = Top.gen
  BY <1>1 DEF Shape
<1>3. stack' = [stack EXCEPT ![Len(stack)] = f]
  BY DEF Goto, Top
<1> HIDE DEF f
<1> QED
  BY <1>2, <1>3 DEF TopMoves, Typed

LEMMA Entered ==
  ASSUME Typed, NEW at \in MainSteps \cup RestartSteps, NEW g \in Nat, Enter(at, g)
  PROVE  /\ TopMoves(at)
         /\ stack'[Len(stack)].i = 1 /\ stack'[Len(stack)].gen = g
<1>1. Top \in Shape
  BY DEF Top, Typed
<1> DEFINE f == [fn |-> Top.fn, at |-> at, i |-> 1, gen |-> g]
<1>2. f \in Shape /\ f.fn = Top.fn /\ f.at = at /\ f.i = 1 /\ f.gen = g
  BY <1>1 DEF Shape
<1>3. stack' = [stack EXCEPT ![Len(stack)] = f]
  BY DEF Enter
<1> HIDE DEF f
<1> QED
  BY <1>2, <1>3 DEF TopMoves, Typed

\* When main's frame is on top, it is alone.
LEMMA MainAlone ==
  ASSUME Inv, Top.fn = "main"
  PROVE  Len(stack) = 1 /\ Top = stack[1] /\ Outside /\ ~PastSetup
<1>1. Len(stack) \in 1..Len(stack) /\ Top = stack[Len(stack)]
  BY DEF Inv, Typed, Top
<1>2. Len(stack) = 1
  BY <1>1 DEF Inv, Frames
<1> QED
  BY <1>1, <1>2 DEF Outside, Inside, PastSetup

\* When a restart is on top, main's frame is another.
LEMMA RestartAbove ==
  ASSUME Inv, Top.fn = "restart"
  PROVE  /\ Len(stack) \in Nat /\ Len(stack) > 1 /\ Top = stack[Len(stack)]
         /\ 1 \in 1..Len(stack) /\ Len(stack) \in 1..Len(stack)
<1>1. Len(stack) \in 1..Len(stack) /\ Top = stack[Len(stack)] /\ Len(stack) \in Nat
  BY DEF Inv, Typed, Top
<1>2. Len(stack) # 1
  BY <1>1 DEF Inv, Frames
<1> QED
  BY <1>1, <1>2
\* One restart at most is past its set-up: none while another sets up.
LEMMA AloneInside ==
  ASSUME Inv, Top.fn = "restart", Top.at # "acquire"
  PROVE  /\ Inside(Len(stack))
         /\ \A i \in 1..Len(stack) : i # 1 /\ i # Len(stack) => stack[i].at = "acquire"
         /\ Top.at \notin {"start", "release"} => ~PastSetup
<1>1. /\ Len(stack) \in Nat /\ Len(stack) > 1 /\ Top = stack[Len(stack)]
      /\ Len(stack) \in 1..Len(stack)
  BY RestartAbove
<1>2. Inside(Len(stack))
  BY <1>1 DEF Inside
<1>3. \A i \in 1..Len(stack) : i # 1 /\ i # Len(stack) => stack[i].at = "acquire"
  BY <1>1, <1>2 DEF Inv, Locked, Inside
<1> QED
  BY <1>1, <1>2, <1>3 DEF PastSetup

\* A restart on top goes on.
LEMMA RestartGoes ==
  ASSUME Inv, Top.fn = "restart", NEW at, TopMoves(at), UNCHANGED due
  PROVE  /\ Len(stack') = Len(stack) /\ stack'[1] = stack[1] /\ DueStill' = DueStill
         /\ stack'[Len(stack)].at = at
         /\ \A i \in 1..Len(stack) : i # Len(stack) => stack'[i] = stack[i]
         /\ Top.at \notin {"start", "release"} => (PastSetup => PastSetup')
         /\ at \in {"start", "release"} => PastSetup'
<1>1. /\ Len(stack) \in Nat /\ Len(stack) > 1 /\ Top = stack[Len(stack)]
      /\ 1 \in 1..Len(stack) /\ Len(stack) \in 1..Len(stack)
  BY RestartAbove
<1>2. /\ Len(stack') = Len(stack) /\ stack'[Len(stack)].at = at
      /\ \A i \in 1..Len(stack) : i # Len(stack) => stack'[i] = stack[i]
  BY <1>1 DEF TopMoves
<1>3. stack'[1] = stack[1]
  BY <1>1, <1>2
<1>4. DueStill' = DueStill
  BY <1>3 DEF DueStill
<1>5. Top.at \notin {"start", "release"} => (PastSetup => PastSetup')
  BY <1>1, <1>2 DEF PastSetup
<1>6. at \in {"start", "release"} => PastSetup'
  BY <1>1, <1>2 DEF PastSetup
<1> QED
  BY <1>2, <1>3, <1>4, <1>5, <1>6

\* Main, alone on the stack, goes on.
LEMMA MainGoes ==
  ASSUME Inv, Top.fn = "main", NEW at, TopMoves(at)
  PROVE  /\ Len(stack) = 1 /\ Len(stack') = 1 /\ Top = stack[1] /\ stack'[1].at = at
         /\ ~PastSetup /\ ~PastSetup' /\ Outside /\ Outside'
<1>1. Len(stack) = 1 /\ Top = stack[1] /\ Outside /\ ~PastSetup
  BY MainAlone
<1>2. Len(stack') = 1 /\ stack'[1].at = at
  BY <1>1 DEF TopMoves
<1> QED
  BY <1>1, <1>2 DEF Outside, Inside, PastSetup

\* The sum of Budget, whatever the set-ups, falls only with them.
LEMMA BudgetKept ==
  ASSUME Inv, Counted, Budget, built' = built, count' = count, Len(stack') = Len(stack),
         usr' => usr, DueStill' => DueStill,
         stack'[1].at = "setup" => stack[1].at = "setup", PastSetup => PastSetup'
  PROVE  Budget'
<1>1. Len(stack) \in Nat /\ built \in Nat /\ count.usr \in Nat /\ count.night \in Nat
  BY BoundAssumption DEF Inv, Typed, Counted
<1>2. /\ UsrOne \in {0, 1} /\ UsrOne' \in {0, 1} /\ UsrOne' <= UsrOne
      /\ DueOne \in {0, 1} /\ DueOne' \in {0, 1}
      /\ DueOne' <= DueOne
      /\ SetupOne \in {0, 1} /\ SetupOne' \in {0, 1}
      /\ SetupOne' <= SetupOne
      /\ PastOne \in {0, 1} /\ PastOne' \in {0, 1}
      /\ PastOne <= PastOne'
  BY DEF UsrOne, DueOne, SetupOne, PastOne
<1> QED
  BY <1>1, <1>2 DEF Budget

\* What an exception leaves has fewer restarts to come.
LEMMA BudgetFalls ==
  ASSUME Inv, Counted, Budget, Raise, UNCHANGED <<built, usr, due>>,
         count'.usr = count.usr, count'.night = count.night
  PROVE  Budget'
<1>1. /\ Len(stack) \in Nat /\ Len(stack) >= 1 /\ built \in Nat
      /\ count.usr \in Nat /\ count.night \in Nat
  BY BoundAssumption DEF Inv, Typed, Counted
<1>2. Len(stack') = 1 /\ stack'[1].at \in {"stop", "exit"}
  BY Raised DEF Inv
<1>3. ~PastSetup' /\ ~DueStill'
  BY <1>2 DEF PastSetup, DueStill
<1>4. PastSetup => Len(stack) >= 2
  BY <1>1 DEF PastSetup
<1>5. /\ UsrOne \in {0, 1} /\ UsrOne' = UsrOne
      /\ DueOne \in {0, 1} /\ DueOne' = 0
      /\ SetupOne \in {0, 1} /\ SetupOne' = 0
      /\ PastOne' = 0 /\ PastOne \in {0, 1}
      /\ PastOne <= Len(stack) - 1
  BY <1>1, <1>2, <1>3, <1>4 DEF UsrOne, DueOne, SetupOne, PastOne
<1>6. built + UsrOne <= 1 + count.usr + count.night
  BY <1>1, <1>5 DEF Budget
<1> QED
  BY <1>1, <1>2, <1>5, <1>6 DEF Budget
\* Frames come with an older loop, with none or with the newest.
LEMMA GensKept ==
  ASSUME Inv, GensFit, built' \in Nat, built <= built',
         \A i \in 1..Len(stack') :
           \/ stack'[i].gen \in {0, built'}
           \/ \E j \in 1..Len(stack) : stack'[i].gen = stack[j].gen
  PROVE  GensFit'
<1>1. built \in Nat
  BY DEF Inv, Typed
<1>2. ASSUME NEW i \in 1..Len(stack') PROVE stack'[i].gen \in 0..built'
  <2>1. CASE stack'[i].gen \in {0, built'}
    BY <2>1
  <2>2. CASE \E j \in 1..Len(stack) : stack'[i].gen = stack[j].gen
    BY <1>1, <2>2 DEF GensFit
  <2> QED
    BY <1>2, <2>1, <2>2
<1> QED
  BY <1>2 DEF GensFit

LEMMA GensStep == ASSUME Inv, Counted, [Next]_supervisor PROVE GensFit'
<1> DEFINE n == Len(stack)
<1>1. n \in Nat /\ n >= 1 /\ Top = stack[n] /\ built \in Nat /\ GensFit
      /\ n \in 1..n /\ 1 \in 1..n /\ stack \in Seq(Shape)
  BY DEF Inv, Typed, Top, Counted
<1>2. ASSUME NEW at \in MainSteps \cup RestartSteps, Goto(at), UNCHANGED built
      PROVE  GensFit'
  <2>1. TopMoves(at) /\ stack'[n].gen = Top.gen
    BY <1>2, Went DEF Inv
  <2>2. \A i \in 1..Len(stack') : \E j \in 1..Len(stack) : stack'[i].gen = stack[j].gen
    BY <1>1, <2>1 DEF TopMoves
  <2> QED
    BY <1>1, <1>2, <2>2, GensKept
<1>3. ASSUME UNCHANGED <<stack, built>> PROVE GensFit'
  BY <1>1, <1>3 DEF GensFit
<1>4. ASSUME Raise, UNCHANGED built PROVE GensFit'
  <2>1. PICK at \in {"stop", "exit"} : stack' = <<[stack[1] EXCEPT !.at = at]>>
    BY <1>4 DEF Raise
  <2>2. stack[1] \in Shape
    BY <1>1
  <2> DEFINE f == [stack[1] EXCEPT !.at = at]
  <2>3. f.gen = stack[1].gen
    BY <2>2 DEF Shape
  <2>4. stack' = <<f>>
    BY <2>1
  <2> HIDE DEF f
  <2>5. \A i \in 1..Len(stack') : stack'[i].gen = stack[1].gen
    BY <2>3, <2>4
  <2> QED
    BY <1>1, <1>4, <2>5, GensKept
<1>5. ASSUME NEW fn, Setup(fn, "start") PROVE GensFit'
  <2>1. Enter("start", built + 1) /\ built' = built + 1
    BY <1>5 DEF Setup
  <2>2. TopMoves("start") /\ stack'[n].gen = built'
    BY <1>1, <2>1, Entered DEF Inv, MainSteps
  <2>3. \A i \in 1..Len(stack') : \/ stack'[i].gen \in {0, built'}
                                  \/ \E j \in 1..Len(stack) : stack'[i].gen = stack[j].gen
    BY <1>1, <2>2 DEF TopMoves
  <2> QED
    BY <1>1, <2>1, <2>3, GensKept
<1>6. ASSUME NEW fn, NEW next \in MainSteps \cup RestartSteps, StartLoop(fn, next)
      PROVE  GensFit'
  <2>1. CASE Goto(next)
    BY <1>2, <1>6, <2>1 DEF StartLoop
  <2>2. CASE ~Goto(next)
    <3> DEFINE f == [Top EXCEPT !.i = @ + 1]
    <3>1. stack' = [stack EXCEPT ![Len(stack)] = f] /\ UNCHANGED built
      BY <1>6, <2>2 DEF StartLoop, Top
    <3>4. Top \in Shape
      BY <1>1
    <3>2. f.gen = Top.gen /\ f \in Shape
      BY <3>4 DEF Shape
    <3> HIDE DEF f
    <3>3. \A i \in 1..Len(stack') : \E j \in 1..Len(stack) : stack'[i].gen = stack[j].gen
      BY <1>1, <3>1, <3>2
    <3> QED
      BY <1>1, <3>1, <3>3, GensKept
  <2> QED
    BY <2>1, <2>2
<1>7. ASSUME NEW s \in Seq(Shape), Len(s) = n, stack' = Append(s, Call), UNCHANGED built,
             \A i \in 1..n : s[i].gen = stack[i].gen
      PROVE  GensFit'
  <2>1. /\ Len(stack') = n + 1 /\ stack'[n + 1] = Call
        /\ \A i \in 1..n : stack'[i] = s[i]
    BY <1>7, Called
  <2>2. Call.gen = 0
    BY DEF Call
  <2>3. \A i \in 1..(n + 1) : i \in 1..n \/ i = n + 1
    BY <1>1
  <2>4. \A i \in 1..Len(stack') : \/ stack'[i].gen \in {0, built'}
                                  \/ \E j \in 1..Len(stack) : stack'[i].gen = stack[j].gen
    BY <1>7, <2>1, <2>2, <2>3
  <2> QED
    BY <1>1, <1>7, <2>4, GensKept
<1>8. CASE Release
  <2>1. stack' = SubSeq(stack, 1, n - 1) /\ UNCHANGED built
    BY <1>8 DEF Release, Return
  <2>2. n - 1 \in Int /\ \A i \in 1..(n - 1) : stack[i] \in Shape
    BY <1>1
  <2> HIDE DEF n
  <2>3. /\ Len(stack') = IF 1 <= n - 1 THEN n - 1 - 1 + 1 ELSE 0
        /\ \A i \in 1..(n - 1 - 1 + 1) : stack'[i] = stack[1 + i - 1]
    BY <2>1, <2>2, SubSeqProperties
  <2>4. \A i \in 1..Len(stack') : stack'[i].gen = stack[i].gen /\ i \in 1..n
    BY <1>1, <2>3
  <2> QED
    BY <1>1, <2>1, <2>4, GensKept DEF n
<1>9. CASE HandleUsr
  BY <1>1, <1>7, <1>9 DEF HandleUsr
<1>10. CASE WaitStep /\ due
  <2> DEFINE f == [stack[1] EXCEPT !.at = "night"]
             s == [stack EXCEPT ![1].at = "night"]
  <2>1. stack' = Append(s, Call) /\ UNCHANGED built
    BY <1>10 DEF WaitStep
  <2>5. stack[1] \in Shape
    BY <1>1
  <2>2. f \in Shape /\ f.gen = stack[1].gen
    BY <2>5 DEF Shape, MainSteps
  <2>3. s = [stack EXCEPT ![1] = f]
    OBVIOUS
  <2> HIDE DEF f
  <2>4. s \in Seq(Shape) /\ Len(s) = n /\ \A i \in 1..n : s[i].gen = stack[i].gen
    BY <1>1, <2>2, <2>3
  <2> HIDE DEF s
  <2> QED
    BY <1>7, <2>1, <2>4
<1>11. CASE \/ Run \/ Check \/ (WaitStep /\ ~due) \/ NightOver \/ Stop \/ Acquire
            \/ KillStep \/ Clear \/ (Exit /\ ~UNCHANGED stack) \/ (Join /\ ~NotStarted)
  <2>1. \E at \in MainSteps \cup RestartSteps : Goto(at)
    BY <1>11 DEF Run, Check, WaitStep, NightOver, Stop, Acquire, KillStep, Clear, Exit, Join,
       MainSteps, RestartSteps
  <2>2. UNCHANGED built
    BY <1>11 DEF Run, Check, WaitStep, NightOver, Stop, Acquire, KillStep, Clear, Exit, Join
  <2> QED
    BY <1>2, <2>1, <2>2
<1>12. CASE SetupFails \/ (Join /\ NotStarted)
  BY <1>4, <1>12 DEF SetupFails, Join
<1>13. CASE \/ HandleInt \/ AsksRestart \/ Interrupts \/ Midnight
            \/ (Exit /\ UNCHANGED stack)
            \/ (\E g \in Gens, k \in Kinds : Dies(g, k) \/ Crashes(g, k))
            \/ UNCHANGED supervisor
  BY <1>3, <1>13 DEF HandleInt, AsksRestart, Interrupts, Midnight, Exit, Dies, Crashes,
     supervisor, main_
<1>14. CASE StartLoop("main", "run") \/ StartLoop("restart", "release")
  BY <1>6, <1>14 DEF MainSteps, RestartSteps
<1> QED
  BY <1>5, <1>8, <1>9, <1>10, <1>11, <1>12, <1>13, <1>14 DEF Next, MainThread, Handlers

LEMMA CountedStep ==
  ASSUME Inv, Counted, Budget, Started, [Next]_supervisor PROVE Counted'
<1>0. GensFit'
  BY GensStep
<1>1. built \in Nat /\ services \in 0..built
  BY DEF Inv, Typed, Counted
<1>2. services' \in 0..built'
  BY <1>1 DEF Next, MainThread, Handlers, Setup, SetupFails, StartLoop, Run, Check,
     WaitStep, NightOver, Stop, Exit, Acquire, KillStep, Join, Clear, Release,
     HandleUsr, HandleInt, AsksRestart, Interrupts, Midnight, Dies, Crashes, supervisor,
     main_
<1>3. /\ usr' \in BOOLEAN /\ int' \in BOOLEAN /\ due' \in BOOLEAN
      /\ running' \in BOOLEAN /\ lock' \in BOOLEAN
  BY DEF Next, MainThread, Handlers, Setup, SetupFails, StartLoop, Run, Check,
     WaitStep, NightOver, Stop, Exit, Acquire, KillStep, Join, Clear, Release, Raise,
     HandleUsr, HandleInt, AsksRestart, Interrupts, Midnight, Dies, Crashes, supervisor,
     main_, signals, Counted
<1>4. count' \in [usr : 0..MaxUsr, int : 0..MaxInt, night : 0..MaxNights,
                  crash : 0..MaxCrashes, setup : 0..MaxFailures]
  <2>1. count \in [usr : 0..MaxUsr, int : 0..MaxInt, night : 0..MaxNights,
                   crash : 0..MaxCrashes, setup : 0..MaxFailures]
    BY DEF Counted
  <2>2. CASE UNCHANGED count
    BY <2>1, <2>2
  <2>3. CASE AsksRestart
    BY <2>1, <2>3, BoundAssumption DEF AsksRestart
  <2>4. CASE Interrupts
    BY <2>1, <2>4, BoundAssumption DEF Interrupts
  <2>5. CASE Midnight
    BY <2>1, <2>5, BoundAssumption DEF Midnight
  <2>6. CASE SetupFails
    BY <2>1, <2>6, BoundAssumption DEF SetupFails
  <2>7. ASSUME NEW g \in Gens, NEW k \in Kinds, Crashes(g, k)
        PROVE  count' \in [usr : 0..MaxUsr, int : 0..MaxInt, night : 0..MaxNights,
                           crash : 0..MaxCrashes, setup : 0..MaxFailures]
    BY <2>1, <2>7, BoundAssumption DEF Crashes
  <2> QED
    BY <2>2, <2>3, <2>4, <2>5, <2>6, <2>7 DEF Next, MainThread, Handlers, Setup,
       StartLoop, Run, Check, WaitStep, NightOver, Stop, Exit, Acquire, KillStep, Join,
       Clear, Release, HandleUsr, HandleInt, Dies, supervisor, signals
<1>5. excused' \subseteq Gens \X Kinds
  <2>1. excused \subseteq Gens \X Kinds /\ (services # 0 => services \in Gens)
    BY InGens DEF Counted
  <2>2. CASE UNCHANGED excused
    BY <2>1, <2>2
  <2>3. CASE HandleInt
    BY <2>1, <2>3 DEF HandleInt
  <2>4. ASSUME NEW g \in Gens, NEW k \in Kinds, Crashes(g, k)
        PROVE  excused' \subseteq Gens \X Kinds
    BY <2>1, <2>4 DEF Crashes
  <2>5. ASSUME NEW fn, NEW next, StartLoop(fn, next), ~UNCHANGED excused
        PROVE  excused' \subseteq Gens \X Kinds
    <3>1. /\ excused' = excused \cup {<<Top.gen, Order[Top.i]>>}
          /\ Top.gen = services /\ ~AllStarted
      BY <2>5 DEF StartLoop
    <3>2. Top \in Shape
      BY DEF Inv, Typed, Top
    <3>3. Order[Top.i] \in Kinds
      BY <3>1, <3>2, KindsAssumption DEF AllStarted, Shape
    <3>4. services # 0
      <4>1. Top.at = "start" /\ Top = stack[Len(stack)] /\ Len(stack) \in 1..Len(stack)
        BY <2>5 DEF StartLoop, At, Top, Inv, Typed
      <4>2. CASE Len(stack) = 1
        BY <3>1, <4>1, <4>2 DEF Started, Outside, Inside, Begun
      <4>3. CASE Len(stack) # 1
        BY <4>1, <4>3 DEF Started, Begun
      <4> QED
        BY <4>2, <4>3
    <3> QED
      BY <2>1, <3>1, <3>3, <3>4
  <2> QED
    BY <2>2, <2>3, <2>4, <2>5 DEF Next, MainThread, Handlers, Setup, SetupFails, Run, Check,
     WaitStep, NightOver, Stop, Exit, Acquire, KillStep, Join, Clear, Release,
     HandleUsr, AsksRestart, Interrupts, Midnight, Dies, supervisor, signals
<1> QED
  BY <1>0, <1>2, <1>3, <1>4, <1>5 DEF Counted
LEMMA SetupBudget ==
  ASSUME Inv, Counted, Budget, NEW fn \in {"main", "restart"}, Setup(fn, "start")
  PROVE  Budget'
<1>1. /\ Top.fn = fn /\ Top.at = "setup" /\ built' = built + 1
      /\ UNCHANGED <<usr, due, count>> /\ Enter("start", built + 1)
  BY DEF Setup, At, signals
<1>2. TopMoves("start")
  BY <1>1, Entered DEF Inv, Typed, MainSteps
<1>3. /\ Len(stack) \in Nat /\ built \in Nat /\ count.usr \in Nat /\ count.night \in Nat
  BY BoundAssumption DEF Inv, Typed, Counted
<1>4. CASE fn = "main"
  <2>1. /\ Len(stack) = 1 /\ Len(stack') = 1 /\ Top = stack[1] /\ stack'[1].at = "start"
        /\ ~PastSetup /\ ~PastSetup'
    BY <1>1, <1>2, <1>4, MainGoes
  <2>2. DueStill' = DueStill
    BY <1>1, <2>1 DEF DueStill
  <2>3. /\ UsrOne' = UsrOne /\ UsrOne \in {0, 1}
        /\ DueOne' = DueOne /\ DueOne \in {0, 1}
        /\ SetupOne = 1 /\ SetupOne' = 0
        /\ PastOne = 0 /\ PastOne' = 0
    BY <1>1, <2>1, <2>2 DEF UsrOne, DueOne, SetupOne, PastOne
  <2> QED
    BY <1>1, <1>3, <2>1, <2>3 DEF Budget
<1>5. CASE fn = "restart"
  <2>1. /\ Len(stack') = Len(stack) /\ stack'[1] = stack[1] /\ DueStill' = DueStill
        /\ PastSetup'
    BY <1>1, <1>2, <1>5, RestartGoes
  <2>2. ~PastSetup
    BY <1>1, <1>5, AloneInside
  <2>3. /\ UsrOne' = UsrOne /\ UsrOne \in {0, 1}
        /\ DueOne' = DueOne /\ DueOne \in {0, 1}
        /\ SetupOne' = SetupOne
        /\ SetupOne \in {0, 1}
        /\ PastOne = 0 /\ PastOne' = 1
    BY <1>1, <2>1, <2>2 DEF UsrOne, DueOne, SetupOne, PastOne
  <2> QED
    BY <1>1, <1>3, <2>1, <2>3 DEF Budget
<1> QED
  BY <1>4, <1>5

\* A restart that is through leaves, and takes its set-up off the balance.
LEMMA ReleaseBudget == ASSUME Inv, Counted, Budget, Release PROVE Budget'
<1> DEFINE n == Len(stack)
<1>1. /\ Top.fn = "restart" /\ Top.at = "release" /\ stack' = SubSeq(stack, 1, n - 1)
      /\ UNCHANGED <<built, usr, due, count>>
  BY DEF Release, At, Return, signals
<1>2. n \in Nat /\ n > 1 /\ Top = stack[n] /\ n \in 1..n /\ stack \in Seq(Shape)
  BY <1>1, RestartAbove DEF Inv, Typed
<1>3. Len(stack') = n - 1 /\ stack'[1] = stack[1]
  <2>1. n - 1 \in Int /\ \A i \in 1..(n - 1) : stack[i] \in Shape
    BY <1>2
  <2> HIDE DEF n
  <2>2. /\ Len(stack') = IF 1 <= n - 1 THEN n - 1 - 1 + 1 ELSE 0
        /\ \A i \in 1..(n - 1 - 1 + 1) : stack'[i] = stack[1 + i - 1]
    BY <1>1, <2>1, SubSeqProperties
  <2> QED
    BY <1>2, <2>2
<1>4. PastSetup
  BY <1>1, <1>2 DEF PastSetup
<1>5. DueStill' = DueStill
  BY <1>1, <1>3 DEF DueStill
<1>6. /\ UsrOne' = UsrOne /\ UsrOne \in {0, 1}
      /\ DueOne' = DueOne /\ DueOne \in {0, 1}
      /\ SetupOne' = SetupOne
      /\ SetupOne \in {0, 1}
      /\ PastOne = 1 /\ PastOne' \in {0, 1}
  BY <1>1, <1>3, <1>4, <1>5 DEF UsrOne, DueOne, SetupOne, PastOne
<1>7. built \in Nat /\ count.usr \in Nat /\ count.night \in Nat
  BY BoundAssumption DEF Inv, Typed, Counted
<1> HIDE DEF n
<1> QED
  BY <1>1, <1>2, <1>3, <1>6, <1>7 DEF Budget, n

\* A call takes the place of the signal, or of the midnight, that it answers.
LEMMA CallBudget ==
  ASSUME Inv, Counted, Budget, HandleUsr \/ (WaitStep /\ due)
  PROVE  Budget'
<1> DEFINE n == Len(stack)
<1>1. n \in Nat /\ n >= 1 /\ stack \in Seq(Shape) /\ 1 \in 1..n
      /\ built \in Nat /\ count.usr \in Nat /\ count.night \in Nat
  BY BoundAssumption DEF Inv, Typed, Counted
<1>2. CASE HandleUsr
  <2>1. /\ stack' = Append(stack, Call) /\ usr /\ ~usr'
        /\ UNCHANGED <<built, due, count>>
    BY <1>2 DEF HandleUsr
  <2>2. /\ Len(stack') = n + 1 /\ \A i \in 1..n : stack'[i] = stack[i]
    BY <1>1, <2>1, Called
  <2>3. PastSetup => PastSetup'
    BY <1>1, <2>2 DEF PastSetup
  <2>4. DueStill' = DueStill /\ stack'[1] = stack[1]
    BY <1>1, <2>1, <2>2 DEF DueStill
  <2>5. /\ UsrOne = 1 /\ UsrOne' = 0
        /\ DueOne' = DueOne /\ DueOne \in {0, 1}
        /\ SetupOne' = SetupOne
        /\ SetupOne \in {0, 1}
        /\ PastOne \in {0, 1} /\ PastOne' \in {0, 1}
        /\ PastOne <= PastOne'
    BY <2>1, <2>3, <2>4 DEF UsrOne, DueOne, SetupOne, PastOne
  <2> QED
    BY <1>1, <2>1, <2>2, <2>5 DEF Budget
<1>3. CASE WaitStep /\ due
  <2> DEFINE s == [stack EXCEPT ![1].at = "night"]
  <2>1. /\ stack' = Append(s, Call) /\ UNCHANGED <<built, usr, due, count>>
        /\ Top.fn = "main" /\ Top.at = "wait"
    BY <1>3 DEF WaitStep, At, signals
  <2>2. n = 1 /\ Top = stack[1] /\ ~PastSetup
    BY <2>1, MainAlone
  <2> DEFINE f == [stack[1] EXCEPT !.at = "night"]
  <2>6. stack[1] \in Shape
    BY <1>1
  <2>3. f \in Shape /\ f.at = "night"
    BY <2>6 DEF Shape, MainSteps
  <2>4. s = [stack EXCEPT ![1] = f]
    OBVIOUS
  <2> HIDE DEF f
  <2>5. s \in Seq(Shape) /\ Len(s) = n /\ s[1] = f
    BY <1>1, <2>3, <2>4
  <2> HIDE DEF s
  <2>7. Len(stack') = n + 1 /\ stack'[1].at = "night"
    BY <1>1, <2>1, <2>3, <2>5, Called
  <2>8. DueStill /\ ~DueStill'
    BY <1>3, <2>1, <2>2, <2>7 DEF DueStill
  <2>9. /\ UsrOne = UsrOne' /\ UsrOne \in {0, 1}
        /\ DueOne' = 0 /\ DueOne = 1
        /\ SetupOne' = 0
        /\ SetupOne \in {0, 1}
        /\ PastOne = 0 /\ PastOne' \in {0, 1}
    BY <2>1, <2>2, <2>7, <2>8 DEF UsrOne, DueOne, SetupOne, PastOne
  <2> QED
    BY <1>1, <2>1, <2>2, <2>7, <2>9 DEF Budget
<1> QED
  BY <1>2, <1>3

LEMMA BudgetStep ==
  ASSUME Inv, Counted, Budget, [Next]_supervisor PROVE Budget'
<1>1. CASE Setup("main", "start") \/ Setup("restart", "start")
  BY <1>1, SetupBudget
<1>2. CASE Release
  BY <1>2, ReleaseBudget
<1>3. CASE HandleUsr \/ (WaitStep /\ due)
  BY <1>3, CallBudget
<1>4. CASE SetupFails
  <2>1. count'.usr = count.usr /\ count'.night = count.night
    BY <1>4 DEF SetupFails, Counted
  <2> QED
    BY <1>4, <2>1, BudgetFalls DEF SetupFails
<1>5. CASE Join /\ NotStarted
  BY <1>5, BudgetFalls DEF Join, signals
<1>6. CASE AsksRestart
  <2>1. /\ UNCHANGED <<stack, built, due>>
        /\ count'.usr = count.usr + 1 /\ count'.night = count.night
    BY <1>6 DEF AsksRestart, main_, Counted
  <2>2. /\ DueOne' = DueOne /\ PastOne' = PastOne
        /\ UsrOne \in {0, 1} /\ UsrOne' \in {0, 1}
        /\ DueOne \in {0, 1} /\ PastOne \in {0, 1}
        /\ SetupOne' = SetupOne
        /\ SetupOne \in {0, 1}
    BY <2>1 DEF UsrOne, DueOne, SetupOne, PastOne, DueStill, PastSetup
  <2>3. /\ Len(stack) \in Nat /\ built \in Nat /\ count.usr \in Nat /\ count.night \in Nat
    BY BoundAssumption DEF Inv, Typed, Counted
  <2>4. /\ Len(stack') = Len(stack) /\ built' = built
        /\ count'.usr = count.usr + 1 /\ count'.night = count.night
    BY <2>1
  <2>5. /\ UsrOne' <= UsrOne + 1 /\ DueOne' <= DueOne
    BY <2>2
  <2> QED
    BY <2>2, <2>3, <2>4, <2>5 DEF Budget
<1>7. CASE Midnight
  <2>1. /\ UNCHANGED <<stack, built, usr>>
        /\ count'.usr = count.usr /\ count'.night = count.night + 1
    BY <1>7 DEF Midnight, main_, Counted
  <2>2. /\ UsrOne' = UsrOne /\ PastOne' = PastOne
        /\ UsrOne \in {0, 1} /\ DueOne' \in {0, 1}
        /\ DueOne \in {0, 1} /\ PastOne \in {0, 1}
        /\ SetupOne' = SetupOne
        /\ SetupOne \in {0, 1}
    BY <2>1 DEF UsrOne, DueOne, SetupOne, PastOne, DueStill, PastSetup
  <2>3. /\ Len(stack) \in Nat /\ built \in Nat /\ count.usr \in Nat /\ count.night \in Nat
    BY BoundAssumption DEF Inv, Typed, Counted
  <2>4. /\ Len(stack') = Len(stack) /\ built' = built
        /\ count'.usr = count.usr /\ count'.night = count.night + 1
    BY <2>1
  <2>5. /\ UsrOne' <= UsrOne /\ DueOne' <= DueOne + 1
    BY <2>2
  <2> QED
    BY <2>2, <2>3, <2>4, <2>5 DEF Budget
<1>8. ASSUME UNCHANGED <<stack, built, usr, due>>,
             count'.usr = count.usr, count'.night = count.night
      PROVE  Budget'
  BY <1>8 DEF Budget, UsrOne, DueOne, SetupOne, PastOne, DueStill, PastSetup
<1>9. CASE \/ HandleInt \/ Interrupts \/ (Exit /\ UNCHANGED stack)
           \/ (\E g \in Gens, k \in Kinds : Dies(g, k) \/ Crashes(g, k))
           \/ UNCHANGED supervisor
  <2>1. UNCHANGED <<stack, built, usr, due>>
    BY <1>9 DEF HandleInt, Interrupts, Exit, Dies, Crashes, supervisor, main_, signals
  <2>2. count'.usr = count.usr /\ count'.night = count.night
    BY <1>9 DEF HandleInt, Interrupts, Exit, Dies, Crashes, supervisor, main_, signals, Counted
  <2> QED
    BY <1>8, <2>1, <2>2
<1>10. CASE StartLoop("main", "run") \/ StartLoop("restart", "release")
  <2>1. PICK fn \in {"main", "restart"},
             next \in {"run", "release"} :
               /\ StartLoop(fn, next)
               /\ fn = "main" => next = "run"
               /\ fn = "restart" => next = "release"
    BY <1>10
  <2>2. PICK at \in {next, "start"} : TopMoves(at)
    <3>1. CASE Goto(next)
      <4>1. TopMoves(next)
        BY <3>1, <2>1, Went DEF Inv, MainSteps, RestartSteps
      <4> QED
        BY <4>1
    <3>2. CASE ~Goto(next)
      <4> DEFINE f == [Top EXCEPT !.i = @ + 1]
      <4>1. stack' = [stack EXCEPT ![Len(stack)] = f] /\ Top.at = "start"
        BY <2>1, <3>2 DEF StartLoop, Top, At
      <4>3. Top \in Shape
        BY DEF Top, Inv, Typed
      <4>2. f \in Shape /\ f.fn = Top.fn /\ f.at = "start"
        BY <4>1, <4>3 DEF Shape
      <4> HIDE DEF f
      <4>4. TopMoves("start")
        BY <4>1, <4>2 DEF TopMoves, Inv, Typed
      <4> QED
        BY <4>4
    <3> QED
      BY <3>1, <3>2
  <2>3. Top.fn = fn /\ Top.at = "start" /\ UNCHANGED <<built, usr, due, count>>
    BY <2>1 DEF StartLoop, At, signals
  <2>4. CASE fn = "main"
    <3>1. /\ Len(stack) = 1 /\ Len(stack') = 1 /\ Top = stack[1] /\ stack'[1].at = at
          /\ ~PastSetup
      BY <2>2, <2>3, <2>4, MainGoes
    <3>2. DueStill' => DueStill
      BY <2>3, <3>1 DEF DueStill
    <3>3. at # "setup"
      BY <2>2
    <3> QED
      BY <2>3, <3>1, <3>2, <3>3, BudgetKept
  <2>5. CASE fn = "restart"
    <3>1. at \in {"start", "release"}
      BY <2>1, <2>2, <2>5
    <3>2. /\ Len(stack') = Len(stack) /\ stack'[1] = stack[1] /\ DueStill' = DueStill
          /\ PastSetup'
      BY <2>2, <2>3, <2>5, <3>1, RestartGoes
    <3> QED
      BY <2>3, <3>2, BudgetKept
  <2> QED
    BY <2>4, <2>5
<1>11. CASE Acquire \/ KillStep \/ Clear \/ (Join /\ ~NotStarted)
  <2>1. PICK at \in RestartSteps : Goto(at)
    BY <1>11 DEF Acquire, KillStep, Clear, Join, RestartSteps
  <2>2. /\ Top.fn = "restart" /\ Top.at \notin {"start", "release"}
        /\ UNCHANGED <<built, usr, due, count>>
    BY <1>11 DEF Acquire, KillStep, Clear, Join, At, signals
  <2>3. TopMoves(at)
    BY <2>1, Went DEF Inv
  <2>4. /\ Len(stack') = Len(stack) /\ stack'[1] = stack[1] /\ DueStill' = DueStill
        /\ PastSetup => PastSetup'
    BY <2>2, <2>3, RestartGoes
  <2> QED
    BY <2>2, <2>4, BudgetKept
<1>12. CASE \/ Run \/ Check \/ (WaitStep /\ ~due) \/ NightOver \/ Stop
            \/ (Exit /\ ~UNCHANGED stack)
  <2>1. PICK at \in MainSteps \ {"setup"} :
           /\ Goto(at)
           /\ at \in {"start", "run", "check", "wait"} =>
                Top.at \in {"start", "run", "check", "wait"} \/ ~due'
    BY <1>12 DEF Run, Check, WaitStep, NightOver, Stop, Exit, MainSteps, At
  <2>2. Top.fn = "main" /\ UNCHANGED <<built, usr, count>> /\ (due' => due)
    BY <1>12 DEF Run, Check, WaitStep, NightOver, Stop, Exit, At, signals
  <2>3. TopMoves(at)
    BY <2>1, Went DEF Inv
  <2>4. /\ Len(stack) = 1 /\ Len(stack') = 1 /\ Top = stack[1] /\ stack'[1].at = at
        /\ ~PastSetup
    BY <2>2, <2>3, MainGoes
  <2>5. DueStill' => DueStill
    BY <2>1, <2>2, <2>4 DEF DueStill
  <2> QED
    BY <2>1, <2>2, <2>4, <2>5, BudgetKept
<1> QED
  BY <1>1, <1>2, <1>3, <1>4, <1>5, <1>6, <1>7, <1>9, <1>10, <1>11, <1>12
     DEF Next, MainThread, Handlers
\* Nothing that is up goes down but by its own end, or with a reason.
UpsKept == services' = services /\ \A k \in Kinds : Up(k) => Up(k)'

LEMMA StillStarted ==
  ASSUME Inv, Started, UpsKept, UNCHANGED stack
  PROVE  Started'
<1>1. AllUp => AllUp'
  BY DEF AllUp, UpsKept
<1>2. \A j \in 1..Len(Order) : Order[j] \in Kinds
  BY KindsAssumption
<1>3. \A i \in 1..Len(stack) : Begun(i) => Begun(i)'
  BY <1>2 DEF Begun, UpsKept
<1>4. Outside' => Outside
  BY DEF Outside, Inside
<1>5. 1 \in 1..Len(stack)
  BY DEF Inv, Typed
<1>6. services' = services
  BY DEF UpsKept
<1> QED
  BY <1>1, <1>3, <1>4, <1>5, <1>6 DEF Started

\* Where processes and their excuses stay, so does what is up.
LEMMA SameUps == ASSUME UNCHANGED <<proc, services, excused>> PROVE UpsKept
  BY DEF UpsKept, Up

LEMMA WorldUps ==
  ASSUME Inv, Counted, Budget,
         \/ HandleInt \/ AsksRestart \/ Interrupts \/ Midnight
         \/ \E g \in Gens, k \in Kinds : Dies(g, k) \/ Crashes(g, k)
         \/ UNCHANGED supervisor
  PROVE  UpsKept
<1>1. proc \in [Gens -> [Kinds -> States]]
  BY DEF Inv, Typed
<1>2. CASE HandleInt
  <2>1. services' = services /\ excused \subseteq excused'
    BY <1>2 DEF HandleInt
  <2>2. ASSUME NEW k \in Kinds, Up(k) PROVE Up(k)'
    <3>1. CASE <<services, k>> \in excused
      BY <2>1, <3>1 DEF Up
    <3>2. CASE proc[services][k] = "alive" /\ services # 0
      <4>1. <<services, k>> \in excused'
        BY <1>2, <3>2 DEF HandleInt
      <4> QED
        BY <2>1, <4>1 DEF Up
    <3>3. CASE proc[services][k] = "alive" /\ services = 0
      <4>1. proc' = proc
        BY <1>2, <3>3 DEF HandleInt, KillsOf
      <4> QED
        BY <2>1, <3>3, <4>1 DEF Up
    <3> QED
      BY <2>2, <3>1, <3>2, <3>3 DEF Up
  <2> QED
    BY <2>1, <2>2 DEF UpsKept
<1>3. ASSUME NEW g \in Gens, NEW k \in Kinds, Dies(g, k) PROVE UpsKept
  <2>1. /\ services' = services /\ excused' = excused /\ proc[g][k] = "ending"
        /\ proc' = [proc EXCEPT ![g][k] = "dead"]
    BY <1>3 DEF Dies, main_
  <2>2. ASSUME NEW x \in Kinds, proc[services][x] = "alive"
        PROVE  proc'[services][x] = "alive"
    <3>1. ~(services = g /\ x = k)
      BY <2>1, <2>2
    <3>2. proc' = [proc EXCEPT ![g] = [proc[g] EXCEPT ![k] = "dead"]]
      BY <2>1
    <3>3. CASE services # g
      BY <1>1, <2>2, <3>2, <3>3, InGens DEF Up
    <3>4. CASE services = g
      BY <1>1, <2>2, <3>1, <3>2, <3>4
    <3> QED
      BY <3>3, <3>4
  <2> QED
    BY <2>1, <2>2 DEF UpsKept, Up
<1>4. ASSUME NEW g \in Gens, NEW k \in Kinds, Crashes(g, k) PROVE UpsKept
  <2>1. /\ services' = services /\ excused' = excused \cup {<<g, k>>}
        /\ proc' = [proc EXCEPT ![g][k] = "dead"]
    BY <1>4 DEF Crashes, main_
  <2>2. ASSUME NEW x \in Kinds, proc[services][x] = "alive"
        PROVE  proc'[services][x] = "alive" \/ <<services, x>> \in excused'
    <3>2. proc' = [proc EXCEPT ![g] = [proc[g] EXCEPT ![k] = "dead"]]
      BY <2>1
    <3>3. CASE services # g
      BY <1>1, <2>2, <3>2, <3>3, InGens DEF Up
    <3>4. CASE services = g /\ x # k
      BY <1>1, <2>2, <3>2, <3>4
    <3>5. CASE services = g /\ x = k
      BY <2>1, <3>5
    <3> QED
      BY <3>3, <3>4, <3>5
  <2> QED
    BY <2>1, <2>2 DEF UpsKept, Up
<1>5. CASE AsksRestart \/ Interrupts \/ Midnight \/ UNCHANGED supervisor
  BY <1>5, SameUps DEF AsksRestart, Interrupts, Midnight, supervisor, main_
<1> QED
  BY <1>2, <1>3, <1>4, <1>5

\* While a restart kills, waits or sets up, nothing is claimed.
LEMMA Busy ==
  ASSUME Inv, Top.fn = "restart", NEW at \in {"kill", "join", "clear", "setup"},
         TopMoves(at),
         \A i \in 1..Len(stack) : i # 1 /\ i # Len(stack) => stack[i].at = "acquire"
  PROVE  Started'
<1>1. /\ Len(stack) \in Nat /\ Len(stack) > 1 /\ Top = stack[Len(stack)]
      /\ Len(stack) \in 1..Len(stack)
  BY RestartAbove
<1>2. /\ Len(stack') = Len(stack) /\ stack'[Len(stack)].at = at
      /\ \A i \in 1..Len(stack) : i # Len(stack) => stack'[i] = stack[i]
  BY <1>1 DEF TopMoves
<1>3. ~Outside'
  BY <1>1, <1>2 DEF Outside, Inside
<1>4. \A i \in 1..Len(stack') : i # 1 => stack'[i].at \notin {"start", "release"}
  BY <1>1, <1>2
<1> QED
  BY <1>3, <1>4 DEF Started

\* Main's frame alone.
LEMMA MainStarted ==
  ASSUME Len(stack') = 1,
         stack'[1].at = "start" =>
           IF stack'[1].gen = services' THEN Begun(1)' ELSE AllUp',
         stack'[1].at \in {"run", "check", "wait", "night"} => AllUp'
  PROVE  Started'
<1>1. \A i \in 1..Len(stack') : i = 1
  OBVIOUS
<1> QED
  BY <1>1 DEF Started

\* A set-up begins a start with nothing begun.
LEMMA SetupStarted ==
  ASSUME Inv, NEW fn \in {"main", "restart"}, Setup(fn, "start")
  PROVE  Started'
<1>1. /\ Top.fn = fn /\ Top.at = "setup" /\ services' = built + 1 /\ built \in Nat
      /\ Enter("start", built + 1)
  BY DEF Setup, At, Inv, Typed
<1>2. /\ TopMoves("start") /\ stack'[Len(stack)].i = 1
      /\ stack'[Len(stack)].gen = services'
  BY <1>1, Entered DEF Inv, MainSteps
<1>3. Begun(Len(stack))'
  BY <1>1, <1>2 DEF Begun, TopMoves
<1>4. CASE fn = "main"
  <2>1. Len(stack) = 1 /\ Len(stack') = 1 /\ stack'[1].at = "start"
    BY <1>1, <1>2, <1>4, MainGoes
  <2>2. Begun(1)' /\ stack'[1].gen = services'
    BY <1>2, <1>3, <2>1 DEF Begun
  <2> QED
    BY <2>1, <2>2, MainStarted
<1>5. CASE fn = "restart"
  <2>1. /\ Len(stack) \in Nat /\ Len(stack) > 1 /\ Len(stack) \in 1..Len(stack)
    BY <1>1, <1>5, RestartAbove
  <2>2. \A i \in 1..Len(stack) : i # 1 /\ i # Len(stack) => stack[i].at = "acquire"
    BY <1>1, <1>5, AloneInside
  <2>3. /\ Len(stack') = Len(stack) /\ stack'[Len(stack)].at = "start"
        /\ \A i \in 1..Len(stack) : i # Len(stack) => stack'[i] = stack[i]
    BY <1>1, <1>2, <1>5, RestartGoes DEF TopMoves
  <2>4. ~Outside'
    BY <2>1, <2>3 DEF Outside, Inside
  <2>5. \A i \in 1..Len(stack') : i # 1 /\ i # Len(stack) => stack'[i].at = "acquire"
    BY <2>2, <2>3
  <2> QED
    BY <1>2, <1>3, <2>3, <2>4, <2>5 DEF Started, Begun
<1> QED
  BY <1>4, <1>5

\* A service that is started is up, or found its port taken; the others stay.
LEMMA StartsOne ==
  ASSUME Inv, Counted, Budget, services # 0, Top.gen = services, ~AllStarted,
         NEW fn, NEW next, StartLoop(fn, next), NEW k \in Kinds, k = Order[Top.i]
  PROVE  /\ UpsKept /\ Up(k)'
         /\ stack'[Len(stack)].i = Top.i + 1 /\ stack'[Len(stack)].gen = Top.gen
         /\ TopMoves("start")
<1> DEFINE s == IF PortTaken(services, k) THEN "dead" ELSE "alive"
           f == [Top EXCEPT !.i = @ + 1]
<1>1. Top \in Shape /\ Top.at = "start"
  BY DEF Inv, Typed, Top, StartLoop, At
<1>2. k \in Kinds
  OBVIOUS
<1>3. /\ services' = services
      /\ stack' = [stack EXCEPT ![Len(stack)] = f]
      /\ proc' = [proc EXCEPT ![services] = [proc[services] EXCEPT ![k] = s]]
      /\ excused' = IF PortTaken(services, k) THEN excused \cup {<<services, k>>}
                    ELSE excused
  BY DEF StartLoop, Top
<1>4. f \in Shape /\ f.fn = Top.fn /\ f.at = "start" /\ f.i = Top.i + 1 /\ f.gen = Top.gen
  BY <1>1 DEF Shape
<1> HIDE DEF f
<1>5. TopMoves("start") /\ stack'[Len(stack)] = f
  BY <1>3, <1>4 DEF TopMoves, Inv, Typed
<1>6. proc \in [Gens -> [Kinds -> States]] /\ services \in Gens
  BY InGens DEF Inv, Typed
<1>7. \A x \in Kinds : proc'[services][x] = IF x = k THEN s ELSE proc[services][x]
  <2> HIDE DEF s
  <2> QED
    BY <1>2, <1>3, <1>6
<1>8. Up(k)'
  BY <1>2, <1>3, <1>7 DEF Up
<1>9. \A x \in Kinds : Up(x) => Up(x)'
  <2> TAKE x \in Kinds
  <2>1. CASE x = k
    BY <1>8, <2>1
  <2>2. CASE x # k
    <3>1. proc'[services][x] = proc[services][x]
      BY <1>7, <2>2
    <3>2. excused \subseteq excused'
      BY <1>3
    <3> QED
      BY <1>3, <3>1, <3>2 DEF Up
  <2> QED
    BY <2>1, <2>2
<1> QED
  BY <1>3, <1>4, <1>5, <1>8, <1>9 DEF UpsKept
\* Every service has its place in the order of starts.
LEMMA EachStarted ==
  ASSUME services # 0, AllStarted, Top.i \in Nat,
         \A j \in 1..Len(Order) : j < Top.i => Up(Order[j])
  PROVE  AllUp
<1>1. ASSUME NEW k \in Kinds PROVE Up(k)
  <2>1. PICK j \in 1..Len(Order) : Order[j] = k
    BY <1>1, KindsAssumption
  <2>2. j < Top.i
    BY <2>1, KindsAssumption DEF AllStarted
  <2> QED
    BY <2>1, <2>2
<1> QED
  BY <1>1 DEF AllUp

LEMMA MainStarts ==
  ASSUME Inv, Counted, Budget, Started, StartLoop("main", "run")
  PROVE  Started'
<1>1. Top.fn = "main" /\ Top.at = "start" /\ services' = services
  BY DEF StartLoop, At
<1>2. Len(stack) = 1 /\ Top = stack[1] /\ Outside /\ Top \in Shape
  BY <1>1, MainAlone DEF Inv, Typed
<1>3. IF Top.gen = services THEN Begun(1) ELSE AllUp
  BY <1>1, <1>2 DEF Started
<1>4. CASE Top.gen # services \/ AllStarted
  <2>1. Goto("run") /\ UNCHANGED <<proc, excused>>
    BY <1>4 DEF StartLoop
  <2>2. AllUp
    <3>1. CASE Top.gen # services
      BY <1>3, <3>1
    <3>2. CASE Top.gen = services
      <4>1. services # 0 /\ \A j \in 1..Len(Order) : j < Top.i => Up(Order[j])
        BY <1>2, <1>3, <3>2 DEF Begun
      <4>2. AllStarted /\ Top.i \in Nat
        BY <1>2, <1>4, <3>2 DEF Shape
      <4> QED
        BY <4>1, <4>2, EachStarted
    <3> QED
      BY <3>1, <3>2
  <2>3. AllUp'
    BY <1>1, <2>1, <2>2 DEF AllUp, Up
  <2>4. TopMoves("run")
    BY <2>1, Went DEF Inv, MainSteps
  <2>5. Len(stack') = 1 /\ stack'[1].at = "run"
    BY <1>1, <2>4, MainGoes
  <2> QED
    BY <2>3, <2>5, MainStarted
<1>5. CASE Top.gen = services /\ ~AllStarted
  <2>1. services # 0 /\ \A j \in 1..Len(Order) : j < Top.i => Up(Order[j])
    BY <1>2, <1>3, <1>5 DEF Begun
  <2>2. Top.i \in 1..Len(Order)
    BY <1>2, <1>5, KindsAssumption DEF AllStarted, Shape
  <2>3. PICK k \in Kinds : k = Order[Top.i]
    BY <2>2, KindsAssumption
  <2>4. /\ UpsKept /\ Up(k)'
        /\ stack'[Len(stack)].i = Top.i + 1 /\ stack'[Len(stack)].gen = Top.gen
        /\ TopMoves("start")
    BY <1>5, <2>1, <2>3, StartsOne
  <2>5. Len(stack') = 1 /\ stack'[1].at = "start"
    BY <1>1, <2>4, MainGoes
  <2>6. ASSUME NEW j \in 1..Len(Order), j < stack'[1].i PROVE Up(Order[j])'
    <3>1. Order[j] \in Kinds
      BY <2>6, KindsAssumption
    <3>2. j < Top.i \/ j = Top.i
      BY <1>2, <2>2, <2>4, <2>6
    <3>3. CASE j < Top.i
      BY <2>1, <2>4, <3>1, <3>3 DEF UpsKept
    <3>4. CASE j = Top.i
      <4>1. k = Order[j]
        BY <2>3, <3>4
      <4> QED
        BY <2>4, <4>1
    <3> QED
      BY <3>2, <3>3, <3>4
  <2>7. Begun(1)' /\ stack'[1].gen = services'
    BY <1>1, <1>2, <1>5, <2>1, <2>4, <2>6 DEF Begun
  <2> QED
    BY <2>5, <2>7, MainStarted
<1> QED
  BY <1>4, <1>5

LEMMA RestartStarts ==
  ASSUME Inv, Counted, Budget, Started, StartLoop("restart", "release")
  PROVE  Started'
<1> DEFINE n == Len(stack)
<1>1. Top.fn = "restart" /\ Top.at = "start" /\ services' = services
  BY DEF StartLoop, At
<1>2. n \in Nat /\ n > 1 /\ Top = stack[n] /\ n \in 1..n /\ Top \in Shape
  BY <1>1, RestartAbove DEF Inv, Typed
<1>3. \A i \in 1..n : i # 1 /\ i # n => stack[i].at = "acquire"
  BY <1>1, AloneInside
<1>4. Top.gen = services /\ Begun(n)
  BY <1>1, <1>2 DEF Started
<1>5. services # 0 /\ \A j \in 1..Len(Order) : j < Top.i => Up(Order[j])
  BY <1>2, <1>4 DEF Begun
<1>6. ASSUME NEW at \in {"start", "release"}, TopMoves(at)
      PROVE  /\ ~Outside' /\ Len(stack') = n /\ stack'[n].at = at
             /\ \A i \in 1..n : i # 1 /\ i # n => stack'[i].at = "acquire"
  <2>1. /\ Len(stack') = n /\ stack'[n].at = at
        /\ \A i \in 1..n : i # n => stack'[i] = stack[i]
    BY <1>2, <1>6 DEF TopMoves
  <2> QED
    BY <1>2, <1>3, <1>6, <2>1 DEF Outside, Inside
<1>7. CASE AllStarted
  <2>1. Goto("release") /\ UNCHANGED <<proc, excused>>
    BY <1>7 DEF StartLoop
  <2>2. AllUp
    BY <1>2, <1>5, <1>7, EachStarted DEF Shape
  <2>3. AllUp'
    BY <1>1, <2>1, <2>2 DEF AllUp, Up
  <2>4. TopMoves("release")
    BY <2>1, Went DEF Inv, RestartSteps
  <2>5. /\ ~Outside' /\ Len(stack') = n /\ stack'[n].at = "release"
        /\ \A i \in 1..n : i # 1 /\ i # n => stack'[i].at = "acquire"
    BY <1>6, <2>4
  <2> HIDE DEF n
  <2> QED
    BY <2>3, <2>5 DEF Started
<1>8. CASE ~AllStarted
  <2>2. Top.i \in 1..Len(Order)
    BY <1>2, <1>8, KindsAssumption DEF AllStarted, Shape
  <2>3. PICK k \in Kinds : k = Order[Top.i]
    BY <2>2, KindsAssumption
  <2>4. /\ UpsKept /\ Up(k)'
        /\ stack'[n].i = Top.i + 1 /\ stack'[n].gen = Top.gen
        /\ TopMoves("start")
    BY <1>4, <1>5, <1>8, <2>3, StartsOne
  <2>5. /\ ~Outside' /\ Len(stack') = n /\ stack'[n].at = "start"
        /\ \A i \in 1..n : i # 1 /\ i # n => stack'[i].at = "acquire"
    BY <1>6, <2>4
  <2> HIDE DEF n
  <2>6. ASSUME NEW j \in 1..Len(Order), j < stack'[n].i PROVE Up(Order[j])'
    <3>1. Order[j] \in Kinds
      BY <2>6, KindsAssumption
    <3>2. j < Top.i \/ j = Top.i
      BY <1>2, <2>2, <2>4, <2>6
    <3>3. CASE j < Top.i
      BY <1>5, <2>4, <3>1, <3>3 DEF UpsKept
    <3>4. CASE j = Top.i
      <4>1. k = Order[j]
        BY <2>3, <3>4
      <4> QED
        BY <2>4, <4>1
    <3> QED
      BY <3>2, <3>3, <3>4
  <2>7. \A i \in 1..n : i = n =>
          services' # 0 /\ \A j \in 1..Len(Order) : j < stack'[i].i => Up(Order[j])'
    BY <1>1, <1>5, <2>6
  <2>8. \A i \in 1..n : i = n => Begun(i)'
    BY <2>7 DEF Begun
  <2>9. stack'[n].gen = services'
    BY <1>1, <1>4, <2>4
  <2> QED
    BY <2>5, <2>8, <2>9 DEF Started
<1> QED
  BY <1>7, <1>8

\* The restart that leaves has everything up.
LEMMA ReleaseStarted == ASSUME Inv, Started, Release PROVE Started'
<1> DEFINE n == Len(stack)
<1>1. /\ Top.fn = "restart" /\ Top.at = "release" /\ stack' = SubSeq(stack, 1, n - 1)
      /\ UNCHANGED <<proc, services, excused>>
  BY DEF Release, At, Return, signals
<1>2. n \in Nat /\ n > 1 /\ Top = stack[n] /\ n \in 1..n /\ stack \in Seq(Shape)
  BY <1>1, RestartAbove DEF Inv, Typed
<1>3. /\ Len(stack') = n - 1 /\ \A i \in 1..(n - 1) : stack'[i] = stack[i]
  <2>1. n - 1 \in Int /\ \A i \in 1..(n - 1) : stack[i] \in Shape
    BY <1>2
  <2> HIDE DEF n
  <2>2. /\ Len(stack') = IF 1 <= n - 1 THEN n - 1 - 1 + 1 ELSE 0
        /\ \A i \in 1..(n - 1 - 1 + 1) : stack'[i] = stack[1 + i - 1]
    BY <1>1, <2>1, SubSeqProperties
  <2> QED
    BY <1>2, <2>2
<1>4. \A i \in 1..n : i # 1 /\ i # n => stack[i].at = "acquire"
  BY <1>1, AloneInside
<1>5. AllUp
  BY <1>1, <1>2 DEF Started
<1>6. AllUp'
  BY <1>1, <1>5 DEF AllUp, Up
<1>7. Begun(1)'
  <2>1. \A j \in 1..Len(Order) : Order[j] \in Kinds
    BY KindsAssumption
  <2> QED
    BY <1>6, <2>1 DEF Begun, AllUp
<1>8. \A i \in 1..(n - 1) : i # 1 => stack'[i].at = "acquire"
  BY <1>2, <1>3, <1>4
<1> HIDE DEF n
<1> QED
  BY <1>3, <1>6, <1>7, <1>8 DEF Started

\* A call that waits claims nothing.
LEMMA CallStarted ==
  ASSUME Inv, Started, HandleUsr \/ (WaitStep /\ due) PROVE Started'
<1> DEFINE n == Len(stack)
<1>1. n \in Nat /\ n >= 1 /\ stack \in Seq(Shape) /\ 1 \in 1..n
  BY DEF Inv, Typed
<1>2. Call.at = "acquire" /\ \A i \in 1..(n + 1) : i \in 1..n \/ i = n + 1
  BY <1>1 DEF Call
<1>3. CASE HandleUsr
  <2>1. stack' = Append(stack, Call) /\ UNCHANGED <<proc, services, excused>>
    BY <1>3 DEF HandleUsr
  <2>2. /\ Len(stack') = n + 1 /\ stack'[n + 1] = Call
        /\ \A i \in 1..n : stack'[i] = stack[i]
    BY <1>1, <2>1, Called
  <2>3. AllUp' = AllUp /\ \A i \in 1..n : Begun(i) => Begun(i)'
    BY <2>1, <2>2 DEF AllUp, Begun, Up
  <2> HIDE DEF n
  <2>4. Outside' => Outside
    <3>1. n = Len(stack)
      BY DEF n
    <3>2. \A i \in 1..n : i \in 1..(n + 1)
      BY <1>1
    <3> QED
      BY <2>2, <3>1, <3>2 DEF Outside, Inside
  <2>5. ASSUME NEW i \in 1..Len(stack'), i # 1
        PROVE  /\ stack'[i].at = "start" => stack'[i].gen = services' /\ Begun(i)'
               /\ stack'[i].at = "release" => AllUp'
    <3>1. CASE i \in 1..n
      BY <2>1, <2>2, <2>3, <2>5, <3>1 DEF Started, n
    <3>2. CASE i = n + 1
      BY <1>2, <2>2, <3>2
    <3> QED
      BY <1>2, <2>2, <2>5, <3>1, <3>2
  <2>6. Outside' =>
         /\ stack'[1].at = "start" =>
              IF stack'[1].gen = services' THEN Begun(1)' ELSE AllUp'
         /\ stack'[1].at \in {"run", "check", "wait", "night"} => AllUp'
    BY <1>1, <2>1, <2>2, <2>3, <2>4 DEF Started
  <2> QED
    BY <2>5, <2>6 DEF Started
<1>4. CASE WaitStep /\ due
  <2> DEFINE s == [stack EXCEPT ![1].at = "night"]
  <2>1. /\ stack' = Append(s, Call) /\ UNCHANGED <<proc, services, excused>>
        /\ Top.fn = "main" /\ Top.at = "wait"
    BY <1>4 DEF WaitStep, At
  <2>2. n = 1 /\ Top = stack[1] /\ Outside
    BY <2>1, MainAlone
  <2>3. AllUp'
    <3>1. AllUp
      BY <2>1, <2>2 DEF Started
    <3> QED
      BY <2>1, <3>1 DEF AllUp, Up
  <2> DEFINE f == [stack[1] EXCEPT !.at = "night"]
  <2>4. stack[1] \in Shape
    BY <1>1
  <2>5. f \in Shape /\ f.at = "night"
    BY <2>4 DEF Shape, MainSteps
  <2>6. s = [stack EXCEPT ![1] = f]
    OBVIOUS
  <2> HIDE DEF f
  <2>7. s \in Seq(Shape) /\ Len(s) = 1 /\ s[1] = f
    BY <1>1, <2>2, <2>5, <2>6
  <2> HIDE DEF s
  <2>8. Len(stack') = 2 /\ stack'[1].at = "night" /\ stack'[2] = Call
    BY <2>1, <2>5, <2>7, Called
  <2> QED
    BY <1>2, <2>3, <2>8 DEF Started
<1> QED
  BY <1>3, <1>4

\* What an exception leaves is on its way out.
LEMMA FallsStarted == ASSUME Inv, Raise PROVE Started'
<1>1. Len(stack') = 1 /\ stack'[1].at \in {"stop", "exit"}
  BY Raised DEF Inv
<1> QED
  BY <1>1, MainStarted

LEMMA StartedStep ==
  ASSUME Inv, Counted, Budget, Started, [Next]_supervisor PROVE Started'
<1>1. CASE Setup("main", "start") \/ Setup("restart", "start")
  BY <1>1, SetupStarted
<1>2. CASE StartLoop("main", "run") \/ StartLoop("restart", "release")
  BY <1>2, MainStarts, RestartStarts
<1>3. CASE Release \/ HandleUsr \/ (WaitStep /\ due)
  BY <1>3, ReleaseStarted, CallStarted
<1>4. CASE SetupFails \/ (Join /\ NotStarted)
  BY <1>4, FallsStarted DEF SetupFails, Join
<1>5. CASE \/ HandleInt \/ AsksRestart \/ Interrupts \/ Midnight
           \/ (\E g \in Gens, k \in Kinds : Dies(g, k) \/ Crashes(g, k))
           \/ UNCHANGED supervisor
  <2>1. UNCHANGED stack
    BY <1>5 DEF HandleInt, AsksRestart, Interrupts, Midnight, Dies, Crashes, supervisor,
       main_
  <2> QED
    BY <1>5, <2>1, WorldUps, StillStarted
<1>6. CASE Acquire \/ KillStep \/ Clear \/ (Join /\ ~NotStarted)
  <2>1. PICK at \in {"kill", "join", "clear", "setup"} : Goto(at)
    BY <1>6 DEF Acquire, KillStep, Clear, Join
  <2>2. Top.fn = "restart"
    BY <1>6 DEF Acquire, KillStep, Clear, Join, At
  <2>3. TopMoves(at)
    BY <2>1, Went DEF Inv, RestartSteps
  <2>4. \A i \in 1..Len(stack) : i # 1 /\ i # Len(stack) => stack[i].at = "acquire"
    <3>1. CASE Acquire
      BY <3>1 DEF Acquire, LockFree, Inv, Locked, Inside
    <3>2. CASE ~Acquire
      <4>1. Top.at # "acquire"
        BY <1>6, <3>2 DEF KillStep, Clear, Join, At
      <4> QED
        BY <2>2, <4>1, AloneInside
    <3> QED
      BY <3>1, <3>2
  <2> QED
    BY <2>2, <2>3, <2>4, Busy
<1>7. CASE Run \/ Check \/ (WaitStep /\ ~due) \/ NightOver \/ Stop \/ Exit
  <2>1. Top.fn = "main" /\ Top.at \in MainSteps
    BY <1>7 DEF Run, Check, WaitStep, NightOver, Stop, Exit, At, MainSteps
  <2>2. Len(stack) = 1 /\ Top = stack[1] /\ Outside
    BY <2>1, MainAlone
  <2>3. CASE Exit /\ UNCHANGED stack
    <3>1. Len(stack') = 1 /\ stack'[1].at = "exit"
      BY <2>2, <2>3 DEF Exit, At
    <3> QED
      BY <3>1, MainStarted
  <2>4. CASE ~(Exit /\ UNCHANGED stack)
    <3>1. PICK at \in MainSteps \ {"start"} :
            /\ Goto(at)
            /\ at \in {"run", "check", "wait", "night"} =>
                 /\ Top.at \in {"run", "check", "wait", "night"}
                 /\ UNCHANGED <<proc, services, excused>>
      BY <1>7, <2>4 DEF Run, Check, WaitStep, NightOver, Stop, Exit, At, MainSteps, signals
    <3>2. TopMoves(at)
      BY <3>1, Went DEF Inv
    <3>3. Len(stack') = 1 /\ stack'[1].at = at
      BY <2>1, <3>2, MainGoes
    <3>4. ASSUME at \in {"run", "check", "wait", "night"} PROVE AllUp'
      <4>1. AllUp
        BY <2>2, <3>1, <3>4 DEF Started
      <4> QED
        BY <3>1, <3>4, <4>1 DEF AllUp, Up
    <3> QED
      BY <3>1, <3>3, <3>4, MainStarted
  <2> QED
    BY <2>3, <2>4
<1> QED
  BY <1>1, <1>2, <1>3, <1>4, <1>5, <1>6, <1>7 DEF Next, MainThread, Handlers

LEMMA AllInvHolds == Spec => []AllInv
<1>1. Init => AllInv
  <2> SUFFICES ASSUME Init PROVE AllInv
    OBVIOUS
  <2> DEFINE m == [fn |-> "main", at |-> "setup", i |-> 1, gen |-> 0]
  <2>1. m.at = "setup" /\ m.gen = 0
    OBVIOUS
  <2>2. stack = <<m>>
    BY DEF Init
  <2> HIDE DEF m
  <2>3. Len(stack) = 1 /\ stack[1].at = "setup" /\ stack[1].gen = 0
        /\ \A i \in 1..Len(stack) : i = 1
    BY <2>1, <2>2
  <2>4. count \in [usr : 0..MaxUsr, int : 0..MaxInt, night : 0..MaxNights,
                   crash : 0..MaxCrashes, setup : 0..MaxFailures]
    BY BoundAssumption DEF Init
  <2>5. GensFit
    BY <2>3 DEF Init, GensFit
  <2>6. Counted
    <3>1. /\ usr \in BOOLEAN /\ int \in BOOLEAN /\ due \in BOOLEAN
          /\ running \in BOOLEAN /\ lock \in BOOLEAN /\ excused = {}
      BY DEF Init
    <3>2. services \in 0..built
      BY DEF Init
    <3> QED
      BY <2>4, <2>5, <3>1, <3>2 DEF Counted
  <2>7. Budget
    <3>1. /\ UsrOne = 0 /\ DueOne = 0 /\ SetupOne = 1 /\ PastOne = 0
          /\ built = 0 /\ count.usr = 0 /\ count.night = 0
      BY <2>3 DEF Init, UsrOne, DueOne, DueStill, SetupOne, PastOne, PastSetup
    <3> QED
      BY <2>3, <3>1 DEF Budget
  <2>8. Started
    BY <2>3 DEF Started
  <2> QED
    BY <2>6, <2>7, <2>8, InitInv DEF AllInv
<1>2. AllInv /\ [Next]_supervisor => AllInv'
  BY InvNext, CountedStep, BudgetStep, StartedStep DEF AllInv
<1> QED
  BY <1>1, <1>2, PTL DEF Spec

\* Variables keep their types; there is a generation for every set-up.
THEOREM TypeCorrect == Spec => []TypeOK
<1>1. AllInv => TypeOK
  <2> SUFFICES ASSUME AllInv PROVE TypeOK
    OBVIOUS
  <2>1. built \in 0..(1 + MaxUsr + MaxNights)
    BY InGens DEF AllInv
  <2>2. \A g \in 0..built : g \in {0} \cup Gens
    BY <2>1, BoundAssumption DEF Gens
  <2>3. built \in 0..built
    BY <2>1, BoundAssumption
  <2>4. stack \in Seq(Shape) /\ stack # <<>>
    BY DEF AllInv, Inv, Typed
  <2>5. \A i \in 1..Len(stack) : stack[i] \in Frame
    <3> TAKE i \in 1..Len(stack)
    <3>1. stack[i] \in Shape /\ stack[i].gen \in 0..built
      BY <2>4 DEF AllInv, Counted, GensFit
    <3>2. stack[i].gen \in {0} \cup Gens
      BY <2>2, <3>1
    <3> QED
      BY <3>1, <3>2 DEF Shape, Frame
  <2>6. stack \in Seq(Frame)
    BY <2>4, <2>5
  <2> QED
    BY <2>2, <2>3, <2>4, <2>6 DEF TypeOK, AllInv, Inv, Typed, Counted
<1> QED
  BY <1>1, AllInvHolds, PTL

\* Main never goes on with half a set-up: in its loop every service of the present
\* generation runs, or ended by itself, or found its port taken, or was killed by
\* SIGINT, whichever restart came in the middle of whichever start
\* (server.py:143-226).
THEOREM Serves == Spec => []Serving
<1>1. AllInv => Serving
  <2> SUFFICES ASSUME AllInv, InLoop
               PROVE  AllUp
    BY DEF Serving, AllUp, Up
  <2>1. Outside /\ Top = stack[1]
    BY DEF InLoop, Top, Outside, Inside, AllInv, Inv, Typed
  <2> QED
    BY <2>1 DEF AllInv, Started, InLoop
<1> QED
  BY <1>1, AllInvHolds, PTL
=============================================================================
