----------------------------- MODULE Supervisor -----------------------------
(***************************************************************************)
(* The main process (server.py main): it sets the services up, starts a    *)
(* process for each and waits.  SIGUSR1, which the web process sends when  *)
(* an administrator asks for a restart (rest/admin.py), and midnight make  *)
(* it kill them all, set them up anew from the configuration and start     *)
(* them; SIGINT makes it stop.  The handlers run inside whatever the main  *)
(* thread is doing, and inside each other: `stack' holds the frames.       *)
(*                                                                         *)
(* The processes of one set-up are a generation.  The handler of SIGINT is *)
(* one step: it only sends signals.  Windows services are left out.        *)
(***************************************************************************)
EXTENDS Integers, Sequences, FiniteSets

CONSTANTS
  Kinds,         \* the services
  Order,         \* the order they are started in
  Web,           \* the services that send SIGUSR1
  Ports,         \* the services that listen on a port
  Slow,          \* the services that may take more than 10 s to terminate
  MaxUsr, MaxInt, MaxNights, MaxCrashes, MaxFailures
                 \* bounds: signals, midnights, crashes, failures of setup

Gens == 1..(1 + MaxUsr + MaxNights)

ASSUME KindsAssumption ==
  /\ IsFiniteSet(Kinds)
  /\ Order \in Seq(Kinds)
  /\ \A k \in Kinds : \E i \in 1..Len(Order) : Order[i] = k
  /\ \A i, j \in 1..Len(Order) : Order[i] = Order[j] => i = j
  /\ Web \subseteq Kinds /\ Ports \subseteq Kinds /\ Slow \subseteq Kinds
ASSUME BoundAssumption ==
  /\ MaxUsr \in Nat /\ MaxInt \in Nat /\ MaxNights \in Nat
  /\ MaxCrashes \in Nat /\ MaxFailures \in Nat

VARIABLES
  proc,      \* the process of a service in a generation
  built,     \* generations set up
  services,  \* the generation in the list `services', 0 when it is empty
  running,   \* sys.running
  lock,      \* restart_lock is held
  stack,     \* the frames of the main thread, main's first
  due,       \* reload_timeout < 0
  usr, int,  \* SIGUSR1, SIGINT pending
  count,     \* signals, midnights, crashes, failures of setup so far
  excused    \* history: processes that a crash, SIGINT or a port took

main_ == <<running, lock, stack, services, built>>
signals == <<usr, int, due, count>>
supervisor == <<proc, main_, signals, excused>>

States == {"none", "new", "alive", "ending", "dead"}
MainSteps == {"setup", "start", "run", "check", "wait", "night", "stop",
              "exit", "ended"}
RestartSteps == {"acquire", "kill", "join", "clear", "setup", "start",
                 "release"}

Frame == [fn : {"main", "restart"}, at : MainSteps \cup RestartSteps, i : Nat,
          gen : {0} \cup Gens]

TypeOK ==
  /\ proc \in [Gens -> [Kinds -> States]]
  /\ built \in {0} \cup Gens /\ services \in 0..built
  /\ running \in BOOLEAN /\ lock \in BOOLEAN
  /\ stack \in Seq(Frame) /\ stack # <<>>
  /\ due \in BOOLEAN /\ usr \in BOOLEAN /\ int \in BOOLEAN
  /\ excused \subseteq Gens \X Kinds

Init ==
  /\ proc = [g \in Gens |-> [k \in Kinds |-> "none"]]
  /\ built = 0 /\ services = 0
  /\ running = FALSE /\ lock = FALSE
  /\ stack = <<[fn |-> "main", at |-> "setup", i |-> 1, gen |-> 0]>>
  /\ due = FALSE /\ usr = FALSE /\ int = FALSE
  /\ count = [usr |-> 0, int |-> 0, night |-> 0, crash |-> 0, setup |-> 0]
  /\ excused = {}

----------------------------------------------------------------------------
(* The stack *)

Top == stack[Len(stack)]
At(fn, at) == Top.fn = fn /\ Top.at = at
Goto(at) == stack' = [stack EXCEPT ![Len(stack)].at = at]
Enter(at, g) ==                                   \* a loop over generation g
  stack' = [stack EXCEPT ![Len(stack)] =
              [fn |-> Top.fn, at |-> at, i |-> 1, gen |-> g]]
Call == [fn |-> "restart", at |-> "acquire", i |-> 1, gen |-> 0]
Return == stack' = SubSeq(stack, 1, Len(stack) - 1)

Ended == At("main", "ended")

\* An exception: main catches it in its loop, where it stops; elsewhere it
\* ends the program.  Restart's frames do not catch and do not release.
Guarded == {"wait", "night"}
Raise ==
  IF stack[1].at \in Guarded
  THEN stack' = <<[stack[1] EXCEPT !.at = "stop"]>> /\ running' = FALSE
  ELSE stack' = <<[stack[1] EXCEPT !.at = "exit"]>> /\ UNCHANGED running

----------------------------------------------------------------------------
(* Processes *)

Alive(g, k) == proc[g][k] \in {"alive", "ending"}

\* terminate: a process not started yet raises, which kill catches.
Terminated(g) ==
  [h \in Gens |-> [k \in Kinds |->
     IF h = g /\ proc[h][k] = "alive" THEN "ending" ELSE proc[h][k]]]

Dies(g, k) ==
  /\ proc[g][k] = "ending"
  /\ proc' = [proc EXCEPT ![g][k] = "dead"]
  /\ UNCHANGED <<main_, signals, excused>>

\* A service ends by itself; nothing starts it again.
Crashes(g, k) ==
  /\ proc[g][k] = "alive" /\ count.crash < MaxCrashes
  /\ count' = [count EXCEPT !.crash = @ + 1]
  /\ proc' = [proc EXCEPT ![g][k] = "dead"]
  /\ excused' = excused \cup {<<g, k>>}
  /\ UNCHANGED <<main_, usr, int, due>>

\* rest/admin.py kill: only a web process sends SIGUSR1.
AsksRestart ==
  /\ \E g \in Gens, k \in Web : proc[g][k] = "alive"
  /\ count.usr < MaxUsr /\ ~Ended
  /\ count' = [count EXCEPT !.usr = @ + 1]
  /\ usr' = TRUE
  /\ UNCHANGED <<proc, main_, int, due, excused>>

Interrupts ==
  /\ count.int < MaxInt /\ ~Ended
  /\ count' = [count EXCEPT !.int = @ + 1]
  /\ int' = TRUE
  /\ UNCHANGED <<proc, main_, usr, due, excused>>

Midnight ==
  /\ count.night < MaxNights /\ ~Ended
  /\ count' = [count EXCEPT !.night = @ + 1]
  /\ due' = TRUE
  /\ UNCHANGED <<proc, main_, usr, int, excused>>

----------------------------------------------------------------------------
(* Signal handlers *)

Interruptible == ~(Top.fn = "main" /\ Top.at \in {"exit", "ended"})

\* The handler of SIGUSR1 is restart: a frame on top of what runs.
HandleUsr ==
  /\ usr /\ Interruptible
  /\ usr' = FALSE
  /\ stack' = Append(stack, Call)
  /\ UNCHANGED <<proc, running, lock, services, built, int, due, count,
                 excused>>

KillsOf(g) == IF g = 0 THEN proc ELSE Terminated(g)

\* The handler of SIGINT is kill.  What is started later is not killed by it.
HandleInt ==
  /\ int /\ Interruptible
  /\ int' = FALSE
  /\ running' = FALSE
  /\ proc' = KillsOf(services)
  /\ excused' = excused \cup {p \in {services} \X Kinds :
                               p[1] # 0 /\ proc[p[1]][p[2]] = "alive"}
  /\ UNCHANGED <<lock, stack, services, built, usr, due, count>>

----------------------------------------------------------------------------
(* setup and start, of main and of restart *)

\* setup(): a generation of processes not yet started.
Setup(fn, next) ==
  /\ At(fn, "setup")
  /\ built' = built + 1 /\ services' = built + 1
  /\ proc' = [proc EXCEPT ![built + 1] = [k \in Kinds |-> "new"]]
  /\ running' = TRUE                              \* start() begins with it
  /\ Enter(next, built + 1)
  /\ UNCHANGED <<lock, signals, excused>>

\* The configuration cannot be read.
SetupFails ==
  /\ Top.at = "setup" /\ count.setup < MaxFailures
  /\ count' = [count EXCEPT !.setup = @ + 1]
  /\ Raise
  /\ UNCHANGED <<proc, lock, services, built, usr, int, due, excused>>

\* The port of a service is taken while an older process of it lives: the new
\* one logs that and ends.
PortTaken(g, k) == k \in Ports /\ \E h \in Gens \ {g} : Alive(h, k)

AllStartedEarly == Top.i >= Len(Order)           \* mutant: the last is left out
AllStarted == Top.i > Len(Order)

\* The loop of start ends when a handler has emptied its list.
StartLoop(fn, next) ==
  LET g == Top.gen k == Order[Top.i]
  IN  /\ At(fn, "start")
      /\ IF g # services \/ AllStarted
         THEN Goto(next) /\ UNCHANGED <<proc, excused>>
         ELSE /\ stack' = [stack EXCEPT ![Len(stack)].i = @ + 1]
              /\ proc' = [proc EXCEPT ![g][k] =
                            IF PortTaken(g, k) THEN "dead" ELSE "alive"]
              /\ excused' = IF PortTaken(g, k) THEN excused \cup {<<g, k>>}
                            ELSE excused
      /\ UNCHANGED <<running, lock, services, built, signals>>

----------------------------------------------------------------------------
(* restart *)

AcquireNothing == TRUE                           \* mutant: no lock
LockFree == ~lock

Acquire ==
  /\ At("restart", "acquire") /\ LockFree
  /\ lock' = TRUE /\ Goto("kill")
  /\ UNCHANGED <<proc, running, services, built, signals, excused>>

KillStep ==
  /\ At("restart", "kill") /\ Goto("join")
  /\ running' = FALSE /\ proc' = KillsOf(services)
  /\ UNCHANGED <<lock, services, built, signals, excused>>

NotStarted == services # 0 /\ \E k \in Kinds : proc[services][k] = "new"

JoinedForEver ==                                 \* mutant: join()
  services # 0 => \A k \in Kinds : ~Alive(services, k)
\* wait(10): joined, or the time is over.
Joined == services # 0 => \A k \in Kinds \ Slow : ~Alive(services, k)

\* join raises on a process that was not started.
Join ==
  /\ At("restart", "join")
  /\ IF NotStarted THEN Raise
     ELSE Joined /\ Goto("clear") /\ UNCHANGED running
  /\ UNCHANGED <<proc, lock, services, built, signals, excused>>

Clear ==
  /\ At("restart", "clear") /\ Goto("setup")
  /\ services' = 0
  /\ UNCHANGED <<proc, running, lock, built, signals, excused>>

Release ==
  /\ At("restart", "release") /\ Return
  /\ lock' = FALSE
  /\ UNCHANGED <<proc, running, services, built, signals, excused>>

----------------------------------------------------------------------------
(* main *)

\* sys.running = True once more, after start.
Run ==
  /\ At("main", "run") /\ Goto("check")
  /\ running' = TRUE
  /\ UNCHANGED <<proc, lock, services, built, signals, excused>>

GoesOnAlways == TRUE                             \* mutant: while True
GoesOn == running

Check ==
  /\ At("main", "check")
  /\ Goto(IF GoesOn THEN "wait" ELSE "stop")
  /\ UNCHANGED <<proc, running, lock, services, built, signals, excused>>

\* wait(), a second for each process; then the time of the next restart.
WaitStep ==
  /\ At("main", "wait")
  /\ IF due THEN stack' = Append([stack EXCEPT ![1].at = "night"], Call)
     ELSE Goto("check")
  /\ UNCHANGED <<proc, running, lock, services, built, signals, excused>>

NightOver ==
  /\ At("main", "night") /\ Goto("check")
  /\ due' = FALSE
  /\ UNCHANGED <<proc, running, lock, services, built, usr, int, count,
                 excused>>

\* stop() and kill(), after the loop.
Stop ==
  /\ At("main", "stop") /\ Goto("exit")
  /\ running' = FALSE /\ proc' = KillsOf(services)
  /\ UNCHANGED <<lock, services, built, signals, excused>>

\* The end of the interpreter terminates and joins every daemonic process.
Exit ==
  /\ At("main", "exit")
  /\ IF \E g \in Gens, k \in Kinds : proc[g][k] = "alive"
     THEN /\ proc' = [g \in Gens |-> [k \in Kinds |->
                        IF proc[g][k] = "alive" THEN "ending"
                        ELSE proc[g][k]]]
          /\ UNCHANGED stack
     ELSE /\ \A g \in Gens, k \in Kinds : ~Alive(g, k)
          /\ Goto("ended") /\ UNCHANGED proc
  /\ UNCHANGED <<running, lock, services, built, signals, excused>>

----------------------------------------------------------------------------

MainThread ==
  \/ Setup("main", "start") \/ StartLoop("main", "run") \/ Run \/ Check
  \/ WaitStep \/ NightOver \/ Stop \/ Exit
  \/ Acquire \/ KillStep \/ Join \/ Clear
  \/ Setup("restart", "start") \/ StartLoop("restart", "release") \/ Release

Handlers == HandleUsr \/ HandleInt

Next ==
  \/ MainThread \/ SetupFails \/ Handlers
  \/ AsksRestart \/ Interrupts \/ Midnight
  \/ \E g \in Gens, k \in Kinds : Dies(g, k) \/ Crashes(g, k)

Spec == Init /\ [][Next]_supervisor

\* The main thread runs, signals are delivered, and a process that is told to
\* terminate does so, a slow one at the end of the program at the latest.
FairSpec ==
  /\ Spec
  /\ WF_supervisor(MainThread) /\ WF_supervisor(Handlers)
  /\ \A g \in Gens, k \in Kinds :
       WF_supervisor((k \notin Slow \/ At("main", "exit")) /\ Dies(g, k))

----------------------------------------------------------------------------
(* Properties *)

\* No service runs twice, however restarts, signals and midnight fall together,
\* unless it outlasted the 10 seconds it was given: two senders of SMS would
\* send everything twice, and two exporters would share the time between them.
OneOfEach ==
  \A k \in Kinds \ Slow, g, h \in Gens :
    Alive(g, k) /\ Alive(h, k) => g = h

InLoop == Len(stack) = 1 /\ Top.at \in {"check", "wait", "night"}

\* While main is in its loop and has not been told to stop, every service of
\* the present generation runs, except one that ended by itself, found its port
\* taken, or was killed by SIGINT.
Serving ==
  InLoop /\ running =>
    /\ services # 0
    /\ \A k \in Kinds : proc[services][k] = "alive" \/ <<services, k>> \in excused

\* The restart lock is held, by a restart beneath or by one that raised, and a
\* handler waits for it: for ever.
Stuck == \E i \in 1..Len(stack) : stack[i].at = "acquire" /\ lock

\* A restart comes to its end although a service may never terminate, unless
\* another is asked for meanwhile.
RestartEnds ==
  (Len(stack) = 2) ~> (Len(stack) = 1 \/ Stuck)

\* Once main has been told to stop it ends, unless a restart is on its way, a
\* signal or midnight within the second, which starts everything again.
StopsInTheEnd ==
  (InLoop /\ ~running /\ ~usr /\ ~due) ~> (Ended \/ usr \/ due)
=============================================================================
