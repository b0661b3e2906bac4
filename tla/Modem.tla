------------------------------- MODULE Modem -------------------------------
(***************************************************************************)
(* The library of AT modems (gsmmodem/serial_comms.py and modem.py): the   *)
(* thread that reads the serial line, the threads that handle what the     *)
(* modem announces, one for each announcement, and those of an             *)
(* application that sends texts, asks by USSD or takes what is stored.     *)
(* They share the line, on which an answer does not say whose it is, and   *)
(* the memory that is selected in the modem.                               *)
(*                                                                         *)
(* A thread is known by the message it was started for.  A line is a       *)
(* record of its kind and of the thread that waits for it, None when that  *)
(* thread has given up.                                                    *)
(* Voice calls and connect() are left out, and an exception of the decoder *)
(* other than EncodingError, which ends a call as an error does.           *)
(***************************************************************************)
EXTENDS Integers, FiniteSets, SequencesExt

CONSTANTS
  None,
  Apps,          \* threads of the application
  Calls,         \* what they call, of "send", "ussd" and "process"
  Messages,      \* what the network brings: texts and delivery reports
  Reports,       \* the reports among them
  Memories,      \* where the modem stores them
  Slots,         \* places,
  Places,        \* and those that each memory has
  Undecodable,   \* messages that decodeSmsPdu refuses (pdu.py)
  MaxCalls, MaxFaults    \* bounds

ASSUME ThreadsAssumption ==
  /\ None \notin Apps \cup Messages \cup {"cusd"}
  /\ Apps \cap Messages = {} /\ "cusd" \notin Apps \cup Messages
ASSUME MessagesAssumption == Undecodable \subseteq Messages
ASSUME SlotsAssumption == Slots \subseteq 0..255 /\ None \notin Slots
ASSUME PlacesAssumption == Places \in [Memories -> SUBSET Slots]
ASSUME CallsAssumption == Calls \subseteq {"send", "ussd", "process"}

Handlers == Messages \cup {"cusd"}
Threads == Apps \cup Handlers

VARIABLES
  thread,        \* each thread: what it does next, and what it knows
  lock,          \* _txLock: the thread that waits for an answer
  event,         \* _responseEvent: "none", "waiting" or "set"
  expect,        \* _expectResponseTermSeq: a prompt ends the answer
  reading,       \* the reading thread lives
  response,      \* _response
  prefix,        \* rxBuffer holds a prompt nobody expects
  notification,  \* _notification
  memory,        \* _smsMemReadDelete
  ussdEvent,     \* _ussdSessionEvent
  reportEvent,   \* _smsStatusReportEvent
  commands,      \* written to the modem
  lines,         \* on the way back
  store,         \* the memories of the modem
  using,         \* the memory selected in it
  opened,        \* messages it has marked as read
  prompt,        \* it takes what comes as the text of a message
  arrived, delivered,     \* messages; those given to the application
  readers,       \* how many threads have read a message
  failed,        \* messages a thread had read when it raised
  mixed,         \* an answer nobody waited for was taken for another one
  switched,      \* a memory was selected between a read and a deletion
  misplaced,     \* a place is to be deleted that was not read
  calls, faults  \* counters, bounded

host == <<thread, lock, event, expect, reading, response, prefix, notification, memory,
          ussdEvent, reportEvent>>
modem == <<commands, lines, store, using, opened, prompt>>
ghosts == <<arrived, delivered, readers, failed, mixed, switched, misplaced>>
counters == <<calls, faults>>
vars == <<host, modem, ghosts, counters>>

Idle == [pc |-> "idle", memory |-> None, index |-> None, todo |-> {}, got |-> {}, round |-> None]
Line(kind, t, data) == [kind |-> kind, of |-> t, data |-> data]
Announces == {"cmti", "cusd"}

Init ==
  /\ thread = [t \in Threads |-> Idle]
  /\ lock = None /\ event = "none" /\ expect = FALSE /\ response = <<>>
  /\ reading = TRUE
  /\ prefix = FALSE /\ notification = <<>>
  /\ memory \in Memories /\ using = memory
  /\ ussdEvent = "none" /\ reportEvent = "none"
  /\ commands = <<>> /\ lines = <<>>
  /\ store = [k \in Memories |-> [i \in Slots |-> None]]
  /\ opened = {} /\ prompt = FALSE
  /\ arrived = {} /\ delivered = {} /\ readers = [m \in Messages |-> 0]
  /\ failed = {} /\ mixed = FALSE /\ switched = FALSE /\ misplaced = FALSE
  /\ calls = 0 /\ faults = 0

----------------------------------------------------------------------------
(* The modem.  What it does with a command may take long, and it may never *)
(* answer.                                                                 *)

\* A message comes and is stored, if there is room, and announced with its place.
Arrive(m, k, i) ==
  /\ m \notin arrived /\ i \in Places[k] /\ store[k][i] = None
  /\ arrived' = arrived \cup {m}
  /\ store' = [store EXCEPT ![k][i] = m]
  /\ lines' = Append(lines, Line("cmti", m, {<<k, i>>}))
  /\ UNCHANGED <<host, commands, using, opened, prompt, delivered, readers, failed,
                 mixed, switched, misplaced, counters>>

Head1 == Head(commands)
Reply(kinds, data) ==
  lines' = lines \o [i \in DOMAIN kinds |->
    Line(kinds[i], Head1.of, IF kinds[i] = "data" THEN data ELSE {})]

\* The places with messages of a status.
Listed(round) ==
  {i \in Slots : store[using][i] # None
                   /\ (store[using][i] \in opened <=> round = "read")}

\* While it waits for the text of a message, everything else is text.
Typed == prompt /\ Head1.op # "text"

DeletionDue ==
  \/ \E t \in Threads : thread[t].pc = "delete"
  \/ \E i \in DOMAIN commands : commands[i].op = "delete"

Selects ==
  /\ Head1.op = "memory" /\ ~Typed
  /\ using' = Head1.memory
  /\ switched' = (switched \/ (Head1.memory # using /\ DeletionDue))
  /\ Reply(<<"ok">>, {})
  /\ UNCHANGED <<store, opened, prompt>>

Reads ==
  LET m == IF Head1.index = None THEN None ELSE store[using][Head1.index]
  IN  /\ Head1.op = "read" /\ ~Typed
      /\ IF m = None THEN Reply(<<"error">>, {}) /\ UNCHANGED opened
         ELSE Reply(<<"data", "ok">>, {m}) /\ opened' = opened \cup {m}
      /\ UNCHANGED <<store, using, prompt, switched>>

Lists ==
  LET found == Listed(Head1.round)
  IN  /\ Head1.op = "list" /\ ~Typed
      /\ Reply(IF found = {} THEN <<"ok">> ELSE <<"data", "ok">>,
               {<<i, store[using][i]>> : i \in found})
      /\ opened' = opened \cup {store[using][i] : i \in found}
      /\ UNCHANGED <<store, using, prompt, switched>>

Deletes ==
  /\ Head1.op = "delete" /\ ~Typed
  /\ IF Head1.index = None THEN Reply(<<"error">>, {}) /\ UNCHANGED store
     ELSE Reply(<<"ok">>, {}) /\ store' = [store EXCEPT ![using][Head1.index] = None]
  /\ UNCHANGED <<using, opened, prompt, switched>>

\* AT+CMGS and the text that ends with Ctrl-Z.
Prompts ==
  /\ Head1.op = "prompt" /\ ~Typed
  /\ prompt' = TRUE /\ Reply(<<"prompt">>, {})
  /\ UNCHANGED <<store, using, opened, switched>>
TakesText ==
  /\ Head1.op = "text"
  /\ prompt' = FALSE /\ Reply(IF prompt THEN <<"cmgs", "ok">> ELSE <<"error">>, {})
  /\ UNCHANGED <<store, using, opened, switched>>

\* The answer of the network comes before the OK or after it.
AsksNetwork ==
  /\ Head1.op = "ussd" /\ ~Typed
  /\ \E kinds \in {<<"ok">>, <<"cusd", "ok">>, <<"ok", "cusd">>} : Reply(kinds, {})
  /\ UNCHANGED <<store, using, opened, prompt, switched>>

Absorbs == Typed /\ UNCHANGED <<lines, store, using, opened, prompt, switched>>

Execute ==
  /\ commands # <<>>
  /\ commands' = Tail(commands)
  /\ \/ Selects \/ Reads \/ Lists \/ Deletes \/ Prompts \/ TakesText \/ AsksNetwork
     \/ Absorbs
  /\ UNCHANGED <<host, arrived, delivered, readers, failed, mixed, misplaced, counters>>

\* "Please wait", or an error, or nothing.
Declines ==
  /\ commands # <<>> /\ ~Typed /\ faults < MaxFaults
  /\ commands' = Tail(commands) /\ faults' = faults + 1
  /\ \E kind \in {"busy", "error"} : Reply(<<kind>>, {})
  /\ prompt' = FALSE
  /\ UNCHANGED <<host, store, using, opened, ghosts, calls>>
StaysSilent ==
  /\ commands # <<>> /\ faults < MaxFaults
  /\ commands' = Tail(commands) /\ faults' = faults + 1
  /\ prompt' = Typed
  /\ UNCHANGED <<host, lines, store, using, opened, ghosts, calls>>

----------------------------------------------------------------------------
(* The serial line *)

LockFree == lock = None

Ready == {"memory", "read", "delete", "list", "prompt", "text", "ussd"}

\* The modem takes a place as decimal, and it is sent as hexadecimal: 16 is taken
\* for 10, and 10 for none.
Understood(i) ==
  LET taken == (10 * (i \div 16)) + (i % 16)
  IN  IF i % 16 < 10 /\ i \div 16 < 10 /\ taken \in Slots THEN taken ELSE None
Place(t) == IF thread[t].pc \in {"read", "delete"} THEN Understood(thread[t].index) ELSE None

\* SerialComms.write: only the one that holds the lock waits for an answer.
Write(t) ==
  /\ thread[t].pc \in Ready /\ LockFree /\ lock # t
  /\ lock' = t /\ event' = "waiting" /\ response' = <<>>
  /\ expect' = (thread[t].pc = "prompt")
  /\ commands' = Append(commands,
       [of |-> t, op |-> thread[t].pc, index |-> Place(t),
        round |-> thread[t].round,
        memory |-> thread[t].memory])
  /\ UNCHANGED <<thread, reading, prefix, notification, memory, ussdEvent, reportEvent, lines,
                 store, using, opened, prompt, ghosts, counters>>

\* RESPONSE_TERM
Terminal(l) == l.kind \in {"ok", "error", "busy"}

\* The thread that _handleModemNotification starts handles the first line that
\* it knows, and none of the others.
Started(said) ==
  LET known == {i \in DOMAIN said : said[i].kind \in Announces}
      first == said[Min(known)]
      t == IF first.kind = "cusd" THEN "cusd" ELSE first.of
  IN  IF known = {} \/ thread[t].pc # "idle" THEN thread
      ELSE [thread EXCEPT ![t] =
              IF t = "cusd" THEN [Idle EXCEPT !.pc = "start"]
              ELSE LET at == CHOOSE at \in first.data : TRUE
                   IN  [Idle EXCEPT !.pc = "start", !.memory = at[1], !.index = at[2]]]

\* _readLoop and _handleLineRead.  A prompt has no end of line: it is passed on
\* at once if it is expected and else spoils the line that follows it.
ReadLine ==
  /\ reading /\ lines # <<>>
  /\ lines' = Tail(lines)
  /\ LET head == Head(lines)
         l == IF prefix THEN [head EXCEPT !.kind = "spoilt"] ELSE head
         said == Append(notification, l)
     IN  IF l.kind = "prompt" /\ ~expect
         THEN /\ prefix' = TRUE
              /\ UNCHANGED <<thread, event, response, notification>>
         ELSE /\ prefix' = FALSE
              /\ IF event = "waiting"
                 THEN /\ response' = Append(response, l)
                      /\ event' = IF Terminal(l) \/ l.kind = "prompt" THEN "set" ELSE event
                      /\ UNCHANGED <<thread, notification>>
                 ELSE /\ notification' = IF Tail(lines) = <<>> THEN <<>> ELSE said
                      /\ thread' = IF Tail(lines) = <<>> THEN Started(said) ELSE thread
                      /\ UNCHANGED <<event, response>>
  /\ UNCHANGED <<lock, expect, reading, memory, ussdEvent, reportEvent, commands, store,
                 using, opened, prompt, ghosts, counters>>

\* The event is gone when the thread that reads a line looks for it again: an
\* AttributeError ends it (serial_comms.py:66, 73).
Unlocked ==
  /\ lock' = None /\ event' = "none" /\ expect' = FALSE
  /\ reading' \in {reading} \cup (IF lines = <<>> THEN {} ELSE {FALSE})

----------------------------------------------------------------------------
(* What a thread makes of an answer *)

Answer(kind) == \E i \in DOMAIN response : response[i].kind = kind
Status == Last(response).kind
Data == UNION {response[i].data : i \in {j \in DOMAIN response : response[j].kind = "data"}}
\* An answer that a timeout has left on the way.
Mixed == \E i \in DOMAIN response :
           response[i].kind \notin Announces /\ response[i].of = None

Goes(t, pc) == thread' = [thread EXCEPT ![t].pc = pc]
Ends(t) == thread' = [thread EXCEPT ![t] = Idle]
HasRead(t, messages) ==
  readers' = [m \in Messages |-> IF m \in messages THEN readers[m] + 1 ELSE readers[m]]

\* An exception ends the call; what was read is forgotten.
Raise(t) ==
  /\ Ends(t)
  /\ failed' = failed \cup thread[t].got
  /\ ussdEvent' = IF thread[t].pc = "ussd" THEN "none" ELSE ussdEvent
  /\ UNCHANGED <<memory, reportEvent, delivered, readers>>

\* GsmModem.write tries again when the modem is busy.
Retries(t) ==
  /\ Status = "busy"
  /\ UNCHANGED <<thread, memory, ussdEvent, reportEvent, delivered, readers, failed>>
Errs(t) == Status = "error" /\ Raise(t)

MemorySet(t) ==
  /\ thread[t].pc = "memory"
  /\ memory' = thread[t].memory /\ Goes(t, "read")
  /\ UNCHANGED <<ussdEvent, reportEvent, delivered, readers, failed>>

\* readStoredSms looks at the first line; one that is no message, or cannot be
\* decoded, raises.
FirstRead == (UNION {response[i].data :
                i \in {j \in DOMAIN response : j = 1 /\ response[j].kind = "data"}})
             \cap (Messages \ Undecodable)
Read(t) ==
  /\ thread[t].pc = "read"
  /\ \E m \in FirstRead :
       /\ thread' = [thread EXCEPT ![t].pc = "delete", ![t].got = {m}]
       /\ HasRead(t, {m})
  /\ UNCHANGED <<memory, ussdEvent, reportEvent, delivered, failed>>
ReadNothing(t) == thread[t].pc = "read" /\ FirstRead = {} /\ Raise(t)

\* smsReceivedCallback; or any report is the one that sendSms waits for, and
\* the handler of reports raises if what it has read is none.
Deleted(t) ==
  /\ thread[t].pc = "delete" /\ t \in Messages
  /\ t \in Reports => thread[t].got \subseteq Reports
  /\ Ends(t) /\ delivered' = delivered \cup thread[t].got
  /\ reportEvent' = IF t \in Reports /\ reportEvent = "waiting" THEN "set" ELSE reportEvent
  /\ UNCHANGED <<memory, ussdEvent, readers, failed>>
DeletedOther(t) ==
  /\ thread[t].pc = "delete" /\ t \in Reports /\ ~(thread[t].got \subseteq Reports)
  /\ Raise(t)

Entries == {e \in Data : e \in Slots \X Messages}
Decoded == {e \in Entries : e[2] \notin Undecodable}

\* The place that goes with an entry: that of the first of those before it that
\* could not be decoded, if there are any.
PlaceOf(e, listed) ==
  Min({f[1] : f \in {f \in listed :
    /\ f[1] <= e[1]
    /\ \A g \in listed : f[1] <= g[1] /\ g[1] < e[1] => g[2] \in Undecodable}})

ToDeleteAll == Slots                             \* mutant: AT+CMGD=1,4
ToDelete == {PlaceOf(e, Entries) : e \in Decoded}

\* A place that was not read is taken for one of those.
Misplaces == \E e \in Decoded :
  Understood(PlaceOf(e, Entries)) \notin {None} \cup {f[1] : f \in Decoded}

\* processStoredSms: of each status what was listed is deleted, place by place,
\* and then given to the application.
Following(round) ==
  IF round = "read" THEN [Idle EXCEPT !.pc = "list", !.round = "unread"] ELSE Idle
Processes(t, todo, got) ==
  \/ \E i \in todo :
       /\ thread' = [thread EXCEPT ![t].pc = "delete", ![t].todo = todo, ![t].index = i,
                                   ![t].got = got]
       /\ UNCHANGED delivered
  \/ /\ todo = {}
     /\ thread' = [thread EXCEPT ![t] = Following(thread[t].round)]
     /\ delivered' = delivered \cup got
ListStored(t) ==
  LET got == {e[2] : e \in Decoded}
  IN  /\ thread[t].pc = "list"
      /\ Processes(t, ToDelete, got)
      /\ HasRead(t, got)
      /\ UNCHANGED <<memory, ussdEvent, reportEvent, failed>>
DeletedListed(t) ==
  /\ thread[t].pc = "delete" /\ t \in Apps
  /\ Processes(t, thread[t].todo \ {thread[t].index}, thread[t].got)
  /\ UNCHANGED <<memory, ussdEvent, reportEvent, readers, failed>>

\* sendSms: other threads may write between the prompt and the text.
Prompted(t) ==
  /\ thread[t].pc = "prompt" /\ Goes(t, "text")
  /\ UNCHANGED <<memory, ussdEvent, reportEvent, delivered, readers, failed>>
Sent(t) ==
  /\ thread[t].pc = "text"
  /\ Answer("cmgs")
  /\ \/ Goes(t, "report") /\ reportEvent' = "waiting"
     \/ Ends(t) /\ UNCHANGED reportEvent
  /\ UNCHANGED <<memory, ussdEvent, delivered, readers, failed>>
NotSent(t) == thread[t].pc = "text" /\ ~Answer("cmgs") /\ Raise(t)

\* sendUssd
Asked(t) ==
  /\ thread[t].pc = "ussd"
  /\ IF Answer("cusd") THEN Ends(t) /\ ussdEvent' = "none"
     ELSE Goes(t, "session") /\ UNCHANGED ussdEvent
  /\ UNCHANGED <<memory, reportEvent, delivered, readers, failed>>

Returned(t) ==
  /\ lock = t /\ event = "set" /\ Unlocked
  /\ mixed' = (mixed \/ Mixed)
  /\ misplaced' = (misplaced \/ (/\ thread[t].pc = "list" /\ Misplaces
                                 /\ Status \notin {"busy", "error"}))
  /\ \/ Retries(t) \/ Errs(t)
     \/ /\ Status \notin {"busy", "error"}
        /\ \/ MemorySet(t) \/ Read(t) \/ ReadNothing(t) \/ Deleted(t)
           \/ DeletedOther(t) \/ ListStored(t) \/ DeletedListed(t)
           \/ Prompted(t) \/ Sent(t) \/ NotSent(t) \/ Asked(t)
  /\ UNCHANGED <<response, prefix, notification, modem, arrived, switched,
                 counters>>

GivesUpNever(t) == FALSE                         \* mutant: wait() without timeout
Hopeless == commands = <<>> /\ (lines = <<>> \/ ~reading)
\* A timeout may come early, MaxFaults times, and comes if no answer will.
GivesUp(t) == faults < MaxFaults \/ Hopeless

\* What thread t waited for answers nobody.
Abandoned(l, t) == IF l.of = t THEN [l EXCEPT !.of = None] ELSE l
Abandons(t) ==
  /\ commands' = [i \in DOMAIN commands |-> Abandoned(commands[i], t)]
  /\ lines' = [i \in DOMAIN lines |->
                IF lines[i].kind \in Announces THEN lines[i] ELSE Abandoned(lines[i], t)]

TimedOut(t) ==
  /\ lock = t /\ event = "waiting" /\ GivesUp(t) /\ Unlocked
  /\ Abandons(t)
  /\ faults' = IF Hopeless THEN faults ELSE faults + 1
  /\ Raise(t)
  /\ UNCHANGED <<response, prefix, notification, store, using, opened, prompt, arrived,
                 mixed, switched, misplaced, calls>>

----------------------------------------------------------------------------
(* Handlers and calls *)

\* _handleSmsReceived and _handleSmsStatusReport: _setSmsMemory comes first.
BeginRead(t) ==
  /\ t \in Messages /\ thread[t].pc = "start"
  /\ Goes(t, IF memory # thread[t].memory THEN "memory" ELSE "read")
  /\ UNCHANGED <<lock, event, expect, reading, response, prefix, notification, memory, ussdEvent,
                 reportEvent, modem, ghosts, counters>>

\* _handleUssd
HandleUssd ==
  /\ thread["cusd"].pc = "start" /\ Ends("cusd")
  /\ ussdEvent' = IF ussdEvent = "waiting" THEN "set" ELSE ussdEvent
  /\ UNCHANGED <<lock, event, expect, reading, response, prefix, notification, memory,
                 reportEvent, modem, ghosts, counters>>

Phases == [send |-> {"prompt", "text", "report"}, ussd |-> {"ussd", "session"},
           process |-> {"list", "delete"}]
First == [send |-> "prompt", ussd |-> "ussd", process |-> "list"]

\* One call of a kind at a time: sendSms and sendUssd keep one event each.
Call(t, call) ==
  /\ t \in Apps /\ call \in Calls /\ thread[t].pc = "idle" /\ calls < MaxCalls
  /\ \A u \in Apps : thread[u].pc \notin Phases[call]
  /\ calls' = calls + 1
  /\ thread' = [thread EXCEPT ![t].pc = First[call],
                              ![t].round = IF call = "process" THEN "read" ELSE None]
  /\ ussdEvent' = IF call = "ussd" THEN "waiting" ELSE ussdEvent
  /\ UNCHANGED <<lock, event, expect, reading, response, prefix, notification, memory,
                 reportEvent, modem, ghosts, faults>>

\* The end of a USSD session, or of the wait for a report, by its event or not.
EndsSession(t) ==
  /\ thread[t].pc = "session" /\ Ends(t)
  /\ ussdEvent' = "none"
  /\ UNCHANGED <<lock, event, expect, reading, response, prefix, notification, memory,
                 reportEvent, modem, ghosts, counters>>
EndsReport(t) ==
  /\ thread[t].pc = "report" /\ Ends(t)
  /\ reportEvent' = "none"
  /\ UNCHANGED <<lock, event, expect, reading, response, prefix, notification, memory,
                 ussdEvent, modem, ghosts, counters>>

Works(t) == Write(t) \/ Returned(t) \/ TimedOut(t) \/ BeginRead(t) \/ EndsSession(t)
              \/ EndsReport(t)

Next ==
  \/ \E m \in Messages, k \in Memories, i \in Slots : Arrive(m, k, i)
  \/ Execute \/ Declines \/ StaysSilent
  \/ ReadLine \/ HandleUssd
  \/ \E t \in Threads : Works(t)
  \/ \E t \in Apps, call \in Calls : Call(t, call)

Spec == Init /\ [][Next]_vars

\* Threads run, the line is read, and the modem goes on, though it may be silent.
FairSpec ==
  /\ Spec
  /\ WF_vars(Execute) /\ WF_vars(ReadLine) /\ WF_vars(HandleUssd)
  /\ \A t \in Threads : WF_vars(Works(t))

----------------------------------------------------------------------------
(* Properties *)

Stored == UNION {{store[k][i] : i \in Slots} : k \in Memories}

\* No message is lost.  What the network has brought is in the modem, with a
\* thread that will deliver it, or delivered; announcements that are taken for
\* part of an answer, or of another announcement, leave it in the modem.  It
\* takes an exception after a read, an answer that a timeout left behind, a
\* memory selected between a read and a deletion, a place that the modem takes
\* for another one or that goes with another message, or two readers of one
\* message to lose one (modem.py:842, 1009, 1020, 1104).
NoneLost ==
  arrived \subseteq Stored \cup delivered \cup failed
                      \cup UNION {thread[t].got : t \in Threads}
    \/ mixed \/ switched \/ misplaced \/ \E m \in Messages : readers[m] > 1

\* Every call returns or raises: whoever holds the line lets go of it when the
\* modem does not answer, or when its answer was spoilt (serial_comms.py:124).
CallsEnd == \A t \in Threads : (thread[t].pc # "idle") ~> (thread[t].pc = "idle")
=============================================================================
