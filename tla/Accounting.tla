----------------------------- MODULE Accounting -----------------------------
(***************************************************************************)
(* RADIUS accounting (literadius/protocol.py handle_acct, radius.py): a    *)
(* router (NAS) reports its sessions over UDP; the process radius.acct     *)
(* answers a packet as soon as it has started the write of the session's   *)
(* document and does not await the write.  Both radius processes mark the  *)
(* open documents closed when they start.                                  *)
(***************************************************************************)
EXTENDS Integers, Sequences, FiniteSets, SequencesExt

CONSTANTS
  Sessions,      \* (auth_class, session_id) pairs the NAS uses
  MacSessions,   \* those whose user name is the MAC: handle_acct looks it up
  Giga,          \* octets in a gigaword: 2^32 in the code
  MaxOctets,     \* bound: octets a session counts
  MaxLoad,       \* bound: packets and writes under way
  MaxRestarts,   \* bound: restarts of the server
  MaxReboots     \* bound: reboots of the NAS

ASSUME GigaAssumption == Giga \in Nat \ {0}
ASSUME BoundAssumption == /\ MaxOctets \in Nat /\ MaxLoad \in Nat
                          /\ MaxRestarts \in Nat /\ MaxReboots \in Nat
ASSUME SessionAssumption == MacSessions \subseteq Sessions

VARIABLES
  ses,        \* the NAS: "new", "up" or "down"
  octets,     \* the NAS: what the session has counted
  net,        \* packets on the wire
  jobs,       \* handlers that await rad_sessions.find_one, and the writes
              \* started by ensure_future and not done
  docs,       \* collection accounting, in order of insertion
  acct, auth, \* the radius processes: "up" or "down"
  restarts, reboots,
  stopped,    \* history: sessions with a Stop written and no Update after it
  overlap     \* history: the most writes a session had under way at once

vars == <<ses, octets, net, jobs, docs, acct, auth, restarts, reboots, stopped,
          overlap>>

nas == <<ses, octets, reboots>>
server == <<acct, auth, restarts>>
history == <<stopped, overlap>>

Kinds == {"start", "update", "stop", "on"}
Causes == {"open", "stop", "nas reboot", "admin reboot"}  \* termination_cause
Packet == [kind : Kinds, s : Sessions, n : 0..MaxOctets]
Document == [s : Sessions, n : 0..MaxOctets, cause : Causes, nas : BOOLEAN]

\* A handler looks the user up and starts a write, which is not awaited.  The
\* write, find_one_and_update(q, upd, upsert=True), looks for the document and,
\* as (auth_class, session_id) has no unique index, inserts one when it found
\* none, whatever was inserted meanwhile.  A packet that arrives again has a job
\* of its own, another copy.
Job == [packet : Packet, copy : Nat, phase : {"lookup", "find", "insert"}]

TypeOK ==
  /\ ses \in [Sessions -> {"new", "up", "down"}]
  /\ octets \in [Sessions -> 0..MaxOctets]
  /\ net \subseteq Packet
  /\ jobs \subseteq Job /\ IsFiniteSet(jobs)
  /\ docs \in Seq(Document)
  /\ acct \in {"up", "down"} /\ auth \in {"up", "down"}
  /\ restarts \in 0..MaxRestarts /\ reboots \in 0..MaxReboots
  /\ stopped \subseteq Sessions
  /\ overlap \in [Sessions -> Nat]

Init ==
  /\ ses = [s \in Sessions |-> "new"]
  /\ octets = [s \in Sessions |-> 0]
  /\ net = {} /\ jobs = {}
  /\ docs = <<>>
  /\ acct = "down" /\ auth = "down"
  /\ restarts = 0 /\ reboots = 0
  /\ stopped = {} /\ overlap = [s \in Sessions |-> 0]

UnderWay == {j.packet : j \in jobs}
Waiting == {j \in jobs : j.phase = "lookup"}
Writes == {j \in jobs : j.phase # "lookup"}
WritesOf(s) == {w \in Writes : w.packet.s = s /\ w.packet.kind # "on"}

Load == Cardinality(net) + Cardinality(jobs)

DocsOf(s) == {i \in DOMAIN docs : docs[i].s = s}
IsOpen(i) == docs[i].cause = "open"

----------------------------------------------------------------------------
(* The NAS and the wire *)

\* It sends when it likes, whether its last packet was answered or not.
Send(s, kind) ==
  /\ Load < MaxLoad
  /\ net' = net \cup {[kind |-> kind, s |-> s, n |-> octets[s]]}
  /\ UNCHANGED <<octets, jobs, docs, server, reboots, history>>

NasStart(s) == /\ ses[s] = "new" /\ ses' = [ses EXCEPT ![s] = "up"]
               /\ Send(s, "start")
NasUpdate(s) == ses[s] = "up" /\ UNCHANGED ses /\ Send(s, "update")
NasStop(s) == /\ ses[s] = "up" /\ ses' = [ses EXCEPT ![s] = "down"]
              /\ Send(s, "stop")

Traffic(s) ==
  /\ ses[s] = "up" /\ octets[s] < MaxOctets
  /\ octets' = [octets EXCEPT ![s] = @ + 1]
  /\ UNCHANGED <<ses, net, jobs, docs, server, reboots, history>>

\* Its sessions are gone without a Stop; Accounting-On says so.
NasReboot ==
  /\ reboots < MaxReboots
  /\ reboots' = reboots + 1
  /\ ses' = [s \in Sessions |-> IF ses[s] = "up" THEN "down" ELSE ses[s]]
  /\ \E s \in Sessions :
       net' = net \cup {[kind |-> "on", s |-> s, n |-> 0]}
  /\ UNCHANGED <<octets, jobs, docs, server, history>>

Lose(p) ==
  /\ net' = net \ {p}
  /\ UNCHANGED <<nas, jobs, docs, server, history>>

----------------------------------------------------------------------------
(* radius.acct *)

\* c is the least number that no job of p has.
FreeCopy(p, c) == LET used == {j.copy : j \in {k \in jobs : k.packet = p}}
                  IN  c \notin used /\ 1..c - 1 \subseteq used

\* Writes were started: how many of a session are under way now?
CountWrites ==
  overlap' = [s \in Sessions |->
                LET n == Cardinality(WritesOf(s)')
                IN  IF n > overlap[s] THEN n ELSE overlap[s]]

\* A packet arrives, and may arrive again; the reply goes out when the write
\* has been started.  An Accounting-On has neither a user name nor a MAC, which
\* protocol.py:144 finds equal.
Receive(p, c) ==
  /\ acct = "up" /\ FreeCopy(p, c)
  /\ \/ net' = net \ {p}
     \/ net' = net /\ Load < MaxLoad
  /\ LET looks == p.s \in MacSessions \/ p.kind = "on"
     IN  jobs' = jobs \cup {[packet |-> p, copy |-> c,
                             phase |-> IF looks THEN "lookup" ELSE "find"]}
  /\ CountWrites
  /\ UNCHANGED <<nas, docs, server, stopped>>

\* rad_sessions.find_one has answered.
LookedUp(j) ==
  /\ j.phase = "lookup"
  /\ jobs' = (jobs \ {j}) \cup {[j EXCEPT !.phase = "find"]}
  /\ CountWrites
  /\ UNCHANGED <<nas, net, docs, server, stopped>>

\* cancel_answer, five seconds after the packet.
Cancelled(j) ==
  /\ j.phase = "lookup"
  /\ jobs' = jobs \ {j}
  /\ UNCHANGED <<nas, net, docs, server, history>>

\* `gigawords or 0 << 32 | octets' is `gigawords or octets'.
Counted(n) == IF n >= Giga THEN n \div Giga ELSE n

\* Mutants of the account: $inc of the octets, an $unset whatever the kind, no
\* octets in a Stop, and no $unset.
AccountAdds(doc, p) ==
  CASE p.kind = "start"  -> [doc EXCEPT !.nas = TRUE]
    [] p.kind = "update" -> [doc EXCEPT !.n = @ + Counted(p.n), !.cause = "open"]
    [] p.kind = "stop"   -> [doc EXCEPT !.n = @ + Counted(p.n), !.cause = "stop"]
AccountOpens(doc, p) ==
  [doc EXCEPT !.nas = TRUE, !.cause = IF p.kind = "stop" THEN "stop" ELSE "open"]
AccountStopsOnly(doc, p) ==
  CASE p.kind = "start"  -> [doc EXCEPT !.nas = TRUE]
    [] p.kind = "update" -> [doc EXCEPT !.n = Counted(p.n), !.cause = "open"]
    [] p.kind = "stop"   -> [doc EXCEPT !.cause = "stop"]
AccountKeepsCause(doc, p) ==
  CASE p.kind = "start"  -> [doc EXCEPT !.nas = TRUE]
    [] p.kind = "update" -> [doc EXCEPT !.n = Counted(p.n)]
    [] p.kind = "stop"   -> [doc EXCEPT !.n = Counted(p.n), !.cause = "stop"]

\* $set and $unset of the account of a Start, Update or Stop packet.
Account(doc, p) ==
  CASE p.kind = "start"  -> [doc EXCEPT !.nas = TRUE]
    [] p.kind = "update" -> [doc EXCEPT !.n = Counted(p.n), !.cause = "open"]
    [] p.kind = "stop"   -> [doc EXCEPT !.n = Counted(p.n), !.cause = "stop"]

Note(p) == stopped' = CASE p.kind = "stop"   -> stopped \cup {p.s}
                        [] p.kind = "update" -> stopped \ {p.s}
                        [] OTHER             -> stopped

\* What a write looks for: (auth_class, session_id).
MatchesOpen(p) == {i \in DocsOf(p.s) : IsOpen(i)}  \* mutant: open ones only
Matches(p) == DocsOf(p.s)

First(S) == CHOOSE i \in S : \A j \in S : i <= j

\* The write finds the oldest document of its session and changes it ...
WriteFinds(w) ==
  LET p == w.packet
      i == First(Matches(p))
  IN  /\ w.phase = "find" /\ p.kind # "on" /\ Matches(p) # {}
      /\ docs' = [docs EXCEPT ![i] = Account(@, p)]
      /\ jobs' = jobs \ {w}
      /\ Note(p)
      /\ UNCHANGED <<nas, net, server, overlap>>

\* ... or finds none ...
WriteMisses(w) ==
  /\ w.phase = "find" /\ w.packet.kind # "on" /\ Matches(w.packet) = {}
  /\ jobs' = (jobs \ {w}) \cup {[w EXCEPT !.phase = "insert"]}
  /\ UNCHANGED <<nas, net, docs, server, history>>

\* ... and inserts one.
WriteInserts(w) ==
  LET p == w.packet
      new == [s |-> p.s, n |-> 0, cause |-> "open", nas |-> FALSE]
  IN  /\ w.phase = "insert"
      /\ docs' = Append(docs, Account(new, p))
      /\ jobs' = jobs \ {w}
      /\ Note(p)
      /\ UNCHANGED <<nas, net, server, overlap>>

\* Accounting-On or -Off: one open document of the NAS is closed.
WriteOn(w) ==
  LET S == {i \in DOMAIN docs : docs[i].nas /\ IsOpen(i)}
  IN  /\ w.phase = "find" /\ w.packet.kind = "on"
      /\ docs' = IF S = {} THEN docs
                 ELSE [docs EXCEPT ![First(S)].cause = "nas reboot"]
      /\ jobs' = jobs \ {w}
      /\ UNCHANGED <<nas, net, server, history>>

----------------------------------------------------------------------------
(* The processes *)

\* close_sessions: update_many on the documents without a cause.
CloseSessions ==
  docs' = [i \in DOMAIN docs |->
             IF IsOpen(i) THEN [docs[i] EXCEPT !.cause = "admin reboot"]
                          ELSE docs[i]]

\* setup_radius closes the sessions and then opens the socket.
AcctUp ==
  /\ acct = "down" /\ acct' = "up"
  /\ CloseSessions
  /\ UNCHANGED <<nas, net, jobs, auth, restarts, history>>

AuthUp ==
  /\ auth = "down" /\ auth' = "up"
  /\ CloseSessions
  /\ UNCHANGED <<nas, net, jobs, acct, restarts, history>>

\* The server is restarted: handlers and writes under way are gone.
Restart ==
  /\ restarts < MaxRestarts
  /\ restarts' = restarts + 1
  /\ acct' = "down" /\ auth' = "down"
  /\ jobs' = {}
  /\ UNCHANGED <<nas, net, docs, history>>

Nas(s) == NasStart(s) \/ NasUpdate(s) \/ NasStop(s) \/ Traffic(s)

WriteStep(w) == WriteFinds(w) \/ WriteMisses(w) \/ WriteInserts(w) \/ WriteOn(w)

Receives(p) == \E c \in 1..MaxLoad : Receive(p, c)

Next == \/ \E s \in Sessions : Nas(s)
        \/ NasReboot
        \/ \E p \in net : Lose(p) \/ Receives(p)
        \/ \E j \in jobs : LookedUp(j) \/ Cancelled(j) \/ WriteStep(j)
        \/ AcctUp \/ AuthUp \/ Restart

Spec == Init /\ [][Next]_vars

WriteOf(s) == \E w \in Writes : w.packet.s = s /\ WriteStep(w)
ReceiveUpdate(s) == \E p \in net : p.kind = "update" /\ p.s = s /\ Receives(p)
LookUp(s, kinds) ==
  \E j \in Waiting : j.packet.s = s /\ j.packet.kind \in kinds /\ LookedUp(j)
Leaves(kind) == \E p \in net : p.kind = kind /\ Lose(p)

\* The processes start, lookups and writes are answered, the NAS sends its
\* interim updates, no packet stays on the wire, and not every update is lost.
Fairness == /\ WF_vars(AcctUp) /\ WF_vars(AuthUp)
            /\ \A kind \in Kinds : WF_vars(Leaves(kind))
            /\ \A s \in Sessions :
                 /\ WF_vars(WriteOf(s)) /\ WF_vars(LookUp(s, Kinds))
                 /\ SF_vars(LookUp(s, {"update"}))
                 /\ SF_vars(NasUpdate(s)) /\ SF_vars(ReceiveUpdate(s))

FairSpec == Spec /\ Fairness

----------------------------------------------------------------------------
(* Properties *)

\* What a document charges to a session was reported for that session and is
\* never more than it has counted, in whatever order packets are written.
ChargedAsCounted == \A i \in DOMAIN docs : docs[i].n <= octets[docs[i].s]

\* A session has no more documents, each of which is charged once more
\* (protocol.py:292 reduce_limits), than writes of it were under way at once
\* (223-229, which answers before the write is done): one, as long as every
\* write was done before the next began, whatever was closed in between.
DocumentsBounded ==
  \A s \in Sessions : Cardinality(DocsOf(s)) <= overlap[s]

OpenOf(s) == {i \in DocsOf(s) : IsOpen(i)}

\* After a Stop is written, and until an Update is written after it, a document
\* of the session is closed with the final count, through restarts of both
\* processes, reboots of the NAS and late Starts; and no other is open if its
\* writes came one at a time.
StopIsFinal ==
  \A s \in stopped :
    /\ \E i \in DocsOf(s) : ~IsOpen(i) /\ docs[i].n = Counted(octets[s])
    /\ overlap[s] <= 1 => OpenOf(s) = {}

\* Only an Update reopens a document, and a session that is shown as finished
\* is shown as online again only by an Update, or by a Start whose write had
\* missed a document that another write was about to insert: never by another
\* Start, a Stop, a reboot or a starting process.
OnlyUpdateReopens ==
  [][/\ \A i \in DOMAIN docs :
          (~IsOpen(i) /\ docs'[i].cause = "open")
            => \E w \in jobs \ jobs' :
                 w.packet.kind = "update" /\ w.packet.s = docs[i].s
     /\ \A s \in Sessions :
          (DocsOf(s) # {} /\ OpenOf(s) = {} /\ OpenOf(s)' # {})
            => \E w \in jobs \ jobs' :
                 /\ w.packet.s = s
                 /\ \/ w.packet.kind = "update"
                    \/ /\ w.packet.kind = "start" /\ w.phase = "insert"
                       /\ overlap[s] > 1]_vars

\* A session that is up is shown as open again after the starting processes
\* closed it: its next interim update does it.
OnlineAgain ==
  \A s \in Sessions :
    ses[s] = "up" ~> (ses[s] = "down" \/ OpenOf(s) # {})
=============================================================================
