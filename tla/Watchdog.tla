------------------------------ MODULE Watchdog ------------------------------
(***************************************************************************)
(* Supervision of the services: a service sends packets with lib/pfwdt     *)
(* over the queue q.watchdog; the main thread of svc.watchdog moves them   *)
(* to eventRoot (eventWD.c); its watchdog thread takes them from there,    *)
(* keeps the list of services and, once a period, drops and restarts the   *)
(* services that are gone or silent (watchdog.c).  The sections of `lock'  *)
(* are one step each.  A service has at most one sub-service.              *)
(***************************************************************************)
EXTENDS Integers, Sequences, FiniteSets

CONSTANTS
  Pid, Name, None,
  Mode,         \* the mode a program registers with
  SubUsers,     \* programs that register a sub-service
  Twice,        \* programs of which somebody may start a second instance
  Documented,   \* packets carry a wdid of the form pfwatchdog.h documents
  Timeout,      \* the timeout a service and its sub-service register with
  Period,       \* PF_DEF_WATCHDOG_PERIOD
  MaxPackets    \* bound: packets on their way

Modes == {"NONE", "RESTART", "REBOOT"}

ASSUME WatchdogAssumption ==
  /\ IsFiniteSet(Pid) /\ IsFiniteSet(Name) /\ None \notin Name
  /\ Mode \in [Name -> Modes]
  /\ SubUsers \subseteq Name /\ Twice \subseteq Name
  /\ Documented \in BOOLEAN
  /\ Timeout \in Nat /\ Period \in Nat /\ MaxPackets \in Nat

(* enum EPFWD_COMMAND_TYPE *)
REGISTER == 99
UNREGISTER == 100
START == 101
STOP == 102
ALIVE == 103
SUBREGISTER == 104
SUBUNREGISTER == 105
SUBALIVE == 106
Commands == 99 .. 106
SubCommands == {SUBREGISTER, SUBUNREGISTER, SUBALIVE}

VARIABLES
  life,      \* the program a process runs, None: no such process
  phase,     \* "new", "registered", "started": what it has sent
  queue,     \* packets in q.watchdog
  events,    \* packets in eventRoot
  listed,    \* the processes with a struct ListService
  nameOf,    \* service->info.name
  active,    \* service->bActive
  left,      \* service->expireCount less the seconds since service->ats
  subs,      \* the processes whose sub-service is in service->subRoot
  subLeft,   \* the same as left, for the sub-service of a process
  since,     \* seconds since pWDI->lts
  thread,    \* the watchdog thread: "drain", "update", or "gone"
  dropped    \* a packet was taken for an unknown one

pvars == <<life, phase>>
lvars == <<listed, nameOf, active, left, subs, subLeft>>
vars == <<pvars, queue, events, lvars, since, thread, dropped>>

Init ==
  /\ life = [p \in Pid |-> None] /\ phase = [p \in Pid |-> "new"]
  /\ queue = << >> /\ events = << >>
  /\ listed = {} /\ nameOf = [p \in Pid |-> None]
  /\ active = [p \in Pid |-> FALSE] /\ left = [p \in Pid |-> 0]
  /\ subs = [p \in Pid |-> {}] /\ subLeft = [p \in Pid |-> 0]
  /\ since = 0 /\ thread = "drain" /\ dropped = FALSE

----------------------------------------------------------------------------
(* The processes.  A pid is not used again while a packet or an entry of   *)
(* its old owner is around.                                                *)

Packets == {queue[i] : i \in DOMAIN queue} \cup {events[i] : i \in DOMAIN events}

Free ==
  {p \in Pid : /\ life[p] = None /\ p \notin listed
               /\ \A m \in Packets : m.pid # p
               /\ \A q \in Pid : p \notin subs[q]}

Running(n) == {p \in Pid : life[p] = n}

(* A start in the background, as of fRunService, which does not look        *)
(* whether one runs; the bound on pids leaves one for a restart.            *)
Start(n) ==
  /\ Running(n) = {} \/ (n \in Twice /\ Cardinality(Running(n)) = 1)
  /\ Cardinality(Free) > 1
  /\ life' = [life EXCEPT ![CHOOSE p \in Free : TRUE] = n]
  /\ UNCHANGED <<phase, queue, events, lvars, since, thread, dropped>>

(* A process ends, and its copy of the state of the library with it. *)
Ends(p) == /\ life' = [life EXCEPT ![p] = None]
           /\ phase' = [phase EXCEPT ![p] = "new"]

Crash(p) ==
  /\ life[p] # None
  /\ Ends(p)
  /\ UNCHANGED <<queue, events, lvars, since, thread, dropped>>

(* lib/pfwdt: everything but the first REGISTER needs a registration, and  *)
(* UNREGISTER does not undo it; what the library puts into wdid is the     *)
(* bare command.                                                           *)
wdid(cmd) == IF Documented THEN cmd * 16777216 ELSE cmd  \* 2^24
PFWD_TYPE(id) == (id \div 16777216) % 256

(* A process has one sub-service at a time. *)
HasSub(p) ==
  \/ \E q \in Pid : p \in subs[q]
  \/ \E m \in Packets : m.pid = p /\ m.wdid = wdid(SUBREGISTER)

(* PFWatchdogSubRegister and its kin, from a process that uses them. *)
MaySendSub(p, cmd) ==
  /\ phase[p] # "new" /\ life[p] \in SubUsers
  /\ cmd = SUBREGISTER => ~HasSub(p)

MaySend(p, cmd) ==
  CASE cmd = REGISTER -> phase[p] = "new"
    [] cmd \in SubCommands -> MaySendSub(p, cmd)
    [] OTHER -> phase[p] # "new"

Send(p, cmd) ==
  /\ life[p] # None /\ MaySend(p, cmd)
  /\ Len(queue) + Len(events) < MaxPackets
  /\ queue' = Append(queue, [wdid |-> wdid(cmd), pid |-> p, name |-> life[p]])
  /\ phase' = [phase EXCEPT ![p] =
       CASE cmd = REGISTER -> "registered"
         [] cmd \in {START, ALIVE} -> "started"
         [] OTHER -> @]
  /\ UNCHANGED <<life, events, lvars, since, thread, dropped>>

(* PFU_isValidProcess *)
Valid(p, n) == life[p] = n

----------------------------------------------------------------------------
(* eventWDHandler and watchdogAddEvent, in the main thread. *)

AddEvent_head(m) == events' = <<m>> \o events
AddEvent(m) == events' = Append(events, m)

eventWDHandler ==
  /\ thread # "gone" /\ queue # << >>
  /\ queue' = Tail(queue)
  /\ IF PFWD_TYPE(Head(queue).wdid) \in Commands
       THEN AddEvent(Head(queue)) /\ UNCHANGED dropped
       ELSE dropped' = TRUE /\ UNCHANGED events
  /\ UNCHANGED <<pvars, lvars, since, thread>>

----------------------------------------------------------------------------
(* The handlers of the watchdog thread. *)

WithName(n) == {p \in listed : nameOf[p] = n}

(* The entries, by pid and name, that a packet is about. *)
Addressed_byName(m) == WithName(m.name)
Addressed(m) == {p \in listed : p = m.pid /\ nameOf[p] = m.name}

Resub(new) ==
  /\ subs' = new
  /\ subLeft' = [q \in Pid |-> IF \E p \in Pid : q \in new[p] THEN subLeft[q] ELSE 0]

(* The list without the entries gone, and with those of new. *)
Relist(gone, new, n) ==
  /\ listed' = (listed \ gone) \cup new
  /\ nameOf' = [p \in Pid |-> IF p \in new THEN n
                              ELSE IF p \in gone THEN None ELSE nameOf[p]]
  /\ active' = [p \in Pid |-> active[p] /\ p \notin gone \cup new]
  /\ left' = [p \in Pid |-> IF p \in gone \cup new THEN 0 ELSE left[p]]
  /\ Resub([p \in Pid |-> IF p \in gone \cup new THEN {} ELSE subs[p]])

(* addServiceList: a second instance is killed; an entry of a process that *)
(* is gone makes room, whether or not the new one can be added.            *)
Replaced_none(n) == {}
Replaced(n) == WithName(n)

Addable(n) == ~\E q \in WithName(n) : Valid(q, n)

addServiceList(p, n) ==
  IF Addable(n)
    THEN /\ Relist(Replaced(n), IF Valid(p, n) THEN {p} ELSE {}, n)
         /\ UNCHANGED pvars
    ELSE Ends(p) /\ UNCHANGED lvars

Rearmed_plusTwo == Timeout + 2
Rearmed == Timeout + 1

serviceStartStopWD(m, on) ==
  /\ active' = [p \in Pid |-> IF p \in Addressed(m) THEN on ELSE active[p]]
  /\ left' = [p \in Pid |-> IF p \in Addressed(m) THEN Rearmed ELSE left[p]]
  /\ UNCHANGED <<pvars, listed, nameOf, subs, subLeft>>

(* The entry of a process that is gone is dropped, and not restarted. *)
addSubServiceList(m) ==
  LET found == WithName(m.name)
  IN  IF \E p \in found : ~Valid(p, m.name)
        THEN Relist(found, {}, m.name) /\ UNCHANGED pvars
        ELSE /\ subs' = [p \in Pid |-> IF p \in found THEN subs[p] \cup {m.pid}
                                                      ELSE subs[p]]
             /\ subLeft' = [subLeft EXCEPT ![m.pid] = IF found = {} THEN @ ELSE Timeout]
             /\ UNCHANGED <<pvars, listed, nameOf, active, left>>

removeSubServiceList(m) ==
  /\ Resub([subs EXCEPT ![m.pid] = @ \ {m.pid}])
  /\ UNCHANGED <<pvars, listed, nameOf, active, left>>

serviceSubAliveWD(m) ==
  /\ subLeft' = [subLeft EXCEPT ![m.pid] =
       IF \E p \in Addressed(m) : m.pid \in subs[p] THEN Rearmed ELSE @]
  /\ UNCHANGED <<pvars, listed, nameOf, active, left, subs>>

processWDEvent(m) ==
  LET cmd == PFWD_TYPE(m.wdid)
  IN  \/ cmd = REGISTER /\ addServiceList(m.pid, m.name)
      \/ cmd = UNREGISTER /\ Relist(Addressed(m), {}, m.name) /\ UNCHANGED pvars
      \/ cmd \in {START, ALIVE} /\ serviceStartStopWD(m, TRUE)
      \/ cmd = STOP /\ serviceStartStopWD(m, FALSE)
      \/ cmd = SUBREGISTER /\ addSubServiceList(m)
      \/ cmd = SUBUNREGISTER /\ removeSubServiceList(m)
      \/ cmd = SUBALIVE /\ serviceSubAliveWD(m)

(* processWatchdog: handle what there is, then update, then wait. *)
Drain ==
  /\ thread = "drain" /\ events # << >>
  /\ events' = Tail(events)
  /\ processWDEvent(Head(events))
  /\ UNCHANGED <<queue, since, thread, dropped>>

Drained ==
  /\ thread = "drain" /\ events = << >>
  /\ thread' = "update"
  /\ UNCHANGED <<pvars, queue, events, lvars, since, dropped>>

Silent_subsOnly(p) == \E q \in subs[p] : subLeft[q] < 0
Silent(p) == left[p] < 0 \/ \E q \in subs[p] : subLeft[q] < 0

(* The entries watchdogServiceUpdate acts on. *)
Failed_silentOnly == {p \in listed : Silent(p)}
Failed == {p \in listed : ~Valid(p, nameOf[p]) \/ Silent(p)}

Named(S) == {nameOf[p] : p \in S}

Reboots == \E n \in Named(Failed) : Mode[n] = "REBOOT"

(* The programs watchdogAction restarts: those that come before one of the *)
(* REBOOT mode in the list, with which the daemon exits.                   *)
Acted ==
  LET all == {n \in Named(Failed) : Mode[n] = "RESTART"}
  IN  IF Reboots THEN SUBSET all ELSE {all}

(* watchdogAction: killall by name, and a new process. *)
watchdogServiceUpdate ==
  \E restarted \in Acted :
    \E new \in [restarted -> Free] :
        /\ \A m, n \in restarted : new[m] = new[n] => m = n
        /\ life' = [p \in Pid |->
             IF \E n \in restarted : new[n] = p
               THEN CHOOSE n \in restarted : new[n] = p
               ELSE IF life[p] \in restarted THEN None ELSE life[p]]
        /\ phase' = [p \in Pid |->
             IF life[p] \in restarted THEN "new" ELSE phase[p]]
        /\ Relist(Failed, {}, None)

(* A service of the REBOOT mode takes the daemon with it: exit(1). *)
Update ==
  /\ thread = "update"
  /\ IF since < Period
       THEN UNCHANGED <<pvars, lvars, since>>
       ELSE watchdogServiceUpdate /\ since' = 0
  /\ thread' = IF since >= Period /\ Reboots THEN "gone" ELSE "drain"
  /\ UNCHANGED <<queue, events, dropped>>

(* A second passes.  Below zero all the counts are alike. *)
Less(x) == IF x < 0 THEN x ELSE x - 1

Tick ==
  /\ thread # "gone"
  /\ left' = [p \in Pid |-> IF p \in listed /\ active[p] THEN Less(left[p]) ELSE left[p]]
  /\ subLeft' = [q \in Pid |->
       IF \E p \in listed : q \in subs[p] THEN Less(subLeft[q]) ELSE subLeft[q]]
  /\ since' = IF since < Period THEN since + 1 ELSE since
  /\ UNCHANGED <<pvars, queue, events, listed, nameOf, active, subs, thread,
                 dropped>>

----------------------------------------------------------------------------
Next ==
  \/ \E n \in Name : Start(n)
  \/ \E p \in Pid : Crash(p) \/ \E cmd \in Commands : Send(p, cmd)
  \/ eventWDHandler \/ Drain \/ Drained \/ Update \/ Tick

Spec == Init /\ [][Next]_vars

(* Both threads of the daemon and the clock go on. *)
Fairness ==
  /\ WF_vars(eventWDHandler) /\ WF_vars(Drain) /\ SF_vars(Drained)
  /\ WF_vars(Update) /\ WF_vars(Tick)

FairSpec == Spec /\ Fairness

----------------------------------------------------------------------------
TypeOK ==
  /\ life \in [Pid -> Name \cup {None}]
  /\ phase \in [Pid -> {"new", "registered", "started"}]
  /\ listed \subseteq Pid
  /\ \A p \in Pid : nameOf[p] \in (IF p \in listed THEN Name ELSE {None})
  /\ left \in [Pid -> -1 .. Timeout + 1] /\ subLeft \in [Pid -> -1 .. Timeout + 1]
  /\ active \in [Pid -> BOOLEAN] /\ subs \in [Pid -> SUBSET Pid]
  /\ since \in 0 .. Period

(* A program has one entry, however often it is started and restarted. *)
NamesListedOnce ==
  \A p, q \in listed : nameOf[p] = nameOf[q] => p = q

(* A service is watched for silence only if that process asked for it: a   *)
(* packet left over from an earlier instance does not arm the timer of     *)
(* the instance that took its place.                                       *)
ArmedByItself ==
  \A p \in listed : active[p] /\ life[p] # None => phase[p] = "started"

(* A sub-service hangs on the process that registered it, which alone can  *)
(* keep it alive.  It does not hold when a program is started twice: the   *)
(* packet of the second instance is matched by name.                       *)
SubsOfTheirOwn ==
  \A p \in listed : nameOf[p] \notin Twice => subs[p] \subseteq {p}

(* A packet of the program that takes its entry off the list: addService-  *)
(* List and addSubServiceList drop the entry of a dead process as well as  *)
(* removeServiceList does, and do not restart it.                          *)
Withdrawn(n) ==
  \E m \in Packets :
    m.name = n /\ PFWD_TYPE(m.wdid) \in {REGISTER, UNREGISTER, SUBREGISTER}

(* The loop that drains eventRoot has no bound: a flood of packets keeps   *)
(* the watchdog thread from ever looking at the services.                  *)
NoFlood == []<>(thread = "drain" /\ events = << >>)

(* A service of the RESTART mode that dies is started again, unless such a *)
(* packet is on its way.                                                   *)
Restarted ==
  NoFlood =>
    \A p \in Pid, n \in Name :
      (/\ p \in listed /\ nameOf[p] = n /\ Mode[n] = "RESTART" /\ life[p] = None
       /\ ~Withdrawn(n))
        ~> (Running(n) # {} \/ thread = "gone")

(* A service that is watched and says nothing more is dropped, and so is   *)
(* one whose sub-service says nothing more.                                *)
SilenceNoticed ==
  NoFlood =>
    \A p \in Pid :
      /\ []<>(\/ p \notin listed \/ ~active[p] \/ left[p] = Timeout + 1
              \/ thread = "gone")
      /\ []<>(\/ p \notin listed \/ subs[p] = {} \/ subLeft[p] = Timeout + 1
              \/ thread = "gone")

(* pfwatchdog.h:11-21 gives the form of a wdid, with the type in its upper *)
(* 8 bits: no packet of the library is taken for an unknown one.           *)
PacketsKnown == ~dropped
=============================================================================
