--------------------------- MODULE WatchdogProofs ---------------------------
(***************************************************************************)
(* Proofs about Watchdog: the list has one entry for a program, timers are *)
(* armed by the process they watch, and a sub-service hangs on the process *)
(* that registered it, for every number of processes, programs, packets    *)
(* and seconds.                                                            *)
(***************************************************************************)
EXTENDS Watchdog, FiniteSetTheorems, TLAPS

Packet == [wdid : {wdid(cmd) : cmd \in Commands}, pid : Pid, name : Name]

Types ==
  /\ TypeOK
  /\ queue \in Seq(Packet) /\ events \in Seq(Packet)
  /\ \A p \in Pid : life[p] = None => phase[p] = "new"
  /\ ~Documented => events = << >> /\ listed = {}

(* The packets in the order in which they will be handled. *)
Index == Nat \ {0}
Sent == Len(events) + Len(queue)
At(i) == IF i <= Len(events) THEN events[i] ELSE queue[i - Len(events)]
Carries(i, cmd, n, p) ==
  i <= Sent /\ PFWD_TYPE(At(i).wdid) = cmd /\ At(i).name = n /\ At(i).pid = p
Reg(i, n, p) == Carries(i, REGISTER, n, p)
Sub(i, n, p) == Carries(i, SUBREGISTER, n, p)

(* A process that has sent nothing yet is not known to anybody, and one    *)
(* has sent START or ALIVE if there is such a packet.                      *)
Fresh ==
  \A p \in Pid : life[p] # None /\ phase[p] = "new" =>
                   p \notin listed /\ \A m \in Packets : m.pid # p
StartSent ==
  \A m \in Packets :
    PFWD_TYPE(m.wdid) \in {START, ALIVE} /\ life[m.pid] # None =>
      phase[m.pid] = "started"

(* A process registers once, before it is listed. *)
RegOnce ==
  \A i, j \in Index, n, k \in Name, p \in Pid :
    Reg(i, n, p) => p \notin listed /\ (Reg(j, k, p) => i = j)

Alone ==
  \A p, q \in Pid : life[p] = life[q] /\ life[p] \in Name \ Twice => p = q

(* Of a program that runs once: who is registered, registered after every  *)
(* other process of that program, is listed alone or not at all yet.       *)
Member(p, n) == life[p] = n /\ phase[p] # "new"
MemberLast ==
  \A n \in Name \ Twice, p, q \in Pid, i \in Index :
    Member(p, n) /\ Reg(i, n, q) /\ p # q => \E j \in Index : i < j /\ Reg(j, n, p)
MemberListed ==
  \A n \in Name \ Twice, p \in Pid :
    Member(p, n) => WithName(n) \subseteq {p} \/ \E j \in Index : Reg(j, n, p)

(* The same of the sender of a SUBREGISTER when that is handled. *)
SubLast ==
  \A n \in Name \ Twice, p, q \in Pid, i, k \in Index :
    i < k /\ Sub(k, n, p) /\ Reg(i, n, q) /\ p # q =>
      \E j \in Index : i < j /\ j < k /\ Reg(j, n, p)
SubListed ==
  \A n \in Name \ Twice, p \in Pid, k \in Index :
    Sub(k, n, p) =>
      WithName(n) \subseteq {p} \/ \E j \in Index : j < k /\ Reg(j, n, p)

Order == RegOnce /\ MemberLast /\ MemberListed /\ SubLast /\ SubListed

IInv ==
  /\ Types /\ Fresh /\ StartSent /\ Alone /\ Order
  /\ NamesListedOnce /\ ArmedByItself /\ SubsOfTheirOwn

------------------------------------------------------------------------------
(* Packets                                                                   *)

LEMMA CommandTypes ==
  /\ None \notin Name
  /\ Timeout \in Nat /\ Period \in Nat
  /\ \A cmd \in Commands : PFWD_TYPE(wdid(cmd)) = IF Documented THEN cmd ELSE 0
  /\ \A m \in Packet : /\ m.pid \in Pid /\ m.name \in Name
                       /\ PFWD_TYPE(m.wdid) \in Commands <=> Documented
<1>1. ASSUME NEW cmd \in Commands
      PROVE  PFWD_TYPE(wdid(cmd)) = IF Documented THEN cmd ELSE 0
  BY DEF Commands, wdid, PFWD_TYPE
<1>2. 0 \notin Commands BY DEF Commands
<1>3. ASSUME NEW m \in Packet
      PROVE /\ m.pid \in Pid /\ m.name \in Name
            /\ PFWD_TYPE(m.wdid) \in Commands <=> Documented
  BY <1>1, <1>2 DEF Packet
<1> QED BY <1>1, <1>3, WatchdogAssumption

LEMMA PacketsTyped == ASSUME Types PROVE Packets \subseteq Packet
BY DEF Types, Packets

LEMMA RegFacts ==
  ASSUME Types, NEW i \in Index, NEW n \in Name, NEW p \in Pid
  PROVE  /\ Reg(i, n, p) => Documented
         /\ Sub(i, n, p) => Documented /\ ~Reg(i, n, p)
         /\ Reg(i, n, p) \/ Sub(i, n, p) =>
              i <= Sent /\ At(i) \in Packets /\ At(i).pid = p
<1>1. i <= Sent => At(i) \in Packets
  BY DEF Types, Sent, At, Packets, Index
<1>2. i <= Sent => At(i) \in Packet BY <1>1, PacketsTyped
<1>3. Reg(i, n, p) \/ Sub(i, n, p) =>
        /\ i <= Sent /\ PFWD_TYPE(At(i).wdid) \in Commands /\ At(i).pid = p
  BY DEF Reg, Sub, Carries, Commands, REGISTER, SUBREGISTER
<1>4. Reg(i, n, p) \/ Sub(i, n, p) => Documented BY <1>2, <1>3, CommandTypes
<1>5. Sub(i, n, p) => ~Reg(i, n, p)
  BY DEF Reg, Sub, Carries, REGISTER, SUBREGISTER
<1> QED BY <1>1, <1>3, <1>4, <1>5

(* The stream does not change. *)
SameStream ==
  \A i \in Index, n \in Name, p \in Pid :
    (Reg(i, n, p)' <=> Reg(i, n, p)) /\ (Sub(i, n, p)' <=> Sub(i, n, p))

LEMMA StreamKept ==
  ASSUME UNCHANGED <<queue, events>> PROVE SameStream /\ Packets' = Packets
<1>1. Packets' = Packets BY DEF Packets
<1>2. \A i : Sent' = Sent /\ At(i)' = At(i) BY DEF Sent, At
<1>3. SameStream BY <1>2 DEF SameStream, Reg, Sub, Carries
<1> QED BY <1>1, <1>3

LEMMA TailFacts ==
  ASSUME NEW S, NEW s \in Seq(S), s # << >>
  PROVE  /\ Head(s) \in S /\ Tail(s) \in Seq(S) /\ Head(s) = s[1]
         /\ Len(Tail(s)) = Len(s) - 1 /\ Len(s) \in Nat \ {0}
         /\ \A i \in 1..Len(s) - 1 : Tail(s)[i] = s[i + 1]
         /\ \A i \in DOMAIN Tail(s) : i + 1 \in DOMAIN s /\ Tail(s)[i] = s[i + 1]
         /\ 1 \in DOMAIN s
OBVIOUS

LEMMA AppendFacts ==
  ASSUME NEW S, NEW s \in Seq(S), NEW m \in S
  PROVE  /\ Append(s, m) \in Seq(S) /\ Len(Append(s, m)) = Len(s) + 1
         /\ Len(s) \in Nat
         /\ \A i \in 1..Len(s) : Append(s, m)[i] = s[i]
         /\ Append(s, m)[Len(s) + 1] = m
         /\ \A i \in DOMAIN Append(s, m) :
              Append(s, m)[i] = m \/ (i \in DOMAIN s /\ Append(s, m)[i] = s[i])
OBVIOUS

(* eventWDHandler moves a packet, or drops it: then it is no REGISTER. *)
LEMMA HandlerStream ==
  ASSUME Types, eventWDHandler
  PROVE  /\ SameStream /\ Packets' \subseteq Packets
         /\ queue' \in Seq(Packet) /\ events' \in Seq(Packet)
         /\ ~Documented => events' = << >>
<1>0. /\ queue \in Seq(Packet) /\ queue # << >> /\ events \in Seq(Packet)
      /\ queue' = Tail(queue)
      /\ events' = IF PFWD_TYPE(Head(queue).wdid) \in Commands
                     THEN Append(events, Head(queue)) ELSE events
  BY DEF Types, eventWDHandler, AddEvent
<1>1. /\ Head(queue) \in Packet /\ Head(queue) \in Packets
      /\ Tail(queue) \in Seq(Packet) /\ Head(queue) = queue[1]
      /\ Len(Tail(queue)) = Len(queue) - 1 /\ Len(queue) \in Nat \ {0}
      /\ \A k \in 1..Len(queue) - 1 : Tail(queue)[k] = queue[k + 1]
      /\ \A k \in DOMAIN Tail(queue) : Tail(queue)[k] \in Packets
  BY <1>0, TailFacts DEF Packets
<1>2. PFWD_TYPE(Head(queue).wdid) \in Commands <=> Documented
  BY <1>1, CommandTypes
<1>a. /\ Append(events, Head(queue)) \in Seq(Packet) /\ Len(events) \in Nat
      /\ Len(Append(events, Head(queue))) = Len(events) + 1
      /\ Append(events, Head(queue))[Len(events) + 1] = queue[1]
      /\ \A k \in 1..Len(events) : Append(events, Head(queue))[k] = events[k]
      /\ \A k \in DOMAIN Append(events, Head(queue)) :
           Append(events, Head(queue))[k] \in Packets
  BY <1>0, <1>1, AppendFacts DEF Packets
<1>3. queue' \in Seq(Packet) /\ events' \in Seq(Packet)
  BY <1>0, <1>1, <1>a
<1>4. Packets' \subseteq Packets
  <2>1. \A i \in DOMAIN queue' : queue'[i] \in Packets BY <1>0, <1>1
  <2>2. \A i \in DOMAIN events : events[i] \in Packets BY DEF Packets
  <2>3. \A i \in DOMAIN events' : events'[i] \in Packets BY <1>0, <1>a, <2>2
  <2> QED BY <2>1, <2>3 DEF Packets
<1>5. ~Documented => events' = << >> BY <1>0, <1>2 DEF Types
<1>6. CASE Documented
  <2>1. Sent' = Sent BY <1>0, <1>1, <1>2, <1>6, <1>a DEF Sent
  <2>2. ASSUME NEW i \in Index, i <= Sent PROVE At(i)' = At(i)
    <3>1. /\ Len(queue) \in Nat \ {0} /\ Len(events) \in Nat
          /\ Len(events') = Len(events) + 1 /\ Len(queue') = Len(queue) - 1
          /\ events'[Len(events) + 1] = queue[1]
          /\ \A k \in 1..Len(events) : events'[k] = events[k]
          /\ \A k \in 1..Len(queue) - 1 : queue'[k] = queue[k + 1]
      BY <1>0, <1>1, <1>2, <1>6, <1>a
    <3>2. CASE i <= Len(events) BY <3>1, <3>2 DEF At, Index
    <3>3. CASE i = Len(events) + 1 BY <3>1, <3>3 DEF At, Index
    <3>4. CASE i > Len(events) + 1
      <4>1. i - Len(events) - 1 \in 1..Len(queue) - 1
        BY <2>2, <3>1, <3>4 DEF Index, Sent
      <4> QED BY <3>1, <3>4, <4>1 DEF At, Index
    <3> QED BY <3>1, <3>2, <3>3, <3>4 DEF Index
  <2>3. SameStream BY <2>1, <2>2 DEF SameStream, Reg, Sub, Carries
  <2> QED BY <1>3, <1>4, <1>5, <2>3
<1>7. CASE ~Documented
  <2>1. Types => SameStream
    <3>1. /\ \A i \in Index, n \in Name, p \in Pid : ~Reg(i, n, p) /\ ~Sub(i, n, p)
      BY <1>7, RegFacts
    <3>2. ASSUME NEW i \in Index, i <= Sent' PROVE At(i)' \in Packet
      BY <1>3, <3>2 DEF Sent, At, Index
    <3>3. \A i \in Index, n \in Name, p \in Pid : ~Reg(i, n, p)' /\ ~Sub(i, n, p)'
      BY <1>7, <3>2, CommandTypes
      DEF Reg, Sub, Carries, Commands, REGISTER, SUBREGISTER
    <3> QED BY <3>1, <3>3 DEF SameStream
  <2> QED BY <1>3, <1>4, <1>5, <2>1
<1> QED BY <1>6, <1>7

(* Drain takes the first packet. *)
Shifted ==
  \A i \in Index, n \in Name, p \in Pid :
    (Reg(i, n, p)' <=> Reg(i + 1, n, p)) /\ (Sub(i, n, p)' <=> Sub(i + 1, n, p))

LEMMA DrainStream ==
  ASSUME Types, Drain
  PROVE  /\ Shifted /\ Packets' \subseteq Packets
         /\ queue' \in Seq(Packet) /\ events' \in Seq(Packet)
         /\ Documented
         /\ Head(events) \in Packets /\ Head(events) \in Packet
         /\ At(1) = Head(events) /\ 1 <= Sent
<1>0. /\ queue \in Seq(Packet) /\ events \in Seq(Packet) /\ events # << >>
      /\ events' = Tail(events) /\ queue' = queue
  BY DEF Types, Drain
<1>1. Documented BY <1>0 DEF Types
<1>2. /\ Head(events) \in Packet /\ Head(events) \in Packets
      /\ Tail(events) \in Seq(Packet) /\ Head(events) = events[1]
      /\ Len(Tail(events)) = Len(events) - 1 /\ Len(events) \in Nat \ {0}
      /\ \A k \in 1..Len(events) - 1 : Tail(events)[k] = events[k + 1]
      /\ \A k \in DOMAIN Tail(events) : Tail(events)[k] \in Packets
      /\ Len(queue) \in Nat
  BY <1>0, TailFacts DEF Packets
<1>3. Packets' \subseteq Packets
  <2>1. \A i \in DOMAIN events' : events'[i] \in Packets BY <1>0, <1>2
  <2> QED BY <1>0, <2>1 DEF Packets
<1>4. Sent' = Sent - 1 /\ Sent \in Nat /\ 1 <= Sent BY <1>0, <1>2 DEF Sent
<1>5. ASSUME NEW i \in Index PROVE i <= Sent' => At(i)' = At(i + 1)
  <2>1. CASE i <= Len(events) - 1 BY <1>0, <1>2, <2>1 DEF At, Index
  <2>2. CASE i > Len(events) - 1
    <3>1. At(i)' = queue[i - (Len(events) - 1)] BY <1>0, <1>2, <2>2 DEF At, Index
    <3>2. At(i + 1) = queue[(i + 1) - Len(events)] BY <1>0, <1>2, <2>2 DEF At, Index
    <3>3. i - (Len(events) - 1) = (i + 1) - Len(events) BY <1>2 DEF Index
    <3> QED BY <3>1, <3>2, <3>3
  <2> QED BY <1>2, <2>1, <2>2 DEF Index
<1>6. \A i \in Index : i <= Sent' <=> i + 1 <= Sent BY <1>4 DEF Index
<1>7. Shifted BY <1>5, <1>6 DEF Shifted, Reg, Sub, Carries
<1>8. At(1) = Head(events) BY <1>2 DEF At
<1> QED BY <1>0, <1>1, <1>2, <1>3, <1>4, <1>7, <1>8

(* Send appends a packet. *)
LEMMA SendStream ==
  ASSUME Types, NEW p \in Pid, NEW cmd \in Commands, Send(p, cmd)
  PROVE  LET m == [wdid |-> wdid(cmd), pid |-> p, name |-> life[p]]
         IN  /\ queue' \in Seq(Packet) /\ events' = events
             /\ Packets' \subseteq Packets \cup {m} /\ m \in Packet
             /\ Sent' = Sent + 1 /\ Sent \in Nat
             /\ \A i \in Index : /\ i <= Sent => At(i)' = At(i)
                                 /\ i = Sent + 1 => At(i)' = m
<1> DEFINE m == [wdid |-> wdid(cmd), pid |-> p, name |-> life[p]]
<1>0. /\ queue \in Seq(Packet) /\ events \in Seq(Packet)
      /\ queue' = Append(queue, m) /\ events' = events /\ m \in Packet
  BY DEF Types, TypeOK, Send, Packet
<1> HIDE DEF m
<1>1. /\ queue' \in Seq(Packet) /\ Len(queue') = Len(queue) + 1
      /\ Len(queue) \in Nat /\ Len(events) \in Nat
      /\ \A i \in 1..Len(queue) : queue'[i] = queue[i]
      /\ queue'[Len(queue) + 1] = m
      /\ \A i \in DOMAIN queue' : queue'[i] \in Packets \cup {m}
  BY <1>0, AppendFacts DEF Packets
<1>2. Packets' \subseteq Packets \cup {m} BY <1>0, <1>1 DEF Packets
<1>3. Sent' = Sent + 1 /\ Sent \in Nat BY <1>0, <1>1 DEF Sent
<1>4. ASSUME NEW i \in Index, i = Sent + 1 PROVE At(i)' = m
  <2>1. i > Len(events) /\ i - Len(events) = Len(queue) + 1
    BY <1>1, <1>4 DEF Sent
  <2>2. At(i)' = queue'[i - Len(events)] BY <1>0, <1>1, <2>1 DEF At, Index
  <2> QED BY <1>1, <2>1, <2>2
<1>5. ASSUME NEW i \in Index, i <= Sent PROVE At(i)' = At(i)
  <2>1. CASE i <= Len(events) BY <1>0, <2>1 DEF At
  <2>2. CASE i > Len(events)
    <3>1. i - Len(events) \in 1..Len(queue) BY <1>1, <1>5, <2>2 DEF Index, Sent
    <3> QED BY <1>0, <1>1, <2>2, <3>1 DEF At
  <2> QED BY <1>1, <2>1, <2>2 DEF Index
<1> QED BY <1>0, <1>1, <1>2, <1>3, <1>4, <1>5 DEF m

------------------------------------------------------------------------------
(* Lists that shrink, and processes that come and go                         *)

Shorter == listed' \subseteq listed /\ \A p \in listed' : nameOf'[p] = nameOf[p]

Calmer ==
  \A p \in listed' : subs'[p] \subseteq subs[p] /\ (active'[p] => active[p])

Fewer ==
  \A p \in Pid :
    life'[p] # None =>
      \/ life'[p] = life[p] /\ phase'[p] = phase[p]
      \/ p \in Free /\ phase'[p] = "new"

LEMMA FreeFacts ==
  ASSUME NEW p \in Free
  PROVE  /\ p \in Pid /\ life[p] = None /\ p \notin listed
         /\ \A m \in Packets : m.pid # p
BY DEF Free

LEMMA FreshKept ==
  ASSUME Types, Types', Fresh, StartSent, Shorter, Fewer, Packets' \subseteq Packets
  PROVE  Fresh' /\ StartSent'
<1>1. Fresh' BY FreeFacts DEF Fresh, Fewer, Shorter
<1>2. StartSent'
  <2>1. \A m \in Packets' : m.pid \in Pid
    BY PacketsTyped, CommandTypes
  <2> QED BY <2>1, FreeFacts DEF StartSent, Fewer
<1> QED BY <1>1, <1>2

LEMMA NamesKept ==
  ASSUME Shorter
  PROVE  /\ NamesListedOnce => NamesListedOnce'
         /\ \A n : WithName(n)' \subseteq WithName(n)
BY DEF Shorter, NamesListedOnce, WithName

LEMMA CalmKept ==
  ASSUME Types, Types', Shorter, Calmer, Fewer, ArmedByItself, SubsOfTheirOwn
  PROVE  ArmedByItself' /\ SubsOfTheirOwn'
<1>1. listed' \subseteq Pid BY DEF Types, TypeOK
<1>2. ArmedByItself'
  BY <1>1, FreeFacts DEF Shorter, Calmer, Fewer, ArmedByItself
<1>3. SubsOfTheirOwn' BY DEF Shorter, Calmer, SubsOfTheirOwn
<1> QED BY <1>2, <1>3

LEMMA MembersKept ==
  ASSUME Fewer, NEW p \in Pid, NEW n \in Name, Member(p, n)'
  PROVE  Member(p, n)
BY CommandTypes DEF Fewer, Member

LEMMA OrderSame ==
  ASSUME Types, Order, Shorter, Fewer, SameStream
  PROVE  Order'
<1> USE DEF Order
<1>1. RegOnce' BY DEF RegOnce, SameStream, Shorter
<1>2. MemberLast' BY MembersKept DEF MemberLast, SameStream
<1>3. MemberListed' BY MembersKept, NamesKept DEF MemberListed, SameStream
<1>4. SubLast' BY DEF SubLast, SameStream
<1>5. SubListed' BY NamesKept DEF SubListed, SameStream
<1> QED BY <1>1, <1>2, <1>3, <1>4, <1>5

LEMMA Indices ==
  \A i, j \in Index : /\ i + 1 \in Index /\ (i = j <=> i + 1 = j + 1)
                      /\ (i < j <=> i + 1 < j + 1)
                      /\ 1 \in Index /\ 1 < i + 1
                      /\ j # 1 => j - 1 \in Index /\ (j - 1) + 1 = j
BY DEF Index

LEMMA OrderShifted ==
  ASSUME Types, Order, Shorter, Fewer, Shifted,
         \A n \in Name, p \in Pid : ~Reg(1, n, p)
  PROVE  Order'
<1> USE DEF Order
<1>0. \A j \in Index, n \in Name, p \in Pid :
        Reg(j, n, p) => j # 1 /\ j - 1 \in Index /\ Reg(j - 1, n, p)'
  BY Indices DEF Shifted
<1>1. RegOnce' BY Indices DEF RegOnce, Shifted, Shorter
<1>2. ASSUME NEW n \in Name \ Twice, NEW p \in Pid, NEW q \in Pid, NEW i \in Index,
             Member(p, n)', Reg(i, n, q)', p # q
      PROVE  \E j \in Index : i < j /\ Reg(j, n, p)'
  <2>1. PICK j \in Index : i + 1 < j /\ Reg(j, n, p)
    BY <1>2, MembersKept, Indices DEF MemberLast, Shifted
  <2> QED BY <1>0, <2>1 DEF Index
<1>3. ASSUME NEW n \in Name \ Twice, NEW p \in Pid, Member(p, n)'
      PROVE  WithName(n)' \subseteq {p} \/ \E j \in Index : Reg(j, n, p)'
  BY <1>0, <1>3, MembersKept, NamesKept DEF MemberListed
<1>4. ASSUME NEW n \in Name \ Twice, NEW p \in Pid, NEW q \in Pid,
             NEW i \in Index, NEW k \in Index,
             i < k, Sub(k, n, p)', Reg(i, n, q)', p # q
      PROVE  \E j \in Index : i < j /\ j < k /\ Reg(j, n, p)'
  <2>1. PICK j \in Index : i + 1 < j /\ j < k + 1 /\ Reg(j, n, p)
    BY <1>4, Indices DEF SubLast, Shifted
  <2> QED BY <1>0, <2>1 DEF Index
<1>5. ASSUME NEW n \in Name \ Twice, NEW p \in Pid, NEW k \in Index, Sub(k, n, p)'
      PROVE  WithName(n)' \subseteq {p} \/ \E j \in Index : j < k /\ Reg(j, n, p)'
  <2>1. CASE WithName(n) \subseteq {p} BY <2>1, NamesKept
  <2>2. CASE ~(WithName(n) \subseteq {p})
    <3>1. PICK j \in Index : j < k + 1 /\ Reg(j, n, p)
      BY <1>5, <2>2, Indices DEF SubListed, Shifted
    <3> QED BY <1>0, <3>1 DEF Index
  <2> QED BY <2>1, <2>2
<1> QED BY <1>1, <1>2, <1>3, <1>4, <1>5
     DEF MemberLast, MemberListed, SubLast, SubListed

(* addServiceList, the only one that lengthens the list.                     *)
LEMMA OrderRegistered ==
  ASSUME Types, Order, Fresh, Alone, Fewer, Shifted,
         NEW a \in Pid, NEW r \in Name, Reg(1, r, a),
         listed' \subseteq listed \cup {a},
         \A p \in listed' \ {a} : nameOf'[p] = nameOf[p],
         \/ WithName(r)' \subseteq {a} /\ (a \in listed' => nameOf'[a] = r)
         \/ listed' = listed /\ \E q \in listed : nameOf[q] = r /\ life[q] = r
  PROVE  Order'
<1> USE DEF Order
<1>a. 1 \in Index /\ Reg(1, r, a) BY DEF Index
<1>b. /\ \A j \in Index, n \in Name, p \in Pid :
           Reg(j, n, p) /\ j # 1 => j - 1 \in Index /\ Reg(j - 1, n, p)'
  BY Indices DEF Shifted
<1>c. RegOnce BY DEF Order
<1>d. a \notin listed /\ \A j \in Index, n \in Name : Reg(j, n, a) => j = 1
  BY <1>a, <1>c DEF RegOnce
<1>0. /\ \A j \in Index, n \in Name, p \in Pid :
           Reg(j, n, p) /\ j # 1 => j - 1 \in Index /\ Reg(j - 1, n, p)'
      /\ a \notin listed
      /\ \A j \in Index, n \in Name : Reg(j, n, a) => j = 1
  BY <1>b, <1>d
<1>1. RegOnce' BY <1>0, Indices DEF RegOnce, Shifted
<1>2. ASSUME NEW n \in Name \ Twice, NEW p \in Pid, NEW q \in Pid, NEW i \in Index,
             Member(p, n)', Reg(i, n, q)', p # q
      PROVE  \E j \in Index : i < j /\ Reg(j, n, p)'
  <2>1. PICK j \in Index : i + 1 < j /\ Reg(j, n, p)
    BY <1>2, MembersKept, Indices DEF MemberLast, Shifted
  <2> QED BY <1>0, <2>1 DEF Index
<1>3. \A n \in Name : n # r => WithName(n)' \subseteq WithName(n) BY <1>0 DEF WithName
<1>4. \A n \in Name, p \in Pid : Reg(1, n, p) => n = r /\ p = a
  BY DEF Reg, Carries
<1>5. ASSUME WithName(r)' \subseteq {a}
      PROVE  MemberListed' /\ SubListed'
  <2>1. ASSUME NEW n \in Name \ Twice, NEW p \in Pid, Member(p, n)'
        PROVE  WithName(n)' \subseteq {p} \/ \E j \in Index : Reg(j, n, p)'
    <3>1. Member(p, n) BY <2>1, MembersKept
    <3>2. WithName(n) \subseteq {p} \/ \E j \in Index : Reg(j, n, p)
      BY <3>1 DEF MemberListed
    <3>3. p # a /\ n = r => \E j \in Index : 1 < j /\ Reg(j, n, p)
      BY <1>a, <3>1 DEF MemberLast
    <3>4. \A j \in Index : 1 < j => j # 1 OBVIOUS
    <3> QED BY <1>0, <1>3, <1>4, <1>5, <3>2, <3>3, <3>4
  <2>2. ASSUME NEW n \in Name \ Twice, NEW p \in Pid, NEW k \in Index, Sub(k, n, p)'
        PROVE  WithName(n)' \subseteq {p} \/ \E j \in Index : j < k /\ Reg(j, n, p)'
    <3>1. Sub(k + 1, n, p) /\ k + 1 \in Index /\ 1 < k + 1 /\ 1 \in Index
      BY <2>2, Indices DEF Shifted
    <3>2. WithName(n) \subseteq {p} \/ \E j \in Index : j < k + 1 /\ Reg(j, n, p)
      BY <3>1 DEF SubListed
    <3>3. p # a /\ n = r => \E j \in Index : 1 < j /\ j < k + 1 /\ Reg(j, n, p)
      BY <3>1 DEF SubLast
    <3>4. \A j \in Index : (1 < j => j # 1) /\ (j < k + 1 => j - 1 < k)
      BY DEF Index
    <3> QED BY <1>0, <1>3, <1>4, <1>5, <3>2, <3>3, <3>4
  <2> QED BY <2>1, <2>2 DEF MemberListed, SubListed
<1>6. ASSUME listed' = listed, NEW q \in listed, nameOf[q] = r, life[q] = r
      PROVE  MemberListed' /\ SubListed'
  <2>0. /\ \A n : WithName(n)' = WithName(n)
        /\ q \in Pid /\ q # a
    <3>1. \A k \in listed : nameOf'[k] = nameOf[k] BY <1>0, <1>6
    <3>2. \A n : WithName(n)' = WithName(n) BY <1>6, <3>1 DEF WithName
    <3> QED BY <1>0, <1>6, <3>2 DEF Types, TypeOK
  <2>1. ASSUME NEW n \in Name \ Twice, NEW p \in Pid, Member(p, n)'
        PROVE  WithName(n)' \subseteq {p} \/ \E j \in Index : Reg(j, n, p)'
    <3>1. Member(p, n) BY <2>1, MembersKept
    <3>2. WithName(n) \subseteq {p} \/ \E j \in Index : Reg(j, n, p)
      BY <3>1 DEF MemberListed
    <3>3. ~Reg(1, n, p) BY <1>4, <1>6, <2>0, <3>1 DEF Alone, Member
    <3> QED BY <1>0, <2>0, <3>2, <3>3
  <2>2. ASSUME NEW n \in Name \ Twice, NEW p \in Pid, NEW k \in Index, Sub(k, n, p)'
        PROVE  WithName(n)' \subseteq {p} \/ \E j \in Index : j < k /\ Reg(j, n, p)'
    <3>1. WithName(n) \subseteq {p} \/ \E j \in Index : j < k + 1 /\ Reg(j, n, p)
      BY <2>2, Indices DEF SubListed, Shifted
    <3>2. ~Reg(1, n, p)
      <4>1. SUFFICES ASSUME n = r PROVE FALSE BY <1>4
      <4>2. Member(q, r) BY <1>6, <2>0, CommandTypes DEF Fresh, Member
      <4>3. PICK j \in Index : Reg(j, r, q)
        BY <2>0, <4>1, <4>2, Indices DEF MemberLast
      <4> QED BY <1>6, <2>0, <4>3 DEF RegOnce
    <3>3. \A j \in Index : j < k + 1 => j - 1 < k BY DEF Index
    <3> QED BY <1>0, <2>0, <3>1, <3>2, <3>3
  <2> QED BY <2>1, <2>2 DEF MemberListed, SubListed
<1>7. ASSUME NEW n \in Name \ Twice, NEW p \in Pid, NEW q \in Pid,
             NEW i \in Index, NEW k \in Index,
             i < k, Sub(k, n, p)', Reg(i, n, q)', p # q
      PROVE  \E j \in Index : i < j /\ j < k /\ Reg(j, n, p)'
  <2>1. PICK j \in Index : i + 1 < j /\ j < k + 1 /\ Reg(j, n, p)
    BY <1>7, Indices DEF SubLast, Shifted
  <2> QED BY <1>0, <2>1 DEF Index
<1>8. MemberListed' /\ SubListed' BY <1>5, <1>6
<1> QED BY <1>1, <1>2, <1>7, <1>8 DEF MemberLast, SubLast

------------------------------------------------------------------------------
(* The steps                                                                 *)

LEMMA SendOrder ==
  ASSUME Types, Order, Fresh, Alone,
         NEW a \in Pid, NEW cmd \in Commands, Send(a, cmd)
  PROVE  Order'
<1> USE DEF Order
<1> DEFINE e == Sent + 1
<1>1. /\ life' = life /\ listed' = listed /\ \A n : WithName(n)' = WithName(n)
      /\ life[a] \in Name
      /\ cmd = REGISTER => phase[a] = "new"
      /\ cmd = SUBREGISTER => phase[a] # "new"
      /\ \A p \in Pid : phase'[p] # "new" /\ p # a => phase[p] # "new"
      /\ phase'[a] # "new" /\ cmd # REGISTER => phase[a] # "new"
  <2>1. cmd # REGISTER /\ MaySend(a, cmd) => phase[a] # "new"
    BY DEF MaySend, MaySendSub
  <2>2. cmd = REGISTER /\ MaySend(a, cmd) => phase[a] = "new"
    BY DEF MaySend, REGISTER, SubCommands, SUBREGISTER, SUBUNREGISTER, SUBALIVE
  <2>3. SUBREGISTER # REGISTER BY DEF REGISTER, SUBREGISTER
  <2> QED BY <2>1, <2>2, <2>3 DEF Types, TypeOK, Send, lvars, WithName
<1>2. e \in Index BY DEF Types, Sent, Index
<1>3. ASSUME NEW i \in Index, NEW n \in Name, NEW p \in Pid
      PROVE  /\ Reg(i, n, p) \/ Sub(i, n, p) => i < e /\ Documented
             /\ i < e => (Reg(i, n, p)' <=> Reg(i, n, p))
                         /\ (Sub(i, n, p)' <=> Sub(i, n, p))
             /\ Reg(i, n, p)' \/ Sub(i, n, p)' => i <= e
             /\ Reg(e, n, p) => FALSE
             /\ i = e => /\ Reg(i, n, p)' <=> /\ Documented /\ cmd = REGISTER
                                             /\ n = life[a] /\ p = a
                         /\ Sub(i, n, p)' => /\ cmd = SUBREGISTER
                                             /\ n = life[a] /\ p = a
  <2>1. /\ Sent' = Sent + 1 /\ Sent \in Nat
        /\ i <= Sent => At(i)' = At(i)
        /\ i = Sent + 1 => At(i)' = [wdid |-> wdid(cmd), pid |-> a, name |-> life[a]]
    BY SendStream
  <2>2. PFWD_TYPE(wdid(cmd)) = IF Documented THEN cmd ELSE 0 BY CommandTypes
  <2>3. REGISTER # 0 /\ SUBREGISTER # 0 BY DEF REGISTER, SUBREGISTER
  <2>4. i = e => At(i)'.pid = a /\ At(i)'.name = life[a] /\ At(i)'.wdid = wdid(cmd)
    BY <2>1
  <2>5. Reg(i, n, p) \/ Sub(i, n, p) => i < e /\ Documented
    BY <2>1, RegFacts DEF Index
  <2>6. i < e => (Reg(i, n, p)' <=> Reg(i, n, p)) /\ (Sub(i, n, p)' <=> Sub(i, n, p))
    BY <2>1 DEF Reg, Sub, Carries, Index
  <2>7. Reg(i, n, p)' \/ Sub(i, n, p)' => i <= e
    BY <2>1 DEF Reg, Sub, Carries, Index
  <2>8. i = e => /\ Reg(i, n, p)' <=> PFWD_TYPE(wdid(cmd)) = REGISTER
                                      /\ life[a] = n /\ a = p
                 /\ Sub(i, n, p)' <=> PFWD_TYPE(wdid(cmd)) = SUBREGISTER
                                      /\ life[a] = n /\ a = p
    BY <2>1, <2>4 DEF Reg, Sub, Carries
  <2>9. ~Reg(e, n, p) BY <2>1 DEF Reg, Carries
  <2> HIDE DEF e
  <2> QED BY <2>2, <2>3, <2>5, <2>6, <2>7, <2>8, <2>9
<1> HIDE DEF e
<1>4. \A i \in Index : i < e \/ i = e \/ e < i BY <1>2 DEF Index
<1>5. \A i \in Index : ~(i < e /\ i = e) /\ ~(i <= e /\ e < i) BY <1>2 DEF Index
<1>6. ASSUME NEW i \in Index, NEW n \in Name, NEW p \in Pid, Reg(i, n, p)'
      PROVE  \/ Reg(i, n, p) /\ i < e
             \/ i = e /\ Documented /\ cmd = REGISTER /\ n = life[a] /\ p = a
  BY <1>3, <1>4, <1>5, <1>6
<1>7. cmd = REGISTER => a \notin listed /\ \A i \in Index, n \in Name : ~Reg(i, n, a)
  BY <1>1, RegFacts, CommandTypes DEF Fresh
<1>8. RegOnce' BY <1>1, <1>6, <1>7 DEF RegOnce
<1>9. ASSUME NEW n \in Name, NEW p \in Pid, Member(p, n)'
      PROVE  Member(p, n) \/ (p = a /\ n = life[a] /\ cmd = REGISTER)
  BY <1>1, <1>9 DEF Member
<1>10. ASSUME NEW n \in Name \ Twice, NEW p \in Pid, NEW q \in Pid, NEW i \in Index,
              Member(p, n)', Reg(i, n, q)', p # q
       PROVE  \E j \in Index : i < j /\ Reg(j, n, p)'
  <2>1. CASE Reg(i, n, q) /\ i < e
    <3>1. CASE Member(p, n)
      <4>1. PICK j \in Index : i < j /\ Reg(j, n, p)
        BY <1>10, <2>1, <3>1 DEF MemberLast
      <4> QED BY <1>3, <4>1
    <3>2. CASE p = a /\ n = life[a] /\ cmd = REGISTER
      BY <1>2, <1>3, <2>1, <3>2
    <3> QED BY <1>9, <1>10, <3>1, <3>2
  <2>2. CASE cmd = REGISTER /\ n = life[a] /\ q = a
    BY <1>1, <1>9, <1>10, <2>2 DEF Alone, Member
  <2> QED BY <1>6, <1>10, <2>1, <2>2
<1>11. ASSUME NEW n \in Name \ Twice, NEW p \in Pid, Member(p, n)'
       PROVE  WithName(n)' \subseteq {p} \/ \E j \in Index : Reg(j, n, p)'
  <2>1. CASE ~Documented BY <1>1, <2>1 DEF Types, WithName
  <2>2. CASE Documented /\ p = a /\ n = life[a] /\ cmd = REGISTER
    BY <1>2, <1>3, <2>2
  <2>3. CASE Member(p, n) BY <1>1, <1>3, <2>3 DEF MemberListed
  <2> QED BY <1>9, <1>11, <2>1, <2>2, <2>3
<1>12. ASSUME NEW k \in Index, NEW n \in Name, NEW p \in Pid, Sub(k, n, p)'
       PROVE  \/ Sub(k, n, p) /\ k < e
              \/ k = e /\ p = a /\ n = life[a] /\ Member(p, n) /\ cmd # REGISTER
  <2>1. SUBREGISTER # REGISTER BY DEF REGISTER, SUBREGISTER
  <2> QED BY <1>1, <1>3, <1>4, <1>5, <1>12, <2>1 DEF Member
<1>13. ASSUME NEW n \in Name \ Twice, NEW p \in Pid, NEW q \in Pid,
              NEW i \in Index, NEW k \in Index,
              i < k, Sub(k, n, p)', Reg(i, n, q)', p # q
       PROVE  \E j \in Index : i < j /\ j < k /\ Reg(j, n, p)'
  <2>1. CASE Sub(k, n, p) /\ k < e
    <3>1. i < e BY <1>2, <1>13, <2>1 DEF Index
    <3>2. Reg(i, n, q) BY <1>3, <1>13, <3>1
    <3>3. PICK j \in Index : i < j /\ j < k /\ Reg(j, n, p)
      BY <1>13, <2>1, <3>2 DEF SubLast
    <3> QED BY <1>3, <3>3
  <2>2. CASE k = e /\ Member(p, n)
    <3>1. Reg(i, n, q) BY <1>3, <1>13, <2>2
    <3>2. PICK j \in Index : i < j /\ Reg(j, n, p)
      BY <1>13, <2>2, <3>1 DEF MemberLast
    <3> QED BY <1>3, <2>2, <3>2
  <2> QED BY <1>12, <1>13, <2>1, <2>2
<1>14. ASSUME NEW n \in Name \ Twice, NEW p \in Pid, NEW k \in Index, Sub(k, n, p)'
       PROVE  WithName(n)' \subseteq {p} \/ \E j \in Index : j < k /\ Reg(j, n, p)'
  <2>1. CASE Sub(k, n, p) /\ k < e BY <1>1, <1>3, <2>1 DEF SubListed
  <2>2. CASE k = e /\ Member(p, n)
    BY <1>1, <1>3, <2>2 DEF MemberListed
  <2> QED BY <1>12, <1>14, <2>1, <2>2
<1> QED BY <1>8, <1>10, <1>11, <1>13, <1>14
     DEF MemberLast, MemberListed, SubLast, SubListed

LEMMA PassiveKeeps ==
  ASSUME IInv, Types', Alone', Shorter, Calmer, Fewer, SameStream,
         Packets' \subseteq Packets
  PROVE  IInv'
<1>1. Fresh' /\ StartSent' BY FreshKept DEF IInv
<1>2. NamesListedOnce' BY NamesKept DEF IInv
<1>3. ArmedByItself' /\ SubsOfTheirOwn' BY CalmKept DEF IInv
<1>4. Order' BY OrderSame DEF IInv
<1> QED BY <1>1, <1>2, <1>3, <1>4 DEF IInv

LEMMA AloneKept ==
  ASSUME Types, Alone, \A p \in Pid : life'[p] = life[p] \/ life'[p] = None
  PROVE  Alone'
BY CommandTypes DEF Alone

LEMMA SendKeeps ==
  ASSUME IInv, NEW a \in Pid, NEW cmd \in Commands, Send(a, cmd) PROVE IInv'
<1> USE DEF IInv, lvars
<1> DEFINE m == [wdid |-> wdid(cmd), pid |-> a, name |-> life[a]]
<1>0. /\ UNCHANGED <<life, events, listed, nameOf, active, left, subs, subLeft,
                     since, thread>>
      /\ phase' = [phase EXCEPT ![a] =
           CASE cmd = REGISTER -> "registered"
             [] cmd \in {START, ALIVE} -> "started"
             [] OTHER -> @]
      /\ life[a] # None
      /\ cmd = REGISTER <=> phase[a] = "new"
      /\ queue' \in Seq(Packet) /\ Packets' \subseteq Packets \cup {m} /\ m \in Packet
  <2>1. cmd = REGISTER /\ MaySend(a, cmd) => phase[a] = "new"
    BY DEF MaySend, REGISTER, SubCommands, SUBREGISTER, SUBUNREGISTER, SUBALIVE
  <2>2. cmd # REGISTER /\ MaySend(a, cmd) => phase[a] # "new"
    BY DEF MaySend, MaySendSub
  <2>3. queue' \in Seq(Packet) /\ Packets' \subseteq Packets \cup {m} /\ m \in Packet
    BY SendStream
  <2> QED BY <2>1, <2>2, <2>3 DEF Send
<1>1. /\ phase' \in [Pid -> {"new", "registered", "started"}]
      /\ \A p \in Pid : p # a => phase'[p] = phase[p]
      /\ phase'[a] # "new"
      /\ cmd \in {START, ALIVE} => phase'[a] = "started"
      /\ phase[a] = "started" => phase'[a] = "started"
  <2>1. phase \in [Pid -> {"new", "registered", "started"}] BY DEF Types, TypeOK
  <2>2. REGISTER \notin {START, ALIVE} BY DEF REGISTER, START, ALIVE
  <2> QED BY <1>0, <2>1, <2>2
<1>2. Types' BY <1>0, <1>1 DEF Types, TypeOK
<1>3. m.pid = a /\ (PFWD_TYPE(m.wdid) \in {START, ALIVE} => cmd \in {START, ALIVE})
  BY CommandTypes DEF START, ALIVE
<1> HIDE DEF m
<1>4. Fresh' BY <1>0, <1>1, <1>3 DEF Fresh
<1>5. StartSent' BY <1>0, <1>1, <1>3, PacketsTyped, CommandTypes DEF StartSent
<1>6. Alone' BY <1>0 DEF Alone
<1>7. Order' BY SendOrder
<1>8. ArmedByItself'
  BY <1>0, <1>1 DEF ArmedByItself, Types, TypeOK
<1>9. NamesListedOnce' /\ SubsOfTheirOwn'
  BY <1>0 DEF NamesListedOnce, SubsOfTheirOwn
<1> QED BY <1>2, <1>4, <1>5, <1>6, <1>7, <1>8, <1>9

LEMMA HandlerKeeps == ASSUME IInv, eventWDHandler PROVE IInv'
<1> USE DEF IInv
<1>0. UNCHANGED <<pvars, lvars, since>> BY DEF eventWDHandler
<1>1. Types' BY <1>0, HandlerStream DEF Types, TypeOK, pvars, lvars
<1>2. Shorter /\ Calmer /\ Fewer /\ Alone'
  BY <1>0 DEF Shorter, Calmer, Fewer, Alone, pvars, lvars
<1> QED BY <1>1, <1>2, HandlerStream, PassiveKeeps

LEMMA StartKeeps == ASSUME IInv, NEW n \in Name, Start(n) PROVE IInv'
<1> USE DEF IInv
<1>0. UNCHANGED <<phase, queue, events, lvars, since, thread, dropped>>
  BY DEF Start
<1>1. PICK p \in Free : life' = [life EXCEPT ![p] = n]
  <2>1. Free # {}
    <3>1. Cardinality({}) = 0 BY FS_EmptySet
    <3> QED BY <3>1 DEF Start
  <2> QED BY <2>1 DEF Start
<1>2. p \in Pid /\ life[p] = None BY <1>1, FreeFacts
<1>3. Types' BY <1>0, <1>1, <1>2, CommandTypes DEF Types, TypeOK, lvars
<1>4. Shorter /\ Calmer BY <1>0 DEF Shorter, Calmer, lvars
<1>5. Fewer BY <1>0, <1>1, <1>2 DEF Fewer, Types, TypeOK
<1>6. Alone'
  <2>1. n \notin Twice => Running(n) = {} BY DEF Start
  <2> QED BY <1>1, <1>2, <2>1 DEF Alone, Running, Types, TypeOK
<1> QED BY <1>0, <1>3, <1>4, <1>5, <1>6, StreamKept, PassiveKeeps

LEMMA CrashKeeps == ASSUME IInv, NEW p \in Pid, Crash(p) PROVE IInv'
<1> USE DEF IInv
<1>0. /\ UNCHANGED <<queue, events, lvars, since, thread, dropped>>
      /\ life' = [life EXCEPT ![p] = None] /\ phase' = [phase EXCEPT ![p] = "new"]
  BY DEF Crash, Ends
<1>1. Types' BY <1>0 DEF Types, TypeOK, lvars
<1>2. Shorter /\ Calmer BY <1>0 DEF Shorter, Calmer, lvars
<1>3. Fewer BY <1>0 DEF Fewer, Types, TypeOK
<1>4. Alone' BY <1>0, AloneKept DEF Types, TypeOK
<1> QED BY <1>0, <1>1, <1>2, <1>3, <1>4, StreamKept, PassiveKeeps

LEMMA QuietKeeps ==
  ASSUME IInv, Drained \/ Tick \/ UNCHANGED vars PROVE IInv'
<1> USE DEF IInv
<1>0. UNCHANGED <<life, phase, queue, events, listed, nameOf, active, subs>>
  BY DEF Drained, Tick, vars, pvars, lvars
<1>1. TypeOK'
  <2>1. CASE Tick
    <3>1. \A x \in -1 .. Timeout + 1 : Less(x) \in -1 .. Timeout + 1
      BY CommandTypes DEF Less
    <3>2. left' \in [Pid -> -1 .. Timeout + 1]
      BY <2>1, <3>1 DEF Tick, Types, TypeOK
    <3>3. subLeft' \in [Pid -> -1 .. Timeout + 1]
      BY <2>1, <3>1 DEF Tick, Types, TypeOK
    <3>4. since' \in 0 .. Period BY <2>1, CommandTypes DEF Tick, Types, TypeOK
    <3> QED BY <1>0, <3>2, <3>3, <3>4 DEF Types, TypeOK
  <2>2. CASE Drained \/ UNCHANGED vars
    BY <2>2 DEF Drained, vars, pvars, lvars, Types, TypeOK
  <2> QED BY <2>1, <2>2
<1>2. Types' BY <1>0, <1>1 DEF Types
<1>3. Shorter /\ Calmer /\ Fewer /\ Alone'
  BY <1>0 DEF Shorter, Calmer, Fewer, Alone
<1> QED BY <1>0, <1>2, <1>3, StreamKept, PassiveKeeps

(* The list after Relist. *)
ListTypes ==
  /\ listed \subseteq Pid
  /\ \A p \in Pid : nameOf[p] \in (IF p \in listed THEN Name ELSE {None})
  /\ left \in [Pid -> -1 .. Timeout + 1] /\ subLeft \in [Pid -> -1 .. Timeout + 1]
  /\ active \in [Pid -> BOOLEAN] /\ subs \in [Pid -> SUBSET Pid]

LEMMA RelistFacts ==
  ASSUME ListTypes, NEW gone, NEW new \in SUBSET Pid, NEW n,
         new # {} => n \in Name, Relist(gone, new, n)
  PROVE  /\ ListTypes' /\ listed' = (listed \ gone) \cup new
         /\ \A p \in listed' \ new : p \in listed /\ nameOf'[p] = nameOf[p]
                                     /\ subs'[p] = subs[p]
                                     /\ (active'[p] => active[p])
         /\ \A p \in new : nameOf'[p] = n /\ subs'[p] = {} /\ ~active'[p]
<1> USE DEF ListTypes, Relist, Resub
<1>0. 0 \in -1 .. Timeout + 1 BY CommandTypes
<1>1. /\ listed' \subseteq Pid
      /\ \A p \in Pid : nameOf'[p] \in (IF p \in listed' THEN Name ELSE {None})
  OBVIOUS
<1>2. left' \in [Pid -> -1 .. Timeout + 1] BY <1>0
<1>3. subLeft' \in [Pid -> -1 .. Timeout + 1] BY <1>0
<1>4. active' \in [Pid -> BOOLEAN] OBVIOUS
<1>5. subs' \in [Pid -> SUBSET Pid] OBVIOUS
<1>6. \A p \in listed' \ new : p \in listed /\ nameOf'[p] = nameOf[p]
                               /\ subs'[p] = subs[p] /\ (active'[p] => active[p])
  OBVIOUS
<1>7. \A p \in new : nameOf'[p] = n /\ subs'[p] = {} /\ ~active'[p]
  OBVIOUS
<1> QED BY <1>1, <1>2, <1>3, <1>4, <1>5, <1>6, <1>7

LEMMA UpdateKeeps == ASSUME IInv, Update PROVE IInv'
<1> USE DEF IInv
<1>0. UNCHANGED <<queue, events>> BY DEF Update
<1>1. CASE since < Period
  <2>1. UNCHANGED <<pvars, lvars, since>> BY <1>1 DEF Update
  <2>2. Types' BY <1>0, <2>1 DEF Types, TypeOK, pvars, lvars
  <2>3. Shorter /\ Calmer /\ Fewer /\ Alone'
    BY <2>1 DEF Shorter, Calmer, Fewer, Alone, pvars, lvars
  <2> QED BY <1>0, <2>2, <2>3, StreamKept, PassiveKeeps
<1>2. CASE ~(since < Period)
  <2>1. watchdogServiceUpdate /\ since' = 0 BY <1>2 DEF Update
  <2>2. PICK restarted \in Acted :
          \E new \in [restarted -> Free] :
             /\ \A m, n \in restarted : new[m] = new[n] => m = n
             /\ life' = [p \in Pid |->
                  IF \E n \in restarted : new[n] = p
                    THEN CHOOSE n \in restarted : new[n] = p
                    ELSE IF life[p] \in restarted THEN None ELSE life[p]]
             /\ phase' = [p \in Pid |->
                  IF life[p] \in restarted THEN "new" ELSE phase[p]]
             /\ Relist(Failed, {}, None)
    BY <2>1 DEF watchdogServiceUpdate
  <2>3. PICK new \in [restarted -> Free] :
             /\ \A m, n \in restarted : new[m] = new[n] => m = n
             /\ life' = [p \in Pid |->
                  IF \E n \in restarted : new[n] = p
                    THEN CHOOSE n \in restarted : new[n] = p
                    ELSE IF life[p] \in restarted THEN None ELSE life[p]]
             /\ phase' = [p \in Pid |->
                  IF life[p] \in restarted THEN "new" ELSE phase[p]]
             /\ Relist(Failed, {}, None)
    BY <2>2
  <2>4. restarted \subseteq Name
    <3>1. \A p \in Failed : nameOf[p] \in Name
      BY DEF Failed, Types, TypeOK
    <3> QED BY <3>1 DEF Acted, Named
  <2>5. ASSUME NEW p \in Pid, NEW n \in restarted, new[n] = p
        PROVE  life'[p] = n /\ p \in Free /\ life[p] = None /\ phase'[p] = "new"
    <3>1. p \in Free /\ life[p] = None BY <2>3, <2>5, FreeFacts
    <3>2. (CHOOSE k \in restarted : new[k] = p) = n BY <2>3, <2>5
    <3>3. phase'[p] = "new"
      BY <2>3, <2>4, <3>1, CommandTypes DEF Types
    <3> QED BY <2>3, <2>5, <3>1, <3>2, <3>3
  <2>6. ASSUME NEW p \in Pid, \A n \in restarted : new[n] # p
        PROVE  /\ life'[p] = IF life[p] \in restarted THEN None ELSE life[p]
               /\ phase'[p] = IF life[p] \in restarted THEN "new" ELSE phase[p]
    BY <2>3, <2>6
  <2>7. Fewer BY <2>5, <2>6 DEF Fewer
  <2>8. Alone'
    <3> SUFFICES ASSUME NEW p \in Pid, NEW q \in Pid, life'[p] = life'[q],
                        life'[p] \in Name \ Twice
                 PROVE  p = q
      BY DEF Alone
    <3>1. CASE life'[p] \in restarted
      <4>1. \A r \in Pid : life'[r] \in restarted => new[life'[r]] = r
        BY <2>4, <2>5, <2>6, CommandTypes
      <4> QED BY <3>1, <4>1
    <3>2. CASE life'[p] \notin restarted
      BY <2>5, <2>6, <3>2, CommandTypes DEF Alone
    <3> QED BY <3>1, <3>2
  <2>9. ListTypes' /\ Shorter /\ Calmer /\ (listed = {} => listed' = {})
    <3>1. ListTypes BY DEF ListTypes, Types, TypeOK
    <3>2. /\ ListTypes' /\ listed' = (listed \ Failed) \cup {}
          /\ \A p \in listed' \ {} : p \in listed /\ nameOf'[p] = nameOf[p]
                                     /\ subs'[p] = subs[p]
                                     /\ (active'[p] => active[p])
      BY <2>3, <3>1, RelistFacts
    <3> QED BY <3>2 DEF Shorter, Calmer
  <2>10. /\ life' \in [Pid -> Name \cup {None}]
         /\ phase' \in [Pid -> {"new", "registered", "started"}]
         /\ \A p \in Pid : life'[p] = None => phase'[p] = "new"
    <3>1. \A p \in Pid : life'[p] \in Name \cup {None}
      <4> SUFFICES ASSUME NEW p \in Pid PROVE life'[p] \in Name \cup {None}
        OBVIOUS
      <4>1. life[p] \in Name \cup {None} BY DEF Types, TypeOK
      <4>2. CASE \E n \in restarted : new[n] = p BY <2>4, <2>5, <4>2
      <4>3. CASE \A n \in restarted : new[n] # p BY <2>6, <4>1, <4>3
      <4> QED BY <4>2, <4>3
    <3>2. \A p \in Pid : phase'[p] \in {"new", "registered", "started"}
      BY <2>3 DEF Types, TypeOK
    <3>3. \A p \in Pid : life'[p] = None => phase'[p] = "new"
      BY <2>4, <2>5, <2>6, CommandTypes DEF Types
    <3> QED BY <2>3, <3>1, <3>2, <3>3
  <2>11. Types' BY <1>0, <2>1, <2>9, <2>10, CommandTypes DEF Types, TypeOK, ListTypes
  <2> QED BY <1>0, <2>7, <2>8, <2>9, <2>11, StreamKept, PassiveKeeps
<1> QED BY <1>1, <1>2

(* Drain, one lemma for each kind of packet.                                 *)
LEMMA DrainKeeps ==
  ASSUME IInv, Drain, Types', Shorter, Fewer, Alone',
         PFWD_TYPE(Head(events).wdid) # REGISTER
  PROVE  Fresh' /\ StartSent' /\ Alone' /\ Order' /\ NamesListedOnce'
<1>1. \A n \in Name, p \in Pid : ~Reg(1, n, p)
  BY DrainStream DEF IInv, Reg, Carries
<1>2. Fresh' /\ StartSent' BY DrainStream, FreshKept DEF IInv
<1>3. Order' BY <1>1, DrainStream, OrderShifted DEF IInv
<1> QED BY <1>2, <1>3, NamesKept DEF IInv

LEMMA DrainTypes ==
  ASSUME IInv, Drain, ListTypes', life' \in [Pid -> Name \cup {None}],
         phase' \in [Pid -> {"new", "registered", "started"}],
         \A p \in Pid : life'[p] = None => phase'[p] = "new"
  PROVE  Types'
<1>1. since' = since BY DEF Drain
<1> QED BY <1>1, DrainStream DEF IInv, Types, TypeOK, ListTypes

\* addServiceList takes the place of an entry of the same name that is dead.
LEMMA RegisterKeeps ==
  ASSUME IInv, Drain, PFWD_TYPE(Head(events).wdid) = REGISTER
  PROVE  IInv'
<1> USE DEF IInv
<1>a. addServiceList(Head(events).pid, Head(events).name)
  <2>1. processWDEvent(Head(events)) BY DEF Drain
  <2>2. /\ REGISTER # UNREGISTER /\ REGISTER \notin {START, ALIVE}
        /\ REGISTER # STOP /\ REGISTER # SUBREGISTER
        /\ REGISTER # SUBUNREGISTER /\ REGISTER # SUBALIVE
    BY DEF REGISTER, UNREGISTER, START, STOP, ALIVE,
           SUBREGISTER, SUBUNREGISTER, SUBALIVE
  <2> QED BY <2>1, <2>2, Zenon DEF processWDEvent
<1>b. PICK a \in Pid, r \in Name : a = Head(events).pid /\ r = Head(events).name
  BY DrainStream, CommandTypes
<1>0. /\ Reg(1, r, a) /\ Shifted /\ Packets' \subseteq Packets
      /\ addServiceList(a, r)
      /\ \E m \in Packets : m.pid = a
  BY <1>a, <1>b, DrainStream DEF Reg, Carries
<1>1. a \notin listed BY <1>0 DEF Order, RegOnce, Index
<1>2. ListTypes BY DEF ListTypes, Types, TypeOK
<1>3. CASE Addable(r)
  <2> DEFINE new == IF Valid(a, r) THEN {a} ELSE {}
  <2>1. Relist(WithName(r), new, r) /\ UNCHANGED pvars
    BY <1>0, <1>3 DEF addServiceList, Replaced
  <2>2. new \in SUBSET Pid BY <1>0
  <2>3. /\ ListTypes' /\ listed' = (listed \ WithName(r)) \cup new
        /\ \A p \in listed' \ new : p \in listed /\ nameOf'[p] = nameOf[p]
                                    /\ subs'[p] = subs[p]
                                    /\ (active'[p] => active[p])
        /\ \A p \in new : nameOf'[p] = r /\ subs'[p] = {} /\ ~active'[p]
    BY <1>0, <1>2, <2>1, <2>2, RelistFacts
  <2>4. new \subseteq {a} /\ (new = {a} => life[a] = r) BY DEF Valid
  <2> HIDE DEF new
  <2>5. life' = life /\ phase' = phase BY <2>1 DEF pvars
  <2>6. Types' BY <2>3, <2>5, DrainTypes DEF Types, TypeOK
  <2>7. Fewer /\ Alone' BY <2>5 DEF Fewer, Alone
  <2>8. WithName(r)' \subseteq {a} BY <2>3, <2>4 DEF WithName
  <2>9. Order'
    <3>1. listed' \subseteq listed \cup {a} BY <2>3, <2>4
    <3>2. \A p \in listed' \ {a} : nameOf'[p] = nameOf[p] BY <2>3, <2>4
    <3>3. a \in listed' => nameOf'[a] = r BY <1>1, <2>3
    <3> QED BY <1>0, <2>7, <2>8, <3>1, <3>2, <3>3, OrderRegistered
  <2>10. a \in new /\ phase[a] = "new" => FALSE
    BY <1>0, <2>4, CommandTypes DEF Fresh
  <2>11. Fresh' BY <1>0, <2>3, <2>4, <2>5, <2>10 DEF Fresh
  <2>12. StartSent' BY <1>0, <2>5 DEF StartSent
  <2>13. NamesListedOnce'
    BY <2>3, <2>4 DEF NamesListedOnce, WithName
  <2>14. ArmedByItself' BY <2>3, <2>5 DEF ArmedByItself
  <2>15. SubsOfTheirOwn' BY <2>3 DEF SubsOfTheirOwn
  <2> QED BY <2>6, <2>7, <2>9, <2>11, <2>12, <2>13, <2>14, <2>15
<1>4. CASE ~Addable(r)
  <2>1. /\ life' = [life EXCEPT ![a] = None] /\ phase' = [phase EXCEPT ![a] = "new"]
        /\ UNCHANGED lvars
    BY <1>0, <1>4 DEF addServiceList, Ends
  <2>2. PICK q \in listed : nameOf[q] = r /\ life[q] = r
    BY <1>4 DEF Addable, WithName, Valid
  <2>3. Types'
    BY <1>0, <1>2, <2>1, DrainTypes DEF ListTypes, lvars, Types, TypeOK
  <2>4. Shorter /\ Calmer BY <2>1 DEF Shorter, Calmer, lvars
  <2>5. Fewer BY <1>0, <2>1 DEF Fewer, Types, TypeOK
  <2>6. Alone' BY <2>1, AloneKept DEF Types, TypeOK
  <2>7. Order'
    BY <1>0, <2>1, <2>2, <2>5, OrderRegistered DEF lvars
  <2>8. Fresh' /\ StartSent' BY <1>0, <2>3, <2>4, <2>5, FreshKept
  <2>9. ArmedByItself' /\ SubsOfTheirOwn' /\ NamesListedOnce'
    BY <2>3, <2>4, <2>5, CalmKept, NamesKept
  <2> QED BY <2>3, <2>6, <2>7, <2>8, <2>9
<1> QED BY <1>3, <1>4

(* The other packets leave processes and names as they are, or drop entries. *)
LEMMA ListOnlyKeeps ==
  ASSUME IInv, Drain, PFWD_TYPE(Head(events).wdid) # REGISTER,
         UNCHANGED pvars, ListTypes', Shorter, ArmedByItself', SubsOfTheirOwn'
  PROVE  IInv'
<1> USE DEF IInv
<1>1. life' = life /\ phase' = phase BY DEF pvars
<1>2. Types' BY <1>1, DrainTypes DEF Types, TypeOK
<1>3. Fewer /\ Alone' BY <1>1 DEF Fewer, Alone
<1> QED BY <1>2, <1>3, DrainKeeps

LEMMA CalmDrainKeeps ==
  ASSUME IInv, Drain, PFWD_TYPE(Head(events).wdid) # REGISTER,
         UNCHANGED pvars, ListTypes', Shorter, Calmer
  PROVE  IInv'
<1> USE DEF IInv
<1>1. life' = life /\ phase' = phase BY DEF pvars
<1>2. Types' BY <1>1, DrainTypes DEF Types, TypeOK
<1>3. Fewer BY <1>1 DEF Fewer
<1> QED BY <1>2, <1>3, CalmKept, ListOnlyKeeps

LEMMA DroppedKeeps ==
  ASSUME IInv, Drain, PFWD_TYPE(Head(events).wdid) # REGISTER,
         UNCHANGED pvars, NEW gone, NEW n, Relist(gone, {}, n)
  PROVE  IInv'
<1>1. ListTypes BY DEF IInv, ListTypes, Types, TypeOK
<1>2. /\ ListTypes' /\ listed' = (listed \ gone) \cup {}
      /\ \A p \in listed' \ {} : p \in listed /\ nameOf'[p] = nameOf[p]
                                 /\ subs'[p] = subs[p] /\ (active'[p] => active[p])
  BY <1>1, RelistFacts
<1>3. Shorter /\ Calmer BY <1>2 DEF Shorter, Calmer
<1> QED BY <1>2, <1>3, CalmDrainKeeps

LEMMA CommandsDiffer ==
  REGISTER \notin {UNREGISTER, START, ALIVE, STOP, SUBREGISTER, SUBUNREGISTER, SUBALIVE}
BY DEF REGISTER, UNREGISTER, START, STOP, ALIVE, SUBREGISTER, SUBUNREGISTER, SUBALIVE

\* START, ALIVE and STOP reach the entry of their sender alone.
LEMMA StartStopKeeps ==
  ASSUME IInv, Drain, NEW on \in BOOLEAN, serviceStartStopWD(Head(events), on),
         on = TRUE => PFWD_TYPE(Head(events).wdid) \in {START, ALIVE},
         on = FALSE => PFWD_TYPE(Head(events).wdid) = STOP
  PROVE  IInv'
<1> USE DEF IInv
<1>0. PFWD_TYPE(Head(events).wdid) # REGISTER BY CommandsDiffer
<1>1. /\ UNCHANGED <<pvars, listed, nameOf, subs, subLeft>>
      /\ active' = [p \in Pid |-> IF p \in Addressed(Head(events)) THEN on ELSE active[p]]
      /\ left' = [p \in Pid |-> IF p \in Addressed(Head(events)) THEN Rearmed ELSE left[p]]
  BY DEF serviceStartStopWD
<1>2. Rearmed \in -1 .. Timeout + 1 BY CommandTypes DEF Rearmed
<1>3. ListTypes' BY <1>1, <1>2 DEF Types, TypeOK, ListTypes
<1>4. Shorter BY <1>1 DEF Shorter
<1>5. SubsOfTheirOwn' BY <1>1 DEF SubsOfTheirOwn
<1>6. ArmedByItself'
  <2>0. listed \subseteq Pid BY DEF Types, TypeOK
  <2> SUFFICES ASSUME NEW p \in listed, active'[p], life[p] # None
               PROVE  phase[p] = "started"
    BY <1>1 DEF ArmedByItself, pvars
  <2>1. CASE p \in Addressed(Head(events)) /\ on = TRUE
    <3>1. p = Head(events).pid BY <2>1 DEF Addressed
    <3> QED BY <2>1, <3>1, DrainStream DEF StartSent
  <2>2. CASE ~(p \in Addressed(Head(events)) /\ on = TRUE)
    BY <1>1, <2>0, <2>2 DEF ArmedByItself
  <2> QED BY <2>1, <2>2
<1> QED BY <1>0, <1>1, <1>3, <1>4, <1>5, <1>6, ListOnlyKeeps

\* addSubServiceList finds entries by name: that of the sender, or none.
LEMMA SubregisterKeeps ==
  ASSUME IInv, Drain, PFWD_TYPE(Head(events).wdid) = SUBREGISTER,
         addSubServiceList(Head(events))
  PROVE  IInv'
<1> USE DEF IInv
<1>0. PFWD_TYPE(Head(events).wdid) # REGISTER BY CommandsDiffer
<1>1. PICK a \in Pid, r \in Name : a = Head(events).pid /\ r = Head(events).name
  BY DrainStream, CommandTypes
<1>2. CASE \E p \in WithName(r) : ~Valid(p, r)
  <2>1. Relist(WithName(r), {}, r) /\ UNCHANGED pvars
    BY <1>1, <1>2 DEF addSubServiceList
  <2> QED BY <1>0, <2>1, DroppedKeeps
<1>3. CASE ~\E p \in WithName(r) : ~Valid(p, r)
  <2>1. /\ subs' = [p \in Pid |-> IF p \in WithName(r) THEN subs[p] \cup {a} ELSE subs[p]]
        /\ subLeft' = [subLeft EXCEPT ![a] = IF WithName(r) = {} THEN @ ELSE Timeout]
        /\ UNCHANGED <<pvars, listed, nameOf, active, left>>
    BY <1>1, <1>3 DEF addSubServiceList
  <2>2. ListTypes'
    <3>1. Timeout \in -1 .. Timeout + 1 BY CommandTypes
    <3>2. subLeft' \in [Pid -> -1 .. Timeout + 1] BY <2>1, <3>1 DEF Types, TypeOK
    <3>3. subs' \in [Pid -> SUBSET Pid] BY <2>1 DEF Types, TypeOK
    <3> QED BY <2>1, <3>2, <3>3 DEF Types, TypeOK, ListTypes
  <2>3. Shorter BY <2>1 DEF Shorter
  <2>4. ArmedByItself' BY <2>1 DEF ArmedByItself, pvars
  <2>5. r \notin Twice => WithName(r) \subseteq {a}
    <3>1. Sub(1, r, a) BY <1>1, DrainStream DEF Sub, Carries
    <3>2. 1 \in Index /\ \A j \in Index : ~(j < 1) BY DEF Index
    <3> QED BY <3>1, <3>2 DEF Order, SubListed
  <2>6. SubsOfTheirOwn'
    BY <2>1, <2>5 DEF SubsOfTheirOwn, WithName, Types, TypeOK
  <2> QED BY <1>0, <2>1, <2>2, <2>3, <2>4, <2>6, ListOnlyKeeps
<1> QED BY <1>2, <1>3

LEMMA SubunregisterKeeps ==
  ASSUME IInv, Drain, PFWD_TYPE(Head(events).wdid) = SUBUNREGISTER,
         removeSubServiceList(Head(events))
  PROVE  IInv'
<1> USE DEF IInv
<1>0. PFWD_TYPE(Head(events).wdid) # REGISTER BY CommandsDiffer
<1>1. PICK a \in Pid : a = Head(events).pid BY DrainStream, CommandTypes
<1>2. /\ subs' = [subs EXCEPT ![a] = @ \ {a}]
      /\ subLeft' = [q \in Pid |-> IF \E p \in Pid : q \in subs'[p] THEN subLeft[q] ELSE 0]
      /\ UNCHANGED <<pvars, listed, nameOf, active, left>>
  BY <1>1 DEF removeSubServiceList, Resub
<1>3. ListTypes'
  <2>1. 0 \in -1 .. Timeout + 1 BY CommandTypes
  <2>2. subLeft' \in [Pid -> -1 .. Timeout + 1] BY <1>2, <2>1 DEF Types, TypeOK
  <2>3. subs' \in [Pid -> SUBSET Pid] BY <1>2 DEF Types, TypeOK
  <2> QED BY <1>2, <2>2, <2>3 DEF Types, TypeOK, ListTypes
<1>4. Shorter /\ Calmer BY <1>2 DEF Shorter, Calmer, Types, TypeOK
<1> QED BY <1>0, <1>2, <1>3, <1>4, CalmDrainKeeps

LEMMA SubaliveKeeps ==
  ASSUME IInv, Drain, PFWD_TYPE(Head(events).wdid) = SUBALIVE,
         serviceSubAliveWD(Head(events))
  PROVE  IInv'
<1> USE DEF IInv
<1>0. PFWD_TYPE(Head(events).wdid) # REGISTER BY CommandsDiffer
<1>1. UNCHANGED <<pvars, listed, nameOf, active, left, subs>>
  BY DEF serviceSubAliveWD
<1>2. ListTypes'
  <2>1. Rearmed \in -1 .. Timeout + 1 BY CommandTypes DEF Rearmed
  <2>2. subLeft' \in [Pid -> -1 .. Timeout + 1]
    BY <2>1 DEF serviceSubAliveWD, Types, TypeOK
  <2> QED BY <1>1, <2>2 DEF Types, TypeOK, ListTypes
<1>3. Shorter /\ Calmer BY <1>1 DEF Shorter, Calmer
<1> QED BY <1>0, <1>1, <1>2, <1>3, CalmDrainKeeps

LEMMA DrainStep == ASSUME IInv, Drain PROVE IInv'
<1> DEFINE m == Head(events)
           cmd == PFWD_TYPE(m.wdid)
<1>1. processWDEvent(m) BY DEF Drain
<1>2. \/ cmd = REGISTER
      \/ cmd # REGISTER /\ Relist(Addressed(m), {}, m.name) /\ UNCHANGED pvars
      \/ cmd \in {START, ALIVE} /\ serviceStartStopWD(m, TRUE)
      \/ cmd = STOP /\ serviceStartStopWD(m, FALSE)
      \/ cmd = SUBREGISTER /\ addSubServiceList(m)
      \/ cmd = SUBUNREGISTER /\ removeSubServiceList(m)
      \/ cmd = SUBALIVE /\ serviceSubAliveWD(m)
  BY <1>1, CommandsDiffer, Zenon DEF processWDEvent
<1>3. CASE cmd = REGISTER BY <1>3, RegisterKeeps
<1>4. CASE cmd # REGISTER /\ Relist(Addressed(m), {}, m.name) /\ UNCHANGED pvars
  BY <1>4, DroppedKeeps
<1>5. CASE cmd \in {START, ALIVE} /\ serviceStartStopWD(m, TRUE)
  BY <1>5, StartStopKeeps
<1>6. CASE cmd = STOP /\ serviceStartStopWD(m, FALSE)
  BY <1>6, StartStopKeeps
<1>7. CASE cmd = SUBREGISTER /\ addSubServiceList(m) BY <1>7, SubregisterKeeps
<1>8. CASE cmd = SUBUNREGISTER /\ removeSubServiceList(m)
  BY <1>8, SubunregisterKeeps
<1>9. CASE cmd = SUBALIVE /\ serviceSubAliveWD(m) BY <1>9, SubaliveKeeps
<1> QED BY <1>2, <1>3, <1>4, <1>5, <1>6, <1>7, <1>8, <1>9

LEMMA InitIInv == ASSUME Init PROVE IInv
<1> USE DEF Init
<1>1. Types
  <2>1. TypeOK BY CommandTypes DEF TypeOK
  <2>2. << >> \in Seq(Packet) OBVIOUS
  <2> QED BY <2>1, <2>2 DEF Types
<1>2. Fresh /\ Alone BY CommandTypes DEF Fresh, Alone
<1>3. StartSent BY DEF StartSent, Packets
<1>4. Sent = 0 BY DEF Sent
<1>5. \A i \in Index : \A n, p : ~Reg(i, n, p) /\ ~Sub(i, n, p)
  BY <1>4 DEF Reg, Sub, Carries, Index
<1>6. Order
  BY <1>5 DEF Order, RegOnce, MemberLast, MemberListed, SubLast, SubListed,
              Member, WithName
<1>7. NamesListedOnce /\ ArmedByItself /\ SubsOfTheirOwn
  BY DEF NamesListedOnce, ArmedByItself, SubsOfTheirOwn
<1> QED BY <1>1, <1>2, <1>3, <1>6, <1>7 DEF IInv

\* The strengthening of the invariants below is inductive.
THEOREM Inductive == Spec => []IInv
<1>1. Init => IInv BY InitIInv
<1>2. ASSUME IInv, [Next]_vars PROVE IInv'
  <2>1. CASE \E n \in Name : Start(n) BY <1>2, <2>1, StartKeeps
  <2>2. CASE \E p \in Pid : Crash(p) \/ \E cmd \in Commands : Send(p, cmd)
    BY <1>2, <2>2, CrashKeeps, SendKeeps
  <2>3. CASE eventWDHandler BY <1>2, <2>3, HandlerKeeps
  <2>4. CASE Drain BY <1>2, <2>4, DrainStep
  <2>5. CASE Update BY <1>2, <2>5, UpdateKeeps
  <2>6. CASE Drained \/ Tick \/ UNCHANGED vars BY <1>2, <2>6, QuietKeeps
  <2> QED BY <1>2, <2>1, <2>2, <2>3, <2>4, <2>5, <2>6 DEF Next
<1> QED BY <1>1, <1>2, PTL DEF Spec

\* The types; an entry of the list has a name, and counts stay in their range.
THEOREM TypeCorrect == Spec => []TypeOK
<1>1. IInv => TypeOK BY DEF IInv, Types
<1> QED BY <1>1, Inductive, PTL

\* addServiceList replaces and never doubles the entry of a program, however
\* often it is started, killed and restarted.
THEOREM OneEntry == Spec => []NamesListedOnce
<1>1. IInv => NamesListedOnce BY DEF IInv
<1> QED BY <1>1, Inductive, PTL

\* serviceStartStopWD arms the timer of the process that asked for it, however
\* late its packet is handled.
THEOREM ArmedByOwner == Spec => []ArmedByItself
<1>1. IInv => ArmedByItself BY DEF IInv
<1> QED BY <1>1, Inductive, PTL

\* addSubServiceList, which searches by name, gives no process the sub-service
\* of another one, as long as the program is not started twice.
THEOREM SubsKept == Spec => []SubsOfTheirOwn
<1>1. IInv => SubsOfTheirOwn BY DEF IInv
<1> QED BY <1>1, Inductive, PTL
=============================================================================
