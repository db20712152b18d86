---------------------------- MODULE Events_proofs ----------------------------
(***************************************************************************)
(* Proofs about Events, for any capacity of the channel, any number of     *)
(* Status requests at a time and any bounds.                               *)
(***************************************************************************)
EXTENDS Events, TLAPS

USE EventsAssumption DEF EventsAssumption

UiEvents == [k : {"sync", "degraded", "answer"}, v : Nat]

(* What is published belongs to the present subscription, and a dead       *)
(* helper has none.                                                        *)
Linked ==
  /\ link \in {"asked", "live"} => up
  /\ link # "live" => noted = 0
  /\ loop \in {"dial", "sleep"} => link = "none"
  /\ noted <= now /\ told \in Nat

(* A queue in which each d is followed by an r, or is by what is to come.  *)
Covered(s, d, r, more) ==
  \A i \in 1 .. Len(s) : s[i] = d =>
    more \/ \E j \in 1 .. Len(s) : j > i /\ s[j] = r

Lost == link \in {"broken", "ended"} \/ loop # "select"
AfterWire == "status" \in ToSet(rx) \/ Lost
AfterEvq == "status" \in ToSet(wire) \/ AfterWire

(* The stages an event goes through, from the receiver to the main loop.   *)
Chain ==
  /\ Covered(rx, "degraded", "status", FALSE)
  /\ Covered(wire, "degraded", "status", AfterWire)
  /\ Covered(evq, "degraded", "status", AfterEvq)
  /\ Covered(ui, Mapped("degraded"), Sync, MoreComes)

(* A connection being made has brought nothing yet.                        *)
Clear ==
  /\ link # "live" => rx = <<>>
  /\ link \in {"dialing", "asked"} => wire = <<>> /\ evq = <<>>

IInv == TypeOK /\ Linked /\ Clear /\ PublishedIsRefreshed /\ Chain

-----------------------------------------------------------------------------
(* Queues.                                                                 *)

LEMMA Capacity == CAP \in Nat /\ 0 <= CAP
OBVIOUS

LEMMA OneOrTwo ==
  ASSUME NEW n, n = 1 \/ n = 2
  PROVE  n \in Nat /\ n > 0
OBVIOUS

LEMMA Members ==
  ASSUME NEW S, NEW s \in Seq(S), NEW x
  PROVE  x \in ToSet(s) <=> \E i \in 1 .. Len(s) : s[i] = x
BY DEF ToSet

LEMMA AppendMembers ==
  ASSUME NEW S, NEW s \in Seq(S), NEW e \in S
  PROVE  /\ Append(s, e) \in Seq(S)
         /\ \A x : x \in ToSet(s) => x \in ToSet(Append(s, e))
         /\ e \in ToSet(Append(s, e))
<1>1. Append(s, e) \in Seq(S)
  OBVIOUS
<1>2. ASSUME NEW x, x \in ToSet(s) PROVE x \in ToSet(Append(s, e))
  <2>1. PICK i \in 1 .. Len(s) : s[i] = x
    BY <1>2, Members
  <2>2. i \in 1 .. Len(Append(s, e)) /\ Append(s, e)[i] = x
    BY <2>1
  <2>3. QED
    BY <1>1, <2>2, Members
<1>3. e \in ToSet(Append(s, e))
  <2>1. Len(s) + 1 \in 1 .. Len(Append(s, e)) /\ Append(s, e)[Len(s) + 1] = e
    OBVIOUS
  <2>2. QED
    BY <1>1, <2>1, Members
<1>4. QED
  BY <1>1, <1>2, <1>3

LEMMA TailMembers ==
  ASSUME NEW S, NEW s \in Seq(S), s # <<>>
  PROVE  /\ Tail(s) \in Seq(S) /\ Head(s) \in S
         /\ \A x : x \in ToSet(s) => x = Head(s) \/ x \in ToSet(Tail(s))
<1>1. Tail(s) \in Seq(S) /\ Head(s) \in S
  OBVIOUS
<1>2. ASSUME NEW x, x \in ToSet(s), x # Head(s) PROVE x \in ToSet(Tail(s))
  <2>1. PICK i \in 1 .. Len(s) : s[i] = x
    BY <1>2, Members
  <2>2. i # 1
    BY <1>2, <2>1
  <2>3. i - 1 \in 1 .. Len(Tail(s)) /\ Tail(s)[i - 1] = x
    BY <2>1, <2>2
  <2>4. QED
    BY <1>1, <2>3, Members
<1>3. QED
  BY <1>1, <1>2

(* The event at the end answers for all before it.                         *)
LEMMA CoveredByLast ==
  ASSUME NEW S, NEW s \in Seq(S), NEW r \in S, NEW d, d # r
  PROVE  Covered(Append(s, r), d, r, FALSE)
<1>1. /\ Len(Append(s, r)) = Len(s) + 1 /\ Len(s) \in Nat
      /\ Append(s, r)[Len(s) + 1] = r
  OBVIOUS
<1>2. SUFFICES ASSUME NEW i \in 1 .. Len(s) + 1, Append(s, r)[i] = d
               PROVE  \E j \in 1 .. Len(s) + 1 :
                        j > i /\ Append(s, r)[j] = r
  BY <1>1 DEF Covered
<1>3. i # Len(s) + 1
  BY <1>1, <1>2
<1>4. Len(s) + 1 > i /\ Len(s) + 1 \in 1 .. Len(s) + 1
  BY <1>1, <1>3
<1>5. QED
  BY <1>1, <1>4

(* Another event at the end changes nothing, if it is covered itself.      *)
LEMMA CoveredAppend ==
  ASSUME NEW S, NEW s \in Seq(S), NEW e \in S, NEW d, NEW r,
         NEW P \in BOOLEAN, NEW Q \in BOOLEAN,
         Covered(s, d, r, P), P => Q, e = d => Q
  PROVE  Covered(Append(s, e), d, r, Q)
<1>1. /\ Len(Append(s, e)) = Len(s) + 1 /\ Len(s) \in Nat
      /\ Append(s, e)[Len(s) + 1] = e
      /\ \A k \in 1 .. Len(s) : Append(s, e)[k] = s[k]
  OBVIOUS
<1>2. SUFFICES ASSUME NEW i \in 1 .. Len(s) + 1, Append(s, e)[i] = d, ~Q
               PROVE  \E j \in 1 .. Len(s) + 1 :
                        j > i /\ Append(s, e)[j] = r
  BY <1>1 DEF Covered
<1>3. i # Len(s) + 1
  BY <1>1, <1>2
<1>4. i \in 1 .. Len(s) /\ s[i] = d
  BY <1>1, <1>2, <1>3
<1>5. PICK j \in 1 .. Len(s) : j > i /\ s[j] = r
  BY <1>2, <1>4 DEF Covered
<1>6. j \in 1 .. Len(s) + 1 /\ Append(s, e)[j] = r
  BY <1>1, <1>5
<1>7. QED
  BY <1>5, <1>6

(* The event at the front leaves: the others keep what is behind them, and *)
(* so does it.                                                             *)
LEMMA CoveredTail ==
  ASSUME NEW S, NEW s \in Seq(S), s # <<>>, NEW d, NEW r,
         NEW P \in BOOLEAN, Covered(s, d, r, P)
  PROVE  /\ Covered(Tail(s), d, r, P)
         /\ Head(s) = d => P \/ r \in ToSet(Tail(s))
<1>1. /\ Tail(s) \in Seq(S) /\ Len(Tail(s)) = Len(s) - 1 /\ Len(s) \in Nat
      /\ Len(s) > 0 /\ Head(s) = s[1]
      /\ \A k \in 1 .. Len(s) - 1 : Tail(s)[k] = s[k + 1]
  OBVIOUS
<1>2. Covered(Tail(s), d, r, P)
  <2>1. SUFFICES ASSUME NEW i \in 1 .. Len(s) - 1, Tail(s)[i] = d, ~P
                 PROVE  \E j \in 1 .. Len(s) - 1 : j > i /\ Tail(s)[j] = r
    BY <1>1 DEF Covered
  <2>2. i + 1 \in 1 .. Len(s) /\ s[i + 1] = d
    BY <1>1, <2>1
  <2>3. PICK j \in 1 .. Len(s) : j > i + 1 /\ s[j] = r
    BY <2>1, <2>2 DEF Covered
  <2>4. PICK k \in 1 .. Len(s) - 1 : k = j - 1
    BY <1>1, <2>3
  <2>5. k > i /\ Tail(s)[k] = r
    BY <1>1, <2>3, <2>4
  <2>6. QED
    BY <2>5
<1>3. ASSUME Head(s) = d, ~P PROVE r \in ToSet(Tail(s))
  <2>1. 1 \in 1 .. Len(s) /\ s[1] = d
    BY <1>1, <1>3
  <2>2. PICK j \in 1 .. Len(s) : j > 1 /\ s[j] = r
    BY <1>3, <2>1 DEF Covered
  <2>3. PICK k \in 1 .. Len(s) - 1 : k = j - 1
    BY <1>1, <2>2
  <2>4. k \in 1 .. Len(Tail(s)) /\ Tail(s)[k] = r
    BY <1>1, <2>2, <2>3
  <2>5. QED
    BY <1>1, <2>4, Members
<1>4. QED
  BY <1>2, <1>3

(* What is published ends by a status: it stays when the oldest go, and    *)
(* with it what it answers.                                                *)
LEMMA LastIsRetained ==
  ASSUME NEW t \in Seq(Events), Len(t) > 0, t[Len(t)] = "status"
  PROVE  /\ Retained(t) \in Seq(Events)
         /\ Len(Retained(t)) <= CAP /\ Len(Retained(t)) > 0
         /\ Retained(t)[Len(Retained(t))] = "status"
<1>1. CASE Len(t) > CAP
  <2>0. Len(t) \in Nat /\ CAP \in Nat /\ CAP > 0
    OBVIOUS
  <2>1. PICK n \in Nat : n = Len(t) - CAP + 1
    <3>1. Len(t) - CAP + 1 \in Nat
      BY <1>1, <2>0
    <3>2. QED
      BY <3>1
  <2>2. n \in 1 .. Len(t) /\ Retained(t) = SubSeq(t, n, Len(t))
    BY <1>1, <2>1 DEF Retained
  <2>3. /\ SubSeq(t, n, Len(t)) \in Seq(Events)
        /\ Len(SubSeq(t, n, Len(t))) = Len(t) - n + 1
    BY <2>2
  <2>4. Len(t) - n + 1 = CAP
    BY <2>1
  <2>5. SubSeq(t, n, Len(t))[CAP] = t[n + CAP - 1]
    BY <2>2, <2>3, <2>4
  <2>6. QED
    BY <2>1, <2>2, <2>3, <2>4, <2>5
<1>2. CASE ~(Len(t) > CAP)
  BY <1>2 DEF Retained
<1>3. QED
  BY <1>1, <1>2

LEMMA StatusLast ==
  ASSUME NEW r \in Seq(Events), Len(r) > 0, r[Len(r)] = "status"
  PROVE  /\ Covered(r, "degraded", "status", FALSE)
         /\ "status" \in ToSet(r)
<1>1. Len(r) \in 1 .. Len(r) /\ DOMAIN r = 1 .. Len(r)
  OBVIOUS
<1>2. "status" \in ToSet(r)
  BY <1>1, Members
<1>3. SUFFICES ASSUME NEW i \in 1 .. Len(r), r[i] = "degraded"
               PROVE  \E j \in 1 .. Len(r) : j > i /\ r[j] = "status"
  BY <1>1, <1>2 DEF Covered
<1>4. Len(r) > i
  BY <1>3
<1>5. QED
  BY <1>1, <1>4

LEMMA Publishing ==
  ASSUME NEW s \in Seq(Events),
         NEW evs \in {<<"status">>, <<"degraded", "status">>}
  PROVE  /\ Retained(s \o evs) \in Seq(Events)
         /\ Len(Retained(s \o evs)) <= CAP
         /\ Covered(Retained(s \o evs), "degraded", "status", FALSE)
         /\ "status" \in ToSet(Retained(s \o evs))
<1>1. /\ evs \in Seq(Events) /\ Len(evs) \in {1, 2}
      /\ evs[Len(evs)] = "status"
  <2>1. CASE evs = <<"status">>
    BY <2>1 DEF Events
  <2>2. CASE evs = <<"degraded", "status">>
    BY <2>2 DEF Events
  <2>3. QED
    BY <2>1, <2>2
<1>2. s \o evs \in Seq(Events) /\ Len(s \o evs) = Len(s) + Len(evs)
  BY <1>1
<1>3. Len(s) \in Nat /\ Len(evs) \in Nat /\ Len(evs) > 0
  <2>1. Len(s) \in Nat
    OBVIOUS
  <2>2. Len(evs) = 1 \/ Len(evs) = 2
    BY <1>1
  <2>3. QED
    BY <2>1, <2>2, OneOrTwo
<1>4. (s \o evs)[Len(s) + Len(evs)] = evs[Len(evs)]
  BY <1>1, <1>2, <1>3
<1>5. Len(s \o evs) > 0 /\ (s \o evs)[Len(s \o evs)] = "status"
  BY <1>1, <1>2, <1>3, <1>4
<1>6. QED
  BY <1>2, <1>5, LastIsRetained, StatusLast

-----------------------------------------------------------------------------
(* The chain of queues.                                                    *)

LEMMA Booleans ==
  /\ AfterWire \in BOOLEAN /\ AfterEvq \in BOOLEAN /\ MoreComes \in BOOLEAN
  /\ MoreComes <=> "status" \in ToSet(evq) \/ AfterEvq
BY DEF AfterWire, AfterEvq, MoreComes, Lost

LEMMA Notices ==
  /\ Sync \in UiEvents /\ Mapped("degraded") \in UiEvents
  /\ Mapped("degraded") # Sync /\ Mapped("status") = Sync
  /\ \A n : Status(n) # Mapped("degraded")
<1>1. Mapped("degraded").k = "degraded" /\ Sync.k = "sync"
  BY DEF Mapped, Sync
<1>2. \A n : Status(n).k = "answer"
  BY DEF Status
<1>3. Sync \in UiEvents /\ Mapped("degraded") \in UiEvents
  BY DEF Mapped, Sync, UiEvents
<1>4. Mapped("status") = Sync
  BY DEF Mapped, Sync
<1>5. QED
  BY <1>1, <1>2, <1>3, <1>4

(* What is to come may only become more.                                   *)
LEMMA ChainKept ==
  ASSUME Chain, rx' = rx, wire' = wire, evq' = evq, ui' = ui, Lost => Lost'
  PROVE  Chain'
<1>1. AfterWire => AfterWire'
  BY DEF AfterWire
<1>2. AfterEvq => AfterEvq'
  BY <1>1 DEF AfterEvq
<1>3. MoreComes => MoreComes'
  BY <1>2, Booleans DEF MoreComes, AfterEvq, AfterWire, Lost
<1>4. QED
  BY <1>1, <1>2, <1>3 DEF Chain, Covered

(* A connection that is lost makes up for everything.                      *)
LEMMA ChainLost ==
  ASSUME Lost', rx' = <<>> PROVE Chain'
<1>1. AfterWire' /\ AfterEvq' /\ MoreComes'
  BY DEF AfterWire, AfterEvq, MoreComes, Lost
<1>2. QED
  BY <1>1 DEF Chain, Covered

(* The main loop takes the first event of its queue.                       *)
LEMMA ChainTaken ==
  ASSUME Chain, ui \in Seq(UiEvents), ui # <<>>, ui' = Tail(ui),
         rx' = rx, wire' = wire, evq' = evq, link' = link, loop' = loop
  PROVE  Chain'
<1>1. (AfterWire <=> AfterWire') /\ (AfterEvq <=> AfterEvq')
  BY DEF AfterWire, AfterEvq, Lost
<1>2. MoreComes <=> MoreComes'
  BY DEF MoreComes
<1>3. Covered(ui', Mapped("degraded"), Sync, MoreComes)
  BY CoveredTail, Booleans DEF Chain
<1>4. QED
  BY <1>1, <1>2, <1>3 DEF Chain, Covered, Mapped, Sync

-----------------------------------------------------------------------------
(* The initial states.                                                     *)

LEMMA InitIInv == Init => IInv
<1> SUFFICES ASSUME Init PROVE IInv
  OBVIOUS
<1> USE DEF Init
<1>1. TypeOK
  <2>1. <<Sync>> \in Seq(UiEvents)
    BY DEF Sync, UiEvents
  <2>2. fetch \in [FETCHES -> [at : {"idle", "asked", "answered"}, v : Nat]]
    BY DEF Idle
  <2>3. QED
    BY <2>1, <2>2 DEF TypeOK, LinkStates, UiEvents
<1>2. Linked /\ Clear /\ PublishedIsRefreshed
  BY DEF Linked, Clear, PublishedIsRefreshed
<1>3. Chain
  BY DEF Chain, Covered, MoreComes
<1>4. QED
  BY <1>1, <1>2, <1>3 DEF IInv

-----------------------------------------------------------------------------
(* The helper.                                                             *)

LEMMA ChangeStep ==
  ASSUME IInv, Change PROVE IInv'
<1> USE DEF IInv, Change, client
<1>1. /\ rx' \in Seq(Events) /\ Len(rx') <= CAP 
      /\ Covered(rx', "degraded", "status", FALSE)
      /\ noted' = noted \/ noted' = now'
      /\ link = "live" => "status" \in ToSet(rx')
      /\ link # "live" => noted' = noted
  <2>1. CASE link = "live"
    BY <2>1, Publishing DEF Publish, TypeOK
  <2>2. CASE link # "live"
    BY <2>2 DEF Publish, TypeOK, Chain
  <2>3. QED
    BY <2>1, <2>2
<1>2. TypeOK'
  BY <1>1 DEF TypeOK, Linked
<1>3. Linked'
  BY <1>1 DEF Linked, TypeOK
<1>4. PublishedIsRefreshed'
  <2>1. CASE link = "live"
    BY <1>1, <2>1 DEF PublishedIsRefreshed, RefreshComing
  <2>2. CASE link # "live"
    BY <1>1, <2>2 DEF PublishedIsRefreshed, Linked
  <2>3. QED
    BY <2>1, <2>2
<1>5. Clear'
  BY DEF Clear, Publish
<1>6. Chain'
  <2>1. CASE link = "live"
    <3>1. AfterWire' /\ AfterEvq' /\ MoreComes'
      BY <1>1, <2>1 DEF AfterWire, AfterEvq, MoreComes
    <3>2. QED
      BY <1>1, <3>1 DEF Chain, Covered
  <2>2. CASE link # "live"
    <3>1. rx' = rx
      BY <2>2 DEF Publish
    <3>2. QED
      BY <3>1, ChainKept DEF Lost
  <2>3. QED
    BY <2>1, <2>2
<1>7. QED
  BY <1>2, <1>3, <1>4, <1>5, <1>6

LEMMA FailOpenStep ==
  ASSUME IInv, FailOpen PROVE IInv'
<1> USE DEF IInv, FailOpen, client
<1>1. /\ rx' \in Seq(Events) /\ Len(rx') <= CAP 
      /\ Covered(rx', "degraded", "status", FALSE)
      /\ noted' = noted \/ noted' = now'
      /\ link = "live" => "status" \in ToSet(rx')
      /\ link # "live" => noted' = noted
  <2>1. CASE link = "live"
    BY <2>1, Publishing DEF Publish, TypeOK
  <2>2. CASE link # "live"
    BY <2>2 DEF Publish, TypeOK, Chain
  <2>3. QED
    BY <2>1, <2>2
<1>2. TypeOK'
  BY <1>1 DEF TypeOK, Linked
<1>3. Linked'
  BY <1>1 DEF Linked, TypeOK
<1>4. PublishedIsRefreshed'
  <2>1. CASE link = "live"
    BY <1>1, <2>1 DEF PublishedIsRefreshed, RefreshComing
  <2>2. CASE link # "live"
    BY <1>1, <2>2 DEF PublishedIsRefreshed, Linked
  <2>3. QED
    BY <2>1, <2>2
<1>5. Clear'
  BY DEF Clear, Publish
<1>6. Chain'
  <2>1. CASE link = "live"
    <3>1. AfterWire' /\ AfterEvq' /\ MoreComes'
      BY <1>1, <2>1 DEF AfterWire, AfterEvq, MoreComes
    <3>2. QED
      BY <1>1, <3>1 DEF Chain, Covered
  <2>2. CASE link # "live"
    <3>1. rx' = rx
      BY <2>2 DEF Publish
    <3>2. QED
      BY <3>1, ChainKept DEF Lost
  <2>3. QED
    BY <2>1, <2>2
<1>7. QED
  BY <1>2, <1>3, <1>4, <1>5, <1>6

LEMMA DieStep ==
  ASSUME IInv, Die PROVE IInv'
<1> USE DEF IInv, Die, client
<1>1. TypeOK'
  <2>1. <<>> \in Seq(Events) /\ Len(<<>>) = 0
    OBVIOUS
  <2>2. restarts' \in 0 .. MAX_RESTARTS
    BY DEF TypeOK
  <2>3. link' \in LinkStates
    BY DEF TypeOK, LinkStates
  <2>4. now' \in Nat /\ noted' = 0 /\ up' \in BOOLEAN /\ 0 <= CAP
    <3>1. now \in Nat
      BY DEF TypeOK
    <3>2. now' \in Nat
      BY <3>1
    <3>3. noted' = 0 /\ up' \in BOOLEAN
      OBVIOUS
    <3>4. QED
      BY <3>2, <3>3, Capacity
  <2>5. QED
    BY <2>1, <2>2, <2>3, <2>4 DEF TypeOK
<1>2. Linked'
  BY DEF Linked, TypeOK, LinkStates
<1>3. PublishedIsRefreshed'
  BY DEF PublishedIsRefreshed, RefreshComing, Linked, TypeOK
<1>4. Clear'
  BY DEF Clear, TypeOK, LinkStates
<1>5. Chain'
  <2>1. CASE link \in {"asked", "live"}
    BY <2>1, ChainLost DEF Lost
  <2>2. CASE link \notin {"asked", "live"}
    BY <2>2, ChainKept DEF Clear, Lost
  <2>3. QED
    BY <2>1, <2>2
<1>6. QED
  BY <1>1, <1>2, <1>3, <1>4, <1>5

LEMMA BootStep ==
  ASSUME IInv, Boot PROVE IInv'
<1> USE DEF IInv, Boot, client
<1>1. TypeOK'
  BY DEF TypeOK, LinkStates
<1>2. Linked'
  BY DEF Linked, TypeOK, LinkStates
<1>3. PublishedIsRefreshed'
  BY DEF PublishedIsRefreshed, RefreshComing, Linked, TypeOK
<1>4. Clear'
  BY DEF Clear
<1>5. Chain'
  BY ChainKept DEF Lost
<1>6. QED
  BY <1>1, <1>2, <1>3, <1>4, <1>5

LEMMA RegisterStep ==
  ASSUME IInv, Register PROVE IInv'
<1> USE DEF IInv, Register, client, helper
<1>1. TypeOK'
  BY DEF TypeOK, LinkStates
<1>2. Linked'
  BY DEF Linked, TypeOK, LinkStates
<1>3. PublishedIsRefreshed'
  BY DEF PublishedIsRefreshed, Linked, TypeOK
<1>4. Clear'
  BY DEF Clear, TypeOK, LinkStates
<1>5. Chain'
  BY ChainKept DEF Clear, Lost
<1>6. QED
  BY <1>1, <1>2, <1>3, <1>4, <1>5

LEMMA PushStep ==
  ASSUME IInv, Push PROVE IInv'
<1> USE DEF IInv, Push, helper, client
<1>1. /\ rx \in Seq(Events) /\ wire \in Seq(Events)
      /\ Tail(rx) \in Seq(Events) /\ Head(rx) \in Events
      /\ Append(wire, Head(rx)) \in Seq(Events)
  BY TailMembers, AppendMembers DEF TypeOK
<1>2. TypeOK'
  <2>1. Len(Tail(rx)) <= CAP
    <3>1. Len(Tail(rx)) = Len(rx) - 1 /\ Len(rx) \in Nat
      BY <1>1
    <3>2. QED
      BY <3>1 DEF TypeOK
  <2>2. QED
    BY <1>1, <2>1 DEF TypeOK
<1>3. Linked'
  BY DEF Linked
<1>4. PublishedIsRefreshed'
  <2>1. "status" \in ToSet(rx) => "status" \in ToSet(rx') \union ToSet(wire')
    BY <1>1, TailMembers, AppendMembers
  <2>2. "status" \in ToSet(wire) => "status" \in ToSet(wire')
    BY <1>1, AppendMembers
  <2>3. RefreshComing => RefreshComing'
    BY <2>1, <2>2 DEF RefreshComing
  <2>4. QED
    BY <2>3 DEF PublishedIsRefreshed
<1>5. Clear'
  BY DEF Clear, TypeOK, LinkStates
<1>6. Chain'
  <2>1. Covered(rx', "degraded", "status", FALSE)
    BY <1>1, CoveredTail DEF Chain
  <2>2. CASE Head(rx) = "status"
    <3>1. Covered(wire', "degraded", "status", FALSE)
      BY <1>1, <2>2, CoveredByLast
    <3>2. "status" \in ToSet(wire')
      BY <1>1, <2>2, AppendMembers
    <3>3. AfterEvq' /\ MoreComes'
      BY <3>2 DEF AfterEvq, MoreComes
    <3>4. QED
      BY <2>1, <3>1, <3>3 DEF Chain, Covered
  <2>3. CASE Head(rx) = "degraded"
    <3>1. "status" \in ToSet(rx')
      BY <1>1, <2>3, CoveredTail DEF Chain
    <3>2. AfterWire' /\ AfterEvq' /\ MoreComes'
      BY <3>1 DEF AfterWire, AfterEvq, MoreComes
    <3>3. QED
      BY <2>1, <3>2 DEF Chain, Covered
  <2>4. QED
    BY <1>1, <2>2, <2>3 DEF Events
<1>7. QED
  BY <1>2, <1>3, <1>4, <1>5, <1>6

-----------------------------------------------------------------------------
(* The subscription.                                                       *)

LEMMA DialStep ==
  ASSUME IInv, Dial PROVE IInv'
<1> USE DEF IInv, Dial, helper, client
<1>1. TypeOK'
  <2>1. ui' \in Seq(UiEvents)
    BY AppendMembers DEF TypeOK, Sync, UiEvents
  <2>2. QED
    BY <2>1 DEF TypeOK, LinkStates, UiEvents
<1>2. Linked'
  BY DEF Linked, TypeOK, LinkStates
<1>3. PublishedIsRefreshed'
  BY DEF PublishedIsRefreshed, Linked, TypeOK
<1>4. Clear'
  BY DEF Clear, Linked
<1>5. Chain'
  <2>1. rx' = <<>>
    BY DEF Clear, Linked
  <2>2. Covered(ui', Mapped("degraded"), Sync, FALSE)
    <3>1. ui \in Seq(UiEvents)
      BY DEF TypeOK, UiEvents
    <3>2. QED
      BY <3>1, CoveredByLast, Notices
  <2>3. QED
    <3>1. wire' = <<>> /\ evq' = <<>>
      OBVIOUS
    <3>2. QED
      BY <2>1, <2>2, <3>1 DEF Chain, Covered, Mapped, Sync
<1>6. QED
  BY <1>1, <1>2, <1>3, <1>4, <1>5

LEMMA ConnectStep ==
  ASSUME IInv, Connect PROVE IInv'
<1> USE DEF IInv, Connect, helper, client
<1>1. TypeOK'
  BY DEF TypeOK, LinkStates
<1>2. Linked'
  BY DEF Linked, TypeOK, LinkStates
<1>3. PublishedIsRefreshed'
  BY DEF PublishedIsRefreshed, Linked, TypeOK
<1>4. Clear'
  BY DEF Clear, TypeOK, LinkStates
<1>5. Chain'
  BY ChainKept DEF Lost
<1>6. QED
  BY <1>1, <1>2, <1>3, <1>4, <1>5

LEMMA ReceiveStep ==
  ASSUME IInv, Receive PROVE IInv'
<1> USE DEF IInv, Receive, helper
<1>1. /\ wire \in Seq(Events) /\ evq \in Seq(Events)
      /\ Tail(wire) \in Seq(Events) /\ Head(wire) \in Events
      /\ Append(evq, Head(wire)) \in Seq(Events)
  BY TailMembers, AppendMembers DEF TypeOK
<1>2. TypeOK'
  BY <1>1 DEF TypeOK
<1>3. Linked'
  BY DEF Linked
<1>4. PublishedIsRefreshed'
  <2>1. "status" \in ToSet(wire) =>
          "status" \in ToSet(wire') \union ToSet(evq')
    BY <1>1, TailMembers, AppendMembers
  <2>2. "status" \in ToSet(evq) => "status" \in ToSet(evq')
    BY <1>1, AppendMembers
  <2>3. RefreshComing => RefreshComing'
    BY <2>1, <2>2 DEF RefreshComing
  <2>4. QED
    BY <2>3 DEF PublishedIsRefreshed
<1>5. Clear'
  BY DEF Clear, TypeOK, LinkStates
<1>6. Chain'
  <2>1. (AfterWire <=> AfterWire') /\ (Lost <=> Lost')
    BY DEF AfterWire, Lost
  <2>2. Covered(wire', "degraded", "status", AfterWire')
    <3>1. Covered(wire', "degraded", "status", AfterWire)
      BY <1>1, CoveredTail, Booleans DEF Chain
    <3>2. QED
      BY <2>1, <3>1 DEF Covered
  <2>3. CASE Head(wire) = "status"
    <3>1. Covered(evq', "degraded", "status", FALSE)
      BY <1>1, <2>3, CoveredByLast
    <3>2. "status" \in ToSet(evq')
      BY <1>1, <2>3, AppendMembers
    <3>3. MoreComes'
      BY <3>2 DEF MoreComes
    <3>4. Covered(rx', "degraded", "status", FALSE)
      BY DEF Chain
    <3>5. QED
      BY <2>2, <3>1, <3>3, <3>4 DEF Chain, Covered
  <2>4. CASE Head(wire) = "degraded"
    <3>1. "status" \in ToSet(wire') \/ AfterWire
      BY <1>1, <2>4, CoveredTail, Booleans DEF Chain
    <3>2. AfterEvq' /\ MoreComes'
      BY <2>1, <3>1 DEF AfterEvq, AfterWire, MoreComes, Lost
    <3>3. Covered(rx', "degraded", "status", FALSE)
      BY DEF Chain
    <3>4. QED
      BY <2>2, <3>2, <3>3 DEF Chain, Covered
  <2>5. QED
    BY <1>1, <2>3, <2>4 DEF Events
<1>7. QED
  BY <1>2, <1>3, <1>4, <1>5, <1>6

LEMMA LinkEndsStep ==
  ASSUME IInv, LinkEnds PROVE IInv'
<1> USE DEF IInv, LinkEnds, helper, client
<1>1. TypeOK'
  BY DEF TypeOK, LinkStates
<1>2. Linked'
  BY DEF Linked, TypeOK, LinkStates
<1>3. PublishedIsRefreshed'
  BY DEF PublishedIsRefreshed, Linked, TypeOK
<1>4. Clear'
  BY DEF Clear, TypeOK, LinkStates
<1>5. Chain'
  BY ChainKept DEF Lost
<1>6. QED
  BY <1>1, <1>2, <1>3, <1>4, <1>5

LEMMA ForwardStep ==
  ASSUME IInv, Forward PROVE IInv'
<1> USE DEF IInv, Forward, helper
<1>1. /\ evq \in Seq(Events) /\ ui \in Seq(UiEvents)
      /\ Tail(evq) \in Seq(Events) /\ Mapped(Head(evq)) \in UiEvents
      /\ Append(ui, Mapped(Head(evq))) \in Seq(UiEvents)
  <2>1. evq \in Seq(Events) /\ ui \in Seq(UiEvents)
    BY DEF TypeOK, UiEvents
  <2>2. Mapped(Head(evq)) \in UiEvents
    BY DEF Mapped, UiEvents
  <2>3. QED
    BY <2>1, <2>2, TailMembers, AppendMembers
<1>2. TypeOK'
  BY <1>1 DEF TypeOK, UiEvents
<1>3. Linked'
  BY DEF Linked
<1>4. PublishedIsRefreshed'
  <2>1. "status" \in ToSet(evq) =>
          "status" \in ToSet(evq') \/ Sync \in ToSet(ui')
    <3>1. Mapped("status") = Sync
      BY DEF Mapped, Sync
    <3>2. QED
      BY <1>1, <3>1, TailMembers, AppendMembers
  <2>2. Sync \in ToSet(ui) => Sync \in ToSet(ui')
    BY <1>1, AppendMembers
  <2>3. RefreshComing => RefreshComing'
    BY <2>1, <2>2 DEF RefreshComing
  <2>4. QED
    BY <2>3 DEF PublishedIsRefreshed
<1>5. Clear'
  BY DEF Clear, TypeOK, LinkStates
<1>6. Chain'
  <2>1. (AfterWire <=> AfterWire') /\ (AfterEvq <=> AfterEvq')
    BY DEF AfterWire, AfterEvq, Lost
  <2>2. Covered(evq', "degraded", "status", AfterEvq')
    <3>1. Covered(evq', "degraded", "status", AfterEvq)
      BY <1>1, CoveredTail, Booleans DEF Chain
    <3>2. QED
      BY <2>1, <3>1 DEF Covered
  <2>3. /\ Covered(rx', "degraded", "status", FALSE)
        /\ Covered(wire', "degraded", "status", AfterWire')
    BY <2>1 DEF Chain, Covered
  <2>4. CASE Head(evq) = "status"
    <3>1. ui' = Append(ui, Sync)
      BY <2>4, Notices
    <3>2. Covered(ui', Mapped("degraded"), Sync, FALSE)
      BY <1>1, <3>1, CoveredByLast, Notices
    <3>3. QED
      BY <2>2, <2>3, <3>2 DEF Chain, Covered, Mapped, Sync
  <2>5. CASE Head(evq) = "degraded"
    <3>1. "status" \in ToSet(evq') \/ AfterEvq
      BY <1>1, <2>5, CoveredTail, Booleans DEF Chain
    <3>2. MoreComes'
      BY <2>1, <3>1 DEF AfterEvq, AfterWire, MoreComes, Lost
    <3>3. QED
      BY <2>2, <2>3, <3>2 DEF Chain, Covered
  <2>6. QED
    <3>1. Head(evq) \in Events
      BY <1>1, TailMembers
    <3>2. QED
      BY <3>1, <2>4, <2>5 DEF Events
<1>7. QED
  BY <1>2, <1>3, <1>4, <1>5, <1>6

LEMMA GiveUpStep ==
  ASSUME IInv, GiveUp PROVE IInv'
<1> USE DEF IInv, GiveUp, helper
<1>1. TypeOK'
  BY DEF TypeOK, LinkStates
<1>2. Linked'
  BY DEF Linked, TypeOK, LinkStates
<1>3. PublishedIsRefreshed'
  BY DEF PublishedIsRefreshed, Linked, TypeOK
<1>4. Clear'
  BY DEF Clear, TypeOK, LinkStates
<1>5. Chain'
  BY ChainLost DEF Clear, Lost
<1>6. QED
  BY <1>1, <1>2, <1>3, <1>4, <1>5

LEMMA RedialStep ==
  ASSUME IInv, Redial PROVE IInv'
<1> USE DEF IInv, Redial, helper
<1>1. TypeOK'
  BY DEF TypeOK, LinkStates
<1>2. Linked'
  BY DEF Linked, TypeOK, LinkStates
<1>3. PublishedIsRefreshed'
  BY DEF PublishedIsRefreshed, RefreshComing, Linked, TypeOK
<1>4. Clear'
  BY DEF Clear, TypeOK, LinkStates
<1>5. Chain'
  BY ChainKept DEF Lost
<1>6. QED
  BY <1>1, <1>2, <1>3, <1>4, <1>5

-----------------------------------------------------------------------------
(* The main loop and its requests.                                         *)

LEMMA OnDegradedStep ==
  ASSUME IInv, OnDegraded PROVE IInv'
<1> USE DEF IInv, OnDegraded, helper
<1>1. ui \in Seq(UiEvents) /\ Tail(ui) \in Seq(UiEvents) /\ Head(ui) \in UiEvents
  BY TailMembers DEF TypeOK, UiEvents
<1>2. TypeOK'
  BY <1>1 DEF TypeOK, UiEvents
<1>3. Linked'
  BY DEF Linked
<1>4. PublishedIsRefreshed'
  <2>1. Head(ui) # Sync
    BY DEF Sync
  <2>2. Sync \in ToSet(ui) => Sync \in ToSet(ui')
    BY <1>1, <2>1, TailMembers
  <2>3. RefreshComing => RefreshComing'
    BY <2>2 DEF RefreshComing
  <2>4. QED
    BY <2>3 DEF PublishedIsRefreshed
<1>5. Clear'
  BY DEF Clear
<1>6. Chain'
  BY <1>1, ChainTaken
<1>7. QED
  BY <1>2, <1>3, <1>4, <1>5, <1>6

LEMMA OnStatusStep ==
  ASSUME IInv, OnStatus PROVE IInv'
<1> USE DEF IInv, OnStatus, helper
<1>1. ui \in Seq(UiEvents) /\ Tail(ui) \in Seq(UiEvents) /\ Head(ui) \in UiEvents
  BY TailMembers DEF TypeOK, UiEvents
<1>2. TypeOK'
  BY <1>1 DEF TypeOK, UiEvents
<1>3. Linked'
  BY DEF Linked
<1>4. PublishedIsRefreshed'
  <2>1. Head(ui) # Sync
    BY DEF Sync
  <2>2. Sync \in ToSet(ui) => Sync \in ToSet(ui')
    BY <1>1, <2>1, TailMembers
  <2>3. RefreshComing => RefreshComing'
    BY <2>2 DEF RefreshComing
  <2>4. QED
    BY <2>3 DEF PublishedIsRefreshed
<1>5. Clear'
  BY DEF Clear
<1>6. Chain'
  BY <1>1, ChainTaken
<1>7. QED
  BY <1>2, <1>3, <1>4, <1>5, <1>6

LEMMA OnSyncStep ==
  ASSUME IInv, OnSync PROVE IInv'
<1> USE DEF IInv, OnSync, helper
<1>1. ui \in Seq(UiEvents) /\ Tail(ui) \in Seq(UiEvents)
  BY TailMembers DEF TypeOK, UiEvents
<1>2. PICK f \in FETCHES : fetch' = [fetch EXCEPT ![f].at = "asked"]
  BY DEF Ask
<1>3. /\ fetch' \in [FETCHES -> [at : {"idle", "asked", "answered"}, v : Nat]]
      /\ fetch'[f].at = "asked"
  BY <1>2 DEF TypeOK
<1>4. TypeOK'
  BY <1>1, <1>3 DEF TypeOK, UiEvents
<1>5. Linked'
  BY DEF Linked
<1>6. PublishedIsRefreshed'
  BY <1>3 DEF PublishedIsRefreshed, RefreshComing
<1>7. Clear'
  BY DEF Clear
<1>8. Chain'
  BY <1>1, ChainTaken
<1>9. QED
  BY <1>4, <1>5, <1>6, <1>7, <1>8

LEMMA AnswerStep ==
  ASSUME NEW f \in FETCHES, IInv, Answer(f) PROVE IInv'
<1> USE DEF IInv, Answer, helper
<1>1. TypeOK'
  BY DEF TypeOK, LinkStates
<1>2. Linked'
  BY DEF Linked, TypeOK, LinkStates
<1>3. PublishedIsRefreshed'
  BY DEF PublishedIsRefreshed, Linked, TypeOK
<1>4. Clear'
  BY DEF Clear
<1>5. Chain'
  BY ChainKept DEF Lost
<1>6. QED
  BY <1>1, <1>2, <1>3, <1>4, <1>5

LEMMA DeliverStep ==
  ASSUME NEW f \in FETCHES, IInv, Deliver(f) PROVE IInv'
<1> USE DEF IInv, Deliver, helper
<1>1. /\ ui \in Seq(UiEvents) /\ Status(fetch[f].v) \in UiEvents
      /\ Append(ui, Status(fetch[f].v)) \in Seq(UiEvents)
  <2>1. ui \in Seq(UiEvents) /\ fetch[f].v \in Nat
    BY DEF TypeOK, UiEvents
  <2>2. Status(fetch[f].v) \in UiEvents
    BY <2>1 DEF Status, UiEvents
  <2>3. QED
    BY <2>1, <2>2, AppendMembers
<1>2. fetch' \in [FETCHES -> [at : {"idle", "asked", "answered"}, v : Nat]]
  BY DEF TypeOK, Idle
<1>3. TypeOK'
  BY <1>1, <1>2 DEF TypeOK, UiEvents
<1>4. Linked'
  BY DEF Linked
<1>5. PublishedIsRefreshed'
  <2>1. Sync \in ToSet(ui) => Sync \in ToSet(ui')
    BY <1>1, AppendMembers
  <2>2. \A g \in FETCHES : fetch[g].at = "asked" => fetch'[g].at = "asked"
    BY DEF TypeOK
  <2>3. RefreshComing => RefreshComing'
    BY <2>1, <2>2 DEF RefreshComing
  <2>4. QED
    BY <2>3 DEF PublishedIsRefreshed
<1>6. Clear'
  BY DEF Clear
<1>7. Chain'
  <2>1. /\ (AfterWire <=> AfterWire') /\ (AfterEvq <=> AfterEvq')
        /\ (MoreComes <=> MoreComes')
    BY DEF AfterWire, AfterEvq, Lost, MoreComes
  <2>2. Covered(ui', Mapped("degraded"), Sync, MoreComes)
    <3>1. Status(fetch[f].v) # Mapped("degraded")
      BY Notices
    <3>2. Covered(ui, Mapped("degraded"), Sync, MoreComes)
      BY DEF Chain
    <3>3. QED
      BY <1>1, <3>1, <3>2, CoveredAppend, Booleans
  <2>3. QED
    BY <2>1, <2>2 DEF Chain, Covered, Mapped, Sync
<1>8. QED
  BY <1>3, <1>4, <1>5, <1>6, <1>7

LEMMA LoseStep ==
  ASSUME NEW f \in FETCHES, IInv, Lose(f) PROVE IInv'
<1> USE DEF IInv, Lose, helper
<1>1. TypeOK'
  BY DEF TypeOK, Idle
<1>2. Linked'
  BY DEF Linked, TypeOK, LinkStates
<1>3. PublishedIsRefreshed'
  BY DEF PublishedIsRefreshed, Linked, TypeOK
<1>4. Clear'
  BY DEF Clear
<1>5. Chain'
  BY ChainKept DEF Lost
<1>6. QED
  BY <1>1, <1>2, <1>3, <1>4, <1>5

-----------------------------------------------------------------------------
(* The whole.                                                              *)

LEMMA StutterStep ==
  ASSUME IInv, UNCHANGED vars PROVE IInv'
<1>1. Chain'
  BY ChainKept DEF IInv, vars, Lost
<1>2. QED
  BY <1>1 DEF IInv, vars, TypeOK, Linked, Clear, PublishedIsRefreshed,
              RefreshComing

LEMMA NextStep ==
  ASSUME IInv, Next PROVE IInv'
<1>1. CASE Helper
  BY <1>1, ChangeStep, FailOpenStep, DieStep, BootStep, RegisterStep, PushStep
  DEF Helper
<1>2. CASE Subscription
  BY <1>2, DialStep, ConnectStep, ReceiveStep, LinkEndsStep, ForwardStep,
     GiveUpStep, RedialStep
  DEF Subscription
<1>3. CASE Screen
  BY <1>3, OnSyncStep, OnDegradedStep, OnStatusStep DEF Screen
<1>4. ASSUME NEW f \in FETCHES, Requests(f) PROVE IInv'
  BY <1>4, AnswerStep, DeliverStep, LoseStep DEF Requests
<1>5. QED
  BY <1>1, <1>2, <1>3, <1>4 DEF Next

LEMMA Invariance == Spec => []IInv
<1>1. IInv /\ [Next]_vars => IInv'
  BY NextStep, StutterStep
<1>2. QED
  BY InitIInv, <1>1, PTL DEF Spec

(* Every variable keeps its type; the receiver never holds more than the   *)
(* channel does.                                                           *)
THEOREM TypeInvariant == Spec => []TypeOK
<1>1. IInv => TypeOK
  BY DEF IInv
<1>2. QED
  BY Invariance, <1>1, PTL

(* For any capacity, any number of requests at a time and any losses of    *)
(* events: a change that was published to the subscription leads to a      *)
(* refresh, or the helper has answered a request made after it.            *)
THEOREM PublishedIsRefreshedAlways == Spec => []PublishedIsRefreshed
<1>1. IInv => PublishedIsRefreshed
  BY DEF IInv
<1>2. QED
  BY Invariance, <1>1, PTL

(* Behind every notice that the TUN failed open there is, or will be, a    *)
(* refresh of the screen, whatever was dropped for lack of room or lost    *)
(* with a connection.                                                      *)
THEOREM DegradedIsRefreshedAlways == Spec => []DegradedIsRefreshed
<1>1. IInv => DegradedIsRefreshed
  <2>1. ASSUME Chain, TypeOK PROVE DegradedIsRefreshed
    <3>1. DOMAIN ui = 1 .. Len(ui)
      BY <2>1 DEF TypeOK
    <3>2. QED
      BY <2>1, <3>1 DEF Chain, Covered, DegradedIsRefreshed
  <2>2. QED
    BY <2>1 DEF IInv
<1>2. QED
  BY Invariance, <1>1, PTL
=============================================================================
