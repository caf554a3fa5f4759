---------------------------- MODULE ReadsProofs ----------------------------
(***************************************************************************)
(* What the web process answers from two reads, for any packets, windows,  *)
(* filters and retention period, whatever the writer, the cleanup and the  *)
(* clock do between the reads.                                             *)
(***************************************************************************)
EXTENDS Reads, FiniteSetTheorems, SequenceTheorems, WellFoundedInduction, TLAPS

-----------------------------------------------------------------------------
(* The rows a packet leaves in the three tables.                            *)

LogRows ==
  /\ now \in Times
  /\ packet \subseteq PacketRows /\ seen \subseteq SeenRows /\ trace \subseteq TraceRows
  /\ IsFiniteSet(packet) /\ IsFiniteSet(seen)
  /\ \A p, q \in packet : p.id = q.id => p = q

\* A packet's row is of an hour in which it was filed; an hour of which no row is
\* left is older than the retention period.
HoursKnown ==
  /\ filed \in [PacketIds -> SUBSET Times]
  /\ \A i \in PacketIds : \A t \in filed[i] :
       t <= now /\ (t < now - Keep \/ \E p \in packet : p.id = i /\ p.at = t)
  /\ \A p \in packet : p.at \in filed[p.id]
  /\ \A r \in seen \cup trace : filed[r.id] # {}

\* A packet goes before its sighting and its traceroute, unless the sighting was
\* there before it.
PacketGoesFirst ==
  /\ \A p \in packet : p.id \in FiledAgain \/ \E s \in seen : s.id = p.id /\ p.at <= s.at
  /\ \A p \in packet : PortOf[p.id] = "TRACEROUTE" =>
       \E t \in trace : t.id = p.id /\ p.at <= t.at

FiledInv == LogRows /\ HoursKnown /\ PacketGoesFirst

LEMMA FiledInit == Init => FiledInv
BY TimeAssumption, FS_EmptySet, SMT
   DEF Init, ArchiveInit, DBInit, FiledInv, LogRows, HoursKnown, PacketGoesFirst, Times

\* What an envelope adds to the three tables.
LEMMA FilingAdds ==
  ASSUME FiledInv, NEW e \in Envelopes, File(e)
  PROVE  /\ e.id \in PacketIds /\ e.gateway \in Nums /\ UNCHANGED now
         /\ packet' = packet \cup (IF e.id \in Ids(packet) THEN {}
                                   ELSE {[id |-> e.id, from |-> e.from, at |-> now]})
         /\ seen' = seen \cup
              (IF \E s \in seen : s.id = e.id /\ s.gw = e.gateway /\ s.rx = e.rx THEN {}
               ELSE {[id |-> e.id, gw |-> e.gateway, rx |-> e.rx, at |-> now]})
         /\ trace' = trace \cup
              (IF e.port = "TRACEROUTE"
               THEN {[id |-> e.id, gw |-> e.gateway, done |-> e.reply, at |-> now]} ELSE {})
         /\ filed' = IF e.id \in Ids(packet) THEN filed
                     ELSE [filed EXCEPT ![e.id] = @ \cup {now}]
<1>1. e.id \in PacketIds /\ e.gateway \in Nums /\ UNCHANGED now
  BY EnvelopeAssumption DEF File, FileEnvelope, EnvelopeType
<1>2. packet' = packet \cup (IF e.id \in Ids(packet) THEN {}
                             ELSE {[id |-> e.id, from |-> e.from, at |-> now]})
  <2>1. PICK t \in Past : packet' = packet \cup
           (IF e.id \in Ids(packet) THEN {} ELSE {[id |-> e.id, from |-> e.from, at |-> t]})
    BY DEF File, FileEnvelope, FileSighting
  <2>2. CASE e.id \notin Ids(packet)
    <3> DEFINE p == [id |-> e.id, from |-> e.from, at |-> t]
    <3>1. p \in packet' \ packet /\ p.at = t
      BY <2>1, <2>2 DEF Ids
    <3>2. p.at = now
      BY <3>1 DEF File, Stamped
    <3> QED
      BY <2>1, <3>1, <3>2
  <2> QED
    BY <2>1, <2>2
<1>3. PICK t \in Past :
        LET s == [id |-> e.id, gw |-> e.gateway, rx |-> e.rx, at |-> t]
            r == [id |-> e.id, gw |-> e.gateway, done |-> e.reply, at |-> t]
        IN  /\ seen' = seen \cup (IF \E old \in seen : SameSighting(old, s) THEN {} ELSE {s})
            /\ trace' = trace \cup (IF e.port = "TRACEROUTE" THEN {r} ELSE {})
  BY DEF File, FileEnvelope, FileSighting
<1> DEFINE s == [id |-> e.id, gw |-> e.gateway, rx |-> e.rx, at |-> t]
           r == [id |-> e.id, gw |-> e.gateway, done |-> e.reply, at |-> t]
<1>4. seen' = seen \cup
        (IF \E x \in seen : x.id = e.id /\ x.gw = e.gateway /\ x.rx = e.rx THEN {}
         ELSE {[id |-> e.id, gw |-> e.gateway, rx |-> e.rx, at |-> now]})
  <2>1. CASE \E x \in seen : x.id = e.id /\ x.gw = e.gateway /\ x.rx = e.rx
    BY <1>3, <2>1 DEF SameSighting
  <2>2. CASE ~\E x \in seen : x.id = e.id /\ x.gw = e.gateway /\ x.rx = e.rx
    <3>1. seen' = seen \cup {s} /\ s \notin seen /\ s.at = t
      BY <1>3, <2>2 DEF SameSighting
    <3>2. s.at = now
      BY <3>1 DEF File, Stamped
    <3> QED
      BY <2>2, <3>1, <3>2
  <2> QED
    BY <2>1, <2>2
<1>5. trace' = trace \cup
        (IF e.port = "TRACEROUTE"
         THEN {[id |-> e.id, gw |-> e.gateway, done |-> e.reply, at |-> now]} ELSE {})
  <2>1. CASE e.port = "TRACEROUTE"
    <3>1. trace' = trace \cup {r} /\ r.at = t
      BY <1>3, <2>1
    <3>2. [id |-> e.id, gw |-> e.gateway, done |-> e.reply, at |-> now] \in trace'
      BY <2>1 DEF File, Stamped
    <3>3. r \in trace \/ r.at = now
      BY <3>1 DEF File, Stamped
    <3> QED
      BY <2>1, <3>1, <3>2, <3>3
  <2> QED
    BY <1>3, <2>1
<1>6. filed' = IF e.id \in Ids(packet) THEN filed
               ELSE [filed EXCEPT ![e.id] = @ \cup {now}]
  <2> DEFINE p == [id |-> e.id, from |-> e.from, at |-> now]
  <2>1. CASE e.id \in Ids(packet)
    BY <1>2, <2>1 DEF File
  <2>2. CASE e.id \notin Ids(packet)
    <3>1. p \in packet' /\ p.id = e.id
      BY <1>2, <2>2
    <3>2. Ids(packet') # Ids(packet)
      BY <2>2, <3>1 DEF Ids
    <3> QED
      BY <2>2, <3>2 DEF File
  <2> QED
    BY <2>1, <2>2
<1> QED
  BY <1>1, <1>2, <1>4, <1>5, <1>6

LEMMA FilingKeepsLog == ASSUME FiledInv, NEW e \in Envelopes, File(e) PROVE LogRows'
<1> USE DEF FiledInv, LogRows
<1> DEFINE p == [id |-> e.id, from |-> e.from, at |-> now]
           s == [id |-> e.id, gw |-> e.gateway, rx |-> e.rx, at |-> now]
           r == [id |-> e.id, gw |-> e.gateway, done |-> e.reply, at |-> now]
<1>1. p \in PacketRows /\ s \in SeenRows /\ r \in TraceRows
  BY FilingAdds, EnvelopeAssumption DEF EnvelopeType, PacketRows, SeenRows, TraceRows
<1>2. IsFiniteSet(packet \cup {p}) /\ IsFiniteSet(seen \cup {s})
  BY FS_AddElement
<1>3. packet' \in {packet, packet \cup {p}} /\ seen' \in {seen, seen \cup {s}}
      /\ trace' \in {trace, trace \cup {r}}
  BY FilingAdds
<1>4. \A a, b \in packet' : a.id = b.id => a = b
  <2>1. CASE e.id \in Ids(packet)
    BY <2>1, FilingAdds
  <2>2. CASE e.id \notin Ids(packet)
    BY <2>2, FilingAdds DEF Ids
  <2> QED
    BY <2>1, <2>2
<1> QED
  BY <1>1, <1>2, <1>3, <1>4, FilingAdds

LEMMA FilingKeepsHours == ASSUME FiledInv, NEW e \in Envelopes, File(e) PROVE HoursKnown'
<1> USE DEF FiledInv, LogRows, HoursKnown
<1> DEFINE p == [id |-> e.id, from |-> e.from, at |-> now]
           s == [id |-> e.id, gw |-> e.gateway, rx |-> e.rx, at |-> now]
           r == [id |-> e.id, gw |-> e.gateway, done |-> e.reply, at |-> now]
<1>1. seen' \subseteq seen \cup {s} /\ trace' \subseteq trace \cup {r} /\ UNCHANGED now
      /\ e.id \in PacketIds
  BY FilingAdds
<1>2. CASE e.id \in Ids(packet)
  <2>1. packet' = packet /\ filed' = filed
    <3>1. packet' = packet \cup {}
      BY <1>2, FilingAdds
    <3>2. filed' = filed
      BY <1>2, FilingAdds
    <3> QED
      BY <3>1, <3>2
  <2>2. filed[e.id] # {}
    BY <1>2 DEF Ids
  <2> QED
    BY <1>1, <2>1, <2>2
<1>3. CASE e.id \notin Ids(packet)
  <2>1. packet' = packet \cup {p} /\ filed' = [filed EXCEPT ![e.id] = @ \cup {now}]
    BY <1>3, FilingAdds
  <2>2. /\ \A i \in PacketIds : filed'[i] = IF i = e.id THEN filed[i] \cup {now} ELSE filed[i]
        /\ \A i \in PacketIds : filed[i] \subseteq filed'[i]
        /\ filed'[e.id] # {}
    BY <1>1, <2>1
  <2>3. filed' \in [PacketIds -> SUBSET Times]
    BY <2>1
  <2>4. \A i \in PacketIds : \A t \in filed'[i] :
          t <= now /\ (t < now - Keep \/ \E q \in packet' : q.id = i /\ q.at = t)
    <3> SUFFICES ASSUME NEW i \in PacketIds, NEW t \in filed'[i]
                 PROVE  t <= now /\ (t < now - Keep \/ \E q \in packet' : q.id = i /\ q.at = t)
      OBVIOUS
    <3>1. CASE i = e.id /\ t = now
      <4>1. p \in packet' /\ p.id = i /\ p.at = t
        BY <2>1, <3>1
      <4> QED
        BY <3>1, <4>1 DEF Times
    <3>2. CASE t \in filed[i]
      BY <2>1, <3>2
    <3>3. t \in filed[i] \/ (i = e.id /\ t = now)
      <4>1. filed'[i] = IF i = e.id THEN filed[i] \cup {now} ELSE filed[i]
        BY <2>2
      <4> QED
        BY <4>1
    <3> QED
      BY <3>1, <3>2, <3>3
  <2>5. \A q \in packet' : q.at \in filed'[q.id]
    BY <1>1, <2>1, <2>2 DEF PacketRows
  <2>6. \A q \in seen' \cup trace' : filed'[q.id] # {}
    <3> SUFFICES ASSUME NEW q \in seen' \cup trace' PROVE filed'[q.id] # {}
      OBVIOUS
    <3>1. q \in seen \cup trace \/ q.id = e.id
      BY <1>1
    <3>2. q \in seen \cup trace => q.id \in PacketIds /\ filed[q.id] # {}
      BY DEF SeenRows, TraceRows
    <3> QED
      BY <1>1, <2>2, <3>1, <3>2
  <2> QED
    BY <1>1, <2>3, <2>4, <2>5, <2>6
<1> QED
  BY <1>2, <1>3

LEMMA FilingKeepsOrder ==
  ASSUME FiledInv, NEW e \in Envelopes, File(e) PROVE PacketGoesFirst'
<1> USE DEF FiledInv, LogRows, HoursKnown
<1> DEFINE p == [id |-> e.id, from |-> e.from, at |-> now]
           s == [id |-> e.id, gw |-> e.gateway, rx |-> e.rx, at |-> now]
           r == [id |-> e.id, gw |-> e.gateway, done |-> e.reply, at |-> now]
<1>1. seen \subseteq seen' /\ trace \subseteq trace' /\ packet' \subseteq packet \cup {p}
  BY FilingAdds
<1>2. FiledAgain \subseteq FiledAgain'
  <2>1. \A i \in PacketIds : filed[i] \subseteq filed'[i]
    BY FilingAdds
  <2> QED
    BY <2>1 DEF FiledAgain
<1>3. p \in packet' /\ p \notin packet =>
        /\ e.id \in FiledAgain' \/ \E x \in seen' : x.id = e.id /\ p.at <= x.at
        /\ PortOf[e.id] = "TRACEROUTE" => \E x \in trace' : x.id = e.id /\ p.at <= x.at
  <2> SUFFICES ASSUME p \in packet', p \notin packet
               PROVE  /\ e.id \in FiledAgain' \/ \E x \in seen' : x.id = e.id /\ p.at <= x.at
                      /\ PortOf[e.id] = "TRACEROUTE" =>
                            \E x \in trace' : x.id = e.id /\ p.at <= x.at
    OBVIOUS
  <2>1. e.id \notin Ids(packet) /\ e.id \in PacketIds /\ now \in Nat /\ p.at <= now
    BY FilingAdds DEF Times
  <2>2. PortOf[e.id] = "TRACEROUTE" => \E x \in trace' : x.id = e.id /\ p.at <= x.at
    <3>1. PortOf[e.id] = "TRACEROUTE" => r \in trace'
      BY <2>1, FilingAdds, ReadsAssumption, EnvelopeAssumption
    <3>2. r.id = e.id /\ p.at <= r.at
      BY <2>1
    <3> QED
      BY <3>1, <3>2
  <2>3. CASE filed[e.id] = {}
    <3>1. \A x \in seen : x.id # e.id
      BY <2>3
    <3>2. s \in seen'
      BY <3>1, FilingAdds
    <3>3. s.id = e.id /\ p.at <= s.at
      BY <2>1
    <3> QED
      BY <2>2, <3>2, <3>3
  <2>4. CASE filed[e.id] # {}
    <3>1. PICK t \in filed[e.id] : TRUE
      BY <2>4
    <3>2. t \in Nat /\ t < now - Keep
      BY <2>1, <3>1 DEF Ids, Times
    <3>3. t # now
      BY <2>1, <3>2, ReadsAssumption
    <3>4. t \in filed'[e.id] /\ now \in filed'[e.id]
      BY <2>1, FilingAdds
    <3> QED
      BY <2>1, <2>2, <3>3, <3>4 DEF FiledAgain
  <2> QED
    BY <2>3, <2>4
<1> QED
  BY <1>1, <1>2, <1>3 DEF PacketGoesFirst
\* A cleanup takes what is behind one cutoff, the retention period or more ago.
LEMMA CleanUpKeeps == ASSUME FiledInv, CleanUp PROVE FiledInv'
<1> USE DEF FiledInv, LogRows, HoursKnown
<1>1. PICK c \in Past :
        /\ c <= now - Keep /\ now' = now /\ filed' = filed
        /\ packet' = {p \in packet : p.at >= c} /\ seen' = {s \in seen : s.at >= c}
        /\ trace' = {t \in trace : t.at >= c}
  BY DEF CleanUp, Prune
<1>2. now \in Nat /\ c \in Nat /\ now - Keep \in Int
  BY ReadsAssumption DEF Past, Times
<1>3. LogRows'
  <2>1. IsFiniteSet(packet') /\ IsFiniteSet(seen')
    BY <1>1, FS_Subset
  <2> QED
    BY <1>1, <2>1
<1>4. HoursKnown'
  <2>1. \A i \in PacketIds : \A t \in filed[i] :
          t < now - Keep \/ \E p \in packet' : p.id = i /\ p.at = t
    <3> SUFFICES ASSUME NEW i \in PacketIds, NEW t \in filed[i], ~(t < now - Keep)
                 PROVE  \E p \in packet' : p.id = i /\ p.at = t
      OBVIOUS
    <3>1. PICK p \in packet : p.id = i /\ p.at = t
      OBVIOUS
    <3>2. t \in Nat
      BY DEF Times
    <3> QED
      BY <1>1, <1>2, <3>1, <3>2
  <2> QED
    BY <1>1, <2>1
<1>5. PacketGoesFirst'
  <2>1. FiledAgain' = FiledAgain
    BY <1>1 DEF FiledAgain
  <2>2. \A p \in packet', x \in seen \cup trace : p.at <= x.at => x.at >= c
    BY <1>1, <1>2 DEF PacketRows, SeenRows, TraceRows, Times
  <2> QED
    BY <1>1, <2>1, <2>2 DEF PacketGoesFirst
<1> QED
  BY <1>3, <1>4, <1>5

LEMMA FiledStep == FiledInv /\ [Next]_vars => FiledInv'
<1> SUFFICES ASSUME FiledInv, [Next]_vars PROVE FiledInv'
  OBVIOUS
<1>1. CASE \E e \in Envelopes : File(e)
  BY <1>1, FilingKeepsLog, FilingKeepsHours, FilingKeepsOrder DEF FiledInv
<1>2. CASE CleanUp
  BY <1>2, CleanUpKeeps
<1>3. CASE Tick
  <2>1. now' = now + 1 /\ now' \in Times /\ now \in Nat /\ UNCHANGED <<tables, filed>>
    BY <1>3, TimeAssumption DEF Tick, TimePasses, FiledInv, LogRows, Times
  <2>2. FiledAgain' = FiledAgain
    BY <2>1 DEF FiledAgain
  <2>3. \A i \in PacketIds : \A t \in filed[i] :
          t \in Nat /\ (t <= now => t <= now') /\ (t < now - Keep => t < now' - Keep)
    BY <2>1, ReadsAssumption DEF FiledInv, HoursKnown, Times
  <2> QED
    BY <2>1, <2>2, <2>3 DEF FiledInv, LogRows, HoursKnown, PacketGoesFirst, tables
<1>4. CASE Handle \/ UNCHANGED vars
  <2>1. UNCHANGED <<now, tables, filed>>
    BY <1>4 DEF Handle, vars
  <2>2. FiledAgain' = FiledAgain
    BY <2>1 DEF FiledAgain
  <2> QED
    BY <2>1, <2>2 DEF FiledInv, LogRows, HoursKnown, PacketGoesFirst, tables
<1> QED
  BY <1>1, <1>2, <1>3, <1>4 DEF Next

LEMMA FiledInvHolds == Spec => []FiledInv
BY FiledInit, FiledStep, PTL DEF Spec

-----------------------------------------------------------------------------
(* What a request has read.                                                 *)

\* A request is a record of one read or of two, and at most one thing has come
\* between.
RequestShape ==
  /\ req = [kind |-> req.kind, arg |-> req.arg, got |-> req.got, since |-> req.since]
  /\ \/ req = NoRequest
     \/ req.kind \in {"count", "edges", "trace"} /\ req.got = <<req.got[1]>>
     \/ req.kind \in {"count", "edges", "trace"} /\ req.got = <<req.got[1], req.got[2]>>

LEMMA ShapeStep == RequestShape /\ [Next]_vars => RequestShape'
<1> SUFFICES ASSUME RequestShape, [Next]_vars PROVE RequestShape'
  OBVIOUS
<1>1. CASE \E e \in Envelopes : File(e)
  BY <1>1 DEF RequestShape, File, Note, NoRequest
<1>2. CASE CleanUp \/ Tick
  BY <1>2 DEF RequestShape, CleanUp, Tick, Note, NoRequest
<1>3. CASE Handle
  BY <1>3 DEF RequestShape, Handle, CountPackets, ReadTraceroute, ReadTraceroutes,
     CountSeen, ReadNeighbors, ReadPacket, Answer, Ask, Got, Between, NoRequest
<1>4. CASE UNCHANGED vars
  BY <1>4 DEF RequestShape, vars
<1> QED
  BY <1>1, <1>2, <1>3, <1>4 DEF Next
LEMMA ShapeHolds == Spec => []RequestShape
<1>1. Init => RequestShape
  BY DEF Init, RequestShape, NoRequest
<1> QED
  BY <1>1, ShapeStep, PTL DEF Spec

LEMMA AppendToOne == ASSUME NEW a, NEW b PROVE Append(<<a>>, b) = <<a, b>>
<1> DEFINE S == {a, b}
           q == Append(<<a>>, b)
<1>1. <<a>> \in Seq(S) /\ b \in S /\ <<a, b>> \in Seq(S)
  OBVIOUS
<1>2. Len(<<a>>) = 1 /\ <<a>>[1] = a
  OBVIOUS
<1>3. Len(<<a, b>>) = 2 /\ <<a, b>>[1] = a /\ <<a, b>>[2] = b
  OBVIOUS
<1>4. q \in Seq(S) /\ Len(q) = 2 /\ q[1] = a /\ q[2] = b
  <2> HIDE DEF S
  <2> QED
    BY <1>1, <1>2, AppendProperties, SMT
<1>5. \A i \in 1..2 : q[i] = <<a, b>>[i]
  BY <1>3, <1>4
<1> HIDE DEF q, S
<1> QED
  BY <1>1, <1>3, <1>4, <1>5, SeqEqual DEF q

\* A request that reads again has read once.
LEMMA SecondRead ==
  ASSUME RequestShape, req.kind # "none", Between, NEW rows, Got(rows)
  PROVE  /\ req.got = <<req.got[1]>>
         /\ req' = [req EXCEPT !.got = <<req.got[1], rows>>]
<1>1. req # NoRequest
  BY DEF NoRequest
<1>2. req.got # <<req.got[1], req.got[2]>>
  <2>1. \A a, b : Len(<<a, b>>) = 2
    OBVIOUS
  <2> SUFFICES ASSUME req.got = <<req.got[1], req.got[2]>> PROVE FALSE
    OBVIOUS
  <2>2. Len(req.got) = 2
    BY <2>1
  <2> QED
    BY <2>2 DEF Between
<1>3. req.got = <<req.got[1]>>
  BY <1>1, <1>2 DEF RequestShape
<1>4. Append(req.got, rows) = <<req.got[1], rows>>
  BY <1>3, AppendToOne
<1> QED
  BY <1>3, <1>4 DEF Got

\* What the writer and the clock do to a request is noted in `since', once and only
\* before its second read.
LEMMA OthersNote ==
  ASSUME RequestShape, NEW w, Note(w), Between
  PROVE  \/ req = NoRequest /\ req' = req
         \/ /\ req.got = <<req.got[1]>> /\ req.since = {} /\ req'.since = {w}
            /\ req'.kind = req.kind /\ req'.arg = req.arg /\ req'.got = req.got
BY DEF RequestShape, Note, Between

-----------------------------------------------------------------------------
(* The rows and the packet of a traceroute.                                 *)

\* A traceroute that had no row at the first read has no packet until one is filed.
TraceRead ==
  req.kind = "trace" /\ req.got[1] = {} /\ "filed" \notin req.since =>
    /\ Len(req.got) = 1 => \A p \in packet : p.id = req.arg => PortOf[p.id] # "TRACEROUTE"
    /\ Len(req.got) = 2 => \A p \in req.got[2] : PortOf[p.id] # "TRACEROUTE"

LEMMA TraceReadStep ==
  ASSUME FiledInv, RequestShape, TraceRead, [Next]_vars PROVE TraceRead'
<1> USE DEF TraceRead
<1>1. CASE \E e \in Envelopes : File(e)
  <2>1. PICK e \in Envelopes : Note("filed") /\ Between
    BY <1>1 DEF File
  <2> QED
    BY <2>1, OthersNote DEF NoRequest
<1>2. CASE CleanUp
  <2>1. packet' \subseteq packet
    BY <1>2 DEF CleanUp, Prune
  <2>2. Note("pruned") /\ Between
    BY <1>2 DEF CleanUp
  <2> QED
    BY <2>1, <2>2, OthersNote DEF NoRequest
<1>3. CASE Tick
  <2>1. packet' = packet /\ Note("ticked") /\ Between
    BY <1>3 DEF Tick, TimePasses, tables
  <2> QED
    BY <2>1, OthersNote DEF NoRequest
<1>4. CASE Handle
  <2>1. packet' = packet
    BY <1>4 DEF Handle, tables
  <2>2. CASE \E i \in PacketIds : ReadTraceroute(i)
    <3>1. PICK i \in PacketIds : ReadTraceroute(i)
      BY <2>2
    <3>2. req' = [kind |-> "trace", arg |-> i, got |-> <<GetTraceroute(i)>>, since |-> {}]
      BY <3>1 DEF ReadTraceroute, Ask
    <3>3. GetTraceroute(i) = {} =>
            \A p \in packet : p.id = i => PortOf[p.id] # "TRACEROUTE"
      BY DEF GetTraceroute, FiledInv, PacketGoesFirst
    <3> QED
      BY <2>1, <3>2, <3>3
  <2>3. CASE ReadPacket
    <3>1. /\ req.kind = "trace" /\ req.got = <<req.got[1]>>
          /\ req' = [req EXCEPT !.got = <<req.got[1], GetPacket(req.arg)>>]
      BY <2>3, SecondRead DEF ReadPacket
    <3> QED
      BY <3>1 DEF GetPacket, RequestShape
  <2>4. CASE (\E c \in Counts : CountPackets(c)) \/ ReadTraceroutes \/ CountSeen
             \/ ReadNeighbors \/ Answer
    <3>1. req'.kind # "trace"
      BY <2>4 DEF CountPackets, ReadTraceroutes, CountSeen, ReadNeighbors, Answer, Ask,
         Got, NoRequest, RequestShape
    <3> QED
      BY <3>1
  <2> QED
    BY <1>4, <2>2, <2>3, <2>4 DEF Handle
<1>5. CASE UNCHANGED vars
  BY <1>5 DEF vars, tables
<1> QED
  BY <1>1, <1>2, <1>3, <1>4, <1>5 DEF Next

\* A traceroute's packet that is shown without rows was filed between the two reads,
\* for any retention period: it is filed with a row and pruned before it.
THEOREM ReadsShowTraceRows == Spec => []TraceHasRows
<1>1. Init => TraceRead
  BY DEF Init, NoRequest, TraceRead
<1>2. FiledInv /\ RequestShape /\ TraceRead /\ [Next]_vars => TraceRead'
  BY TraceReadStep
<1>3. TraceRead => TraceHasRows
  BY DEF TraceRead, TraceHasRows, Answered
<1> QED
  BY <1>1, <1>2, <1>3, FiledInvHolds, ShapeHolds, PTL DEF Spec
-----------------------------------------------------------------------------
(* The rows that make the edges.                                            *)

\* A row that was read and its packet, or none, which is the only one of its id.
Joined(j) ==
  \E t \in TraceRows, P \in SUBSET PacketRows :
    /\ j = [row |-> t, packet |-> P]
    /\ \A p \in P : p.id = t.id
    /\ \A p, q \in P : p = q

EdgesRead ==
  req.kind = "edges" =>
    /\ \A j \in req.got[1] : Joined(j)
    /\ req.since = {} => req.got[1] = TracerouteRows

LEMMA RowsAreJoined == FiledInv => \A j \in TracerouteRows : Joined(j)
<1> SUFFICES ASSUME FiledInv, NEW t \in trace
             PROVE  Joined([row |-> t, packet |-> GetPacket(t.id)])
  BY DEF TracerouteRows, GetTraceroutes
<1>1. t \in TraceRows /\ GetPacket(t.id) \in SUBSET PacketRows
  BY DEF FiledInv, LogRows, GetPacket
<1>2. \A p, q \in GetPacket(t.id) : p.id = t.id /\ p = q
  BY DEF FiledInv, LogRows, GetPacket
<1> QED
  BY <1>1, <1>2 DEF Joined

LEMMA EdgesReadStep ==
  ASSUME FiledInv, RequestShape, EdgesRead, [Next]_vars PROVE EdgesRead'
<1> USE DEF EdgesRead
<1>1. CASE (\E e \in Envelopes : File(e)) \/ CleanUp \/ Tick
  <2>1. PICK w \in {"filed", "pruned", "ticked"} : Note(w) /\ Between
    BY <1>1 DEF File, CleanUp, Tick
  <2> QED
    BY <2>1, OthersNote DEF NoRequest, Joined
<1>2. CASE Handle
  <2>1. TracerouteRows' = TracerouteRows
    BY <1>2 DEF Handle, tables, TracerouteRows, GetTraceroutes, GetPacket
  <2>2. CASE ReadTraceroutes
    <3>1. req' = [kind |-> "edges", arg |-> Unset, got |-> <<TracerouteRows>>, since |-> {}]
      BY <2>2 DEF ReadTraceroutes, Ask
    <3> QED
      BY <2>1, <3>1, RowsAreJoined DEF Joined
  <2>3. CASE ReadNeighbors
    <3>1. /\ req.kind = "edges" /\ req.got = <<req.got[1]>>
          /\ req' = [req EXCEPT !.got = <<req.got[1], NeighborPackets>>]
      BY <2>3, SecondRead DEF ReadNeighbors
    <3>2. req'.got[1] = req.got[1] /\ req'.kind = "edges" /\ req'.since = req.since
      BY <3>1 DEF RequestShape
    <3> QED
      BY <2>1, <3>1, <3>2 DEF Joined
  <2>4. CASE (\E c \in Counts : CountPackets(c)) \/ (\E i \in PacketIds : ReadTraceroute(i))
             \/ CountSeen \/ ReadPacket \/ Answer
    <3>1. req'.kind # "edges"
      BY <2>4 DEF CountPackets, ReadTraceroute, CountSeen, ReadPacket, Answer, Ask,
         Got, NoRequest, RequestShape
    <3> QED
      BY <3>1
  <2> QED
    BY <1>2, <2>2, <2>3, <2>4 DEF Handle
<1>3. CASE UNCHANGED vars
  BY <1>3 DEF vars, tables, TracerouteRows, GetTraceroutes, GetPacket, Joined
<1> QED
  BY <1>1, <1>2, <1>3 DEF Next

LEMMA EdgesReadHolds == Spec => []EdgesRead
<1>1. Init => EdgesRead
  BY DEF Init, NoRequest, EdgesRead
<1>2. FiledInv /\ RequestShape /\ EdgesRead /\ [Next]_vars => EdgesRead'
  BY EdgesReadStep
<1> QED
  BY <1>1, <1>2, FiledInvHolds, ShapeHolds, PTL DEF Spec

\* A traceroute of the window that has lost its packet came late after it: the packet
\* was taken by a cutoff that left the row.
LEMMA LostPacketIsOld ==
  ASSUME FiledInv, NEW t \in trace, t.at > now - EdgeWindow, GetPacket(t.id) = {}
  PROVE  \A h \in filed[t.id] : t.at - h > Keep - EdgeWindow
<1> SUFFICES ASSUME NEW h \in filed[t.id] PROVE t.at - h > Keep - EdgeWindow
  OBVIOUS
<1>1. t.id \in PacketIds /\ t.at \in Nat /\ now \in Nat
  BY DEF FiledInv, LogRows, TraceRows, Times
<1>2. h \in Nat /\ h < now - Keep
  BY <1>1 DEF FiledInv, HoursKnown, GetPacket, Times
<1>3. EdgeWindow \in Nat /\ Keep \in Nat
  BY QueryAssumption, ReadsAssumption
<1> QED
  BY <1>1, <1>2, <1>3

\* The edges are refused only for what does not decode or for a traceroute that came
\* so late that a cleanup took its packet away from under it.
THEOREM ReadsEdgesFailLate == Spec => []EdgesFailLate
<1>1. FiledInv /\ EdgesRead => EdgesFailLate
  <2> SUFFICES ASSUME FiledInv, EdgesRead, EdgesFailed, req.since = {}
               PROVE  \/ \E j \in req.got[1] :
                           \/ Undecodable({j.row})
                           \/ \A t \in filed[j.row.id] : j.row.at - t > Keep - EdgeWindow
                      \/ Answered("edges") /\ \E p \in req.got[2] : NeighborsOf[p.id] = Garbled
    BY DEF EdgesFailLate
  <2>1. CASE EdgesFail(req.got[1])
    <3>1. PICK j \in req.got[1] : j.packet = {} \/ Undecodable({j.row})
      BY <2>1 DEF EdgesFail
    <3>2. PICK t \in trace : t.at > now - EdgeWindow /\ j = [row |-> t, packet |-> GetPacket(t.id)]
      BY <3>1 DEF EdgesRead, EdgesFailed, TracerouteRows, GetTraceroutes
    <3>3. j.row = t /\ j.packet = GetPacket(t.id)
      BY <3>2
    <3> QED
      BY <3>1, <3>2, <3>3, LostPacketIsOld
  <2>2. CASE Answered("edges") /\ NeighborsFail(req.got[2])
    BY <2>2 DEF NeighborsFail
  <2> QED
    BY <2>1, <2>2 DEF EdgesFailed
<1> QED
  BY <1>1, EdgesReadHolds, FiledInvHolds, PTL
-----------------------------------------------------------------------------
(* The edges of the graph and those of the list.                            *)

LEMMA StepsOfAppend ==
  ASSUME NEW S, NEW path \in Seq(S), path # <<>>, NEW b \in S
  PROVE  Steps(Append(path, b)) = Steps(path) \cup {<<Last(path), b>>}
<1> DEFINE longer == Append(path, b)
<1>1. Len(path) \in Nat \ {0} /\ Len(longer) = Len(path) + 1
  OBVIOUS
<1>2. \A i \in 1..Len(path) : longer[i] = path[i]
  OBVIOUS
<1>3. longer[Len(path) + 1] = b /\ longer[Len(path)] = Last(path)
  BY <1>1 DEF Last
<1> HIDE DEF longer
<1>4. Len(longer) - 1 = Len(path)
  BY <1>1
<1>5. Steps(path) \subseteq Steps(longer)
  <2> SUFFICES ASSUME NEW i \in 1..Len(path) - 1 PROVE <<path[i], path[i + 1]>> \in Steps(longer)
    BY DEF Steps
  <2>1. i \in 1..Len(path) /\ i + 1 \in 1..Len(path)
    BY <1>1
  <2>2. <<longer[i], longer[i + 1]>> = <<path[i], path[i + 1]>>
    BY <1>2, <2>1
  <2> QED
    BY <1>4, <2>1, <2>2 DEF Steps
<1>6. <<Last(path), b>> \in Steps(longer)
  BY <1>1, <1>3, <1>4 DEF Steps
<1>7. Steps(longer) \subseteq Steps(path) \cup {<<Last(path), b>>}
  <2> SUFFICES ASSUME NEW i \in 1..Len(path)
               PROVE  <<longer[i], longer[i + 1]>> \in Steps(path) \cup {<<Last(path), b>>}
    BY <1>4 DEF Steps
  <2>1. CASE i = Len(path)
    BY <1>3, <2>1
  <2>2. CASE i # Len(path)
    <3>1. i \in 1..Len(path) - 1 /\ i + 1 \in 1..Len(path)
      BY <1>1, <2>2
    <3>2. <<longer[i], longer[i + 1]>> = <<path[i], path[i + 1]>>
      BY <1>2, <3>1
    <3> QED
      BY <3>1, <3>2 DEF Steps
  <2> QED
    BY <2>1, <2>2
<1> QED
  BY <1>5, <1>6, <1>7 DEF longer

\* The two ways of making a row's path differ at most in a step that stays in place.
LEMMA PathsHaveSameEdges ==
  ASSUME NEW t \in TraceRows, NEW p \in PacketRows, p.id = t.id, ~Undecodable({t})
  PROVE  NoLoop(Steps(EdgePath(t, p))) = NoLoop(Steps(GraphPath(t, p)))
<1> DEFINE route == RouteOf[t.id][t.gw]
           path == <<p.from>> \o route
           end == IF t.done THEN ToOf[p.id] ELSE t.gw
<1>1. route \in Seq(Nums)
  BY QueryAssumption DEF Routes, Undecodable, TraceRows
<1>2. p.from \in Nums /\ end \in Nums
  BY QueryAssumption DEF TraceRows, PacketRows
<1> HIDE DEF route
<1>3. path \in Seq(Nums) /\ path # <<>>
  BY <1>1, <1>2
<1>4. EdgePath(t, p) = Append(path, end)
  BY <1>1, <1>2, <1>3 DEF EdgePath, route
<1>5. GraphPath(t, p) = IF t.done \/ Last(path) # t.gw THEN Append(path, end) ELSE path
  BY DEF GraphPath, route
<1> HIDE DEF path, end
<1>6. CASE t.done \/ Last(path) # t.gw
  BY <1>4, <1>5, <1>6
<1>7. CASE ~t.done /\ Last(path) = t.gw
  <2>1. end = Last(path)
    BY <1>7 DEF end
  <2>2. Steps(EdgePath(t, p)) = Steps(path) \cup {<<end, end>>}
    BY <1>2, <1>3, <1>4, <2>1, StepsOfAppend
  <2>3. Steps(GraphPath(t, p)) = Steps(path)
    BY <1>5, <1>7
  <2> QED
    BY <2>2, <2>3 DEF NoLoop
<1> QED
  BY <1>6, <1>7

\* The list of edges and the graph page, whose code differs, draw the same edges of
\* the same rows, for any routes.
THEOREM ReadsDrawSameEdges == Spec => []EdgesAgreeWithGraph
<1>1. EdgesRead => EdgesAgreeWithGraph
  <2> DEFINE types == EdgeTypes(req.got[1], req.got[2])
             drawn == UNION {Steps(GraphPath(j.row, CHOOSE p \in j.packet : TRUE)) : j \in req.got[1]}
  <2> SUFFICES ASSUME EdgesRead, Answered("edges"), ~EdgesFailed
               PROVE  NoLoop({e \in DOMAIN types : types[e] = "traceroute"}) = NoLoop(drawn)
    BY DEF EdgesAgreeWithGraph
  <2>1. {e \in DOMAIN types : types[e] = "traceroute"} = TraceEdges(req.got[1])
    BY DEF EdgeTypes
  <2>2. \A j \in req.got[1] : Joined(j) /\ j.packet # {} /\ ~Undecodable({j.row})
    BY DEF EdgesRead, Answered, EdgesFailed, EdgesFail
  <2>3. ASSUME NEW j \in req.got[1], NEW p \in j.packet
        PROVE  /\ p = (CHOOSE q \in j.packet : TRUE)
               /\ NoLoop(Steps(EdgePath(j.row, p))) = NoLoop(Steps(GraphPath(j.row, p)))
    <3>1. PICK t \in TraceRows, P \in SUBSET PacketRows :
            j = [row |-> t, packet |-> P] /\ (\A q \in P : q.id = t.id)
            /\ \A q, r \in P : q = r
      BY <2>2 DEF Joined
    <3>2. j.row = t /\ j.packet = P
      BY <3>1
    <3>3. (CHOOSE q \in j.packet : TRUE) \in j.packet
      BY <2>3
    <3>4. p = (CHOOSE q \in j.packet : TRUE)
      BY <2>3, <3>1, <3>2, <3>3
    <3>5. NoLoop(Steps(EdgePath(t, p))) = NoLoop(Steps(GraphPath(t, p)))
      BY <2>2, <2>3, <3>1, <3>2, PathsHaveSameEdges
    <3> QED
      BY <3>2, <3>4, <3>5
  <2>4. NoLoop(TraceEdges(req.got[1])) \subseteq NoLoop(drawn)
    <3> SUFFICES ASSUME NEW e \in TraceEdges(req.got[1]), e[1] # e[2] PROVE e \in drawn
      BY DEF NoLoop
    <3>1. PICK j \in req.got[1] : \E p \in j.packet : e \in Steps(EdgePath(j.row, p))
      BY DEF TraceEdges
    <3>2. PICK p \in j.packet : e \in Steps(EdgePath(j.row, p))
      BY <3>1
    <3>3. e \in NoLoop(Steps(EdgePath(j.row, p)))
      BY <3>2 DEF NoLoop
    <3>4. e \in Steps(GraphPath(j.row, CHOOSE q \in j.packet : TRUE))
      BY <2>3, <3>1, <3>3 DEF NoLoop
    <3> QED
      BY <3>1, <3>4
  <2>5. NoLoop(drawn) \subseteq NoLoop(TraceEdges(req.got[1]))
    <3> SUFFICES ASSUME NEW e \in drawn, e[1] # e[2] PROVE e \in TraceEdges(req.got[1])
      BY DEF NoLoop
    <3>1. PICK j \in req.got[1] : e \in Steps(GraphPath(j.row, CHOOSE q \in j.packet : TRUE))
      OBVIOUS
    <3>2. PICK p \in j.packet : p = (CHOOSE q \in j.packet : TRUE)
      BY <2>2, <3>1
    <3>3. e \in NoLoop(Steps(GraphPath(j.row, p)))
      BY <3>1, <3>2 DEF NoLoop
    <3>4. e \in Steps(EdgePath(j.row, p))
      BY <2>3, <3>1, <3>3 DEF NoLoop
    <3> QED
      BY <3>1, <3>4 DEF TraceEdges
  <2> QED
    BY <2>1, <2>4, <2>5
<1> QED
  BY <1>1, EdgesReadHolds, PTL
-----------------------------------------------------------------------------
(* The two totals.                                                          *)

\* Packets, each of them with a row of its own id in S or with its id in A.
LEMMA CoveredByRows ==
  ASSUME NEW P, NEW S, NEW A, IsFiniteSet(S), IsFiniteSet(A),
         \A p, q \in P : p.id = q.id => p = q,
         \A p \in P : p.id \in A \/ \E s \in S : s.id = p.id
  PROVE  IsFiniteSet(P) /\ Cardinality(P) <= Cardinality(S) + Cardinality(A)
<1> DEFINE B == {p \in P : p.id \in A}
           C == {p \in P : p.id \notin A}
           f == [p \in B |-> p.id]
           g == [p \in C |-> CHOOSE s \in S : s.id = p.id]
<1>1. \A p \in C : g[p] \in S /\ g[p].id = p.id
  OBVIOUS
<1>2. f \in Injection(B, A)
  <2>1. f \in [B -> A] /\ \A p, q \in B : f[p] = f[q] => p = q
    OBVIOUS
  <2> QED
    BY <2>1, Zenon DEF Injection, IsInjective
<1>3. g \in Injection(C, S)
  <2>1. g \in [C -> S] /\ \A p, q \in C : g[p] = g[q] => p = q
    BY <1>1
  <2> QED
    BY <2>1, Zenon DEF Injection, IsInjective
<1> HIDE DEF f, g
<1>4. IsFiniteSet(B) /\ Cardinality(B) <= Cardinality(A)
  BY <1>2, FS_Injection
<1>5. IsFiniteSet(C) /\ Cardinality(C) <= Cardinality(S)
  BY <1>3, FS_Injection
<1>6. P = B \cup C /\ B \cap C = {}
  OBVIOUS
<1> HIDE DEF B, C
<1>7. IsFiniteSet(P) /\ Cardinality(P) = Cardinality(B) + Cardinality(C) - Cardinality(B \cap C)
  BY <1>4, <1>5, <1>6, FS_Union
<1>8. Cardinality(B \cap C) = 0
  BY <1>6, FS_EmptySet
<1>9. /\ Cardinality(A) \in Nat /\ Cardinality(B) \in Nat
      /\ Cardinality(C) \in Nat /\ Cardinality(S) \in Nat
  BY <1>4, <1>5, FS_CardinalityType
<1> QED
  BY <1>4, <1>5, <1>7, <1>8, <1>9

Counted(f) == {p \in packet : Unfiltered(f) \/ (p.at >= Start(f) /\ Selects(f, p))}

CountedSeen(f) ==
  {s \in seen : Unfiltered(f) \/ \E p \in GetPacket(s.id) : p.at >= Start(f) /\ Selects(f, p)}

LEMMA CountsAreFinite ==
  ASSUME FiledInv, NEW f
  PROVE  /\ IsFiniteSet(Counted(f)) /\ IsFiniteSet(CountedSeen(f)) /\ IsFiniteSet(FiledAgain)
         /\ Cardinality(Counted(f)) \in Nat /\ Cardinality(CountedSeen(f)) \in Nat
         /\ Cardinality(FiledAgain) \in Nat
<1>1. Counted(f) \subseteq packet /\ CountedSeen(f) \subseteq seen /\ FiledAgain \subseteq PacketIds
  BY DEF Counted, CountedSeen, FiledAgain
<1>2. IsFiniteSet(Counted(f)) /\ IsFiniteSet(CountedSeen(f)) /\ IsFiniteSet(FiledAgain)
  BY <1>1, ReadsAssumption, FS_Subset DEF FiledInv, LogRows
<1> QED
  BY <1>2, FS_CardinalityType

\* Counted at one moment, the totals match.
LEMMA CountsMatchNow ==
  ASSUME FiledInv, NEW f
  PROVE  /\ Cardinality(Counted(f)) <= Cardinality(CountedSeen(f)) + Cardinality(FiledAgain)
         /\ ~Unfiltered(f) /\ Cardinality(Counted(f)) = 0 => Cardinality(CountedSeen(f)) = 0
<1>1. \A p, q \in Counted(f) : p.id = q.id => p = q
  BY DEF Counted, FiledInv, LogRows
<1>2. \A p \in Counted(f) : p.id \in FiledAgain \/ \E s \in CountedSeen(f) : s.id = p.id
  BY DEF Counted, CountedSeen, GetPacket, FiledInv, PacketGoesFirst
<1>3. Cardinality(Counted(f)) <= Cardinality(CountedSeen(f)) + Cardinality(FiledAgain)
  BY <1>1, <1>2, CountsAreFinite, CoveredByRows
<1>4. ASSUME ~Unfiltered(f), Cardinality(Counted(f)) = 0
      PROVE  Cardinality(CountedSeen(f)) = 0
  <2>1. Counted(f) = {}
    BY <1>4, CountsAreFinite, FS_EmptySet
  <2>2. CountedSeen(f) = {}
    BY <1>4, <2>1 DEF Counted, CountedSeen, GetPacket
  <2> QED
    BY <2>2, FS_EmptySet
<1> QED
  BY <1>3, <1>4

\* The first total is of packets that are still there, and of all of them when nothing
\* has come since.
CountRead ==
  req.kind = "count" /\ req.arg.id = Unset =>
    /\ Len(req.got) = 1 =>
         /\ req.since \subseteq {"filed"} => req.got[1] <= Cardinality(Counted(req.arg.filter))
         /\ req.since = {} => req.got[1] = Cardinality(Counted(req.arg.filter))
    /\ req.got[1] \in Nat
    /\ CountsMatch

LEMMA CountReadStep ==
  ASSUME FiledInv, FiledInv', RequestShape, CountRead, [Next]_vars PROVE CountRead'
<1> SUFFICES ASSUME req'.kind = "count", req'.arg.id = Unset PROVE CountRead'
  BY DEF CountRead
<1>0. PICK f : f = req'.arg.filter
  OBVIOUS
<1>1. CASE \E e \in Envelopes : File(e)
  <2>1. PICK e \in Envelopes : File(e)
    BY <1>1
  <2>2. packet \subseteq packet' /\ now' = now /\ IsFiniteSet(packet')
    BY <2>1, FilingAdds DEF FiledInv, LogRows
  <2>3. Counted(f) \subseteq Counted(f)' /\ Counted(f)' \subseteq packet'
    BY <2>2 DEF Counted, Start
  <2>4. /\ Cardinality(Counted(f)) <= Cardinality(Counted(f)')
        /\ Cardinality(Counted(f)') \in Nat /\ Cardinality(Counted(f)) \in Nat
    <3>1. IsFiniteSet(Counted(f)')
      BY <2>2, <2>3, FS_Subset
    <3> QED
      BY <2>3, <3>1, FS_Subset, FS_CardinalityType, CountsAreFinite
  <2>5. /\ req'.got = req.got /\ Len(req.got) = 1 /\ req.since = {} /\ req'.since = {"filed"}
        /\ req'.kind = req.kind /\ req'.arg = req.arg
    <3>1. req.got = <<req.got[1]>> => Len(req.got) = 1
      OBVIOUS
    <3>2. Note("filed") /\ Between
      BY <2>1 DEF File
    <3> QED
      BY <3>1, <3>2, OthersNote DEF NoRequest
  <2> QED
    BY <1>0, <2>4, <2>5 DEF CountRead, CountsMatch, Answered
<1>2. CASE CleanUp \/ Tick
  <2>1. PICK w \in {"pruned", "ticked"} : Note(w) /\ Between
    BY <1>2 DEF CleanUp, Tick
  <2>2. /\ req'.got = req.got /\ Len(req.got) = 1 /\ req'.since = {w}
        /\ req'.kind = req.kind /\ req'.arg = req.arg
    <3>1. req.got = <<req.got[1]>> => Len(req.got) = 1
      OBVIOUS
    <3> QED
      BY <2>1, <3>1, OthersNote DEF NoRequest
  <2>3. ~({w} \subseteq {"filed"}) /\ {w} # {}
    BY <2>1
  <2> QED
    BY <2>2, <2>3 DEF CountRead, CountsMatch, Answered
<1>3. CASE \E c \in Counts : CountPackets(c) /\ UNCHANGED <<now, tables, filed, filings>>
  <2>1. PICK c \in Counts : CountPackets(c) /\ UNCHANGED <<now, tables, filed, filings>>
    BY <1>3
  <2>2. req' = [kind |-> "count", arg |-> c, got |-> <<TotalPackets(c.filter)>>, since |-> {}]
    BY <2>1 DEF CountPackets, Ask
  <2>3. TotalPackets(c.filter) = Cardinality(Counted(c.filter))
    BY DEF TotalPackets, Counted
  <2>4. Counted(c.filter)' = Counted(c.filter)
    BY <2>1 DEF Counted, Start, tables
  <2>5. Cardinality(Counted(c.filter)) \in Nat
    BY CountsAreFinite
  <2> QED
    BY <2>2, <2>3, <2>4, <2>5 DEF CountRead, CountsMatch, Answered
<1>4. CASE CountSeen /\ UNCHANGED <<now, tables, filed, filings>>
  <2> DEFINE total == TotalSeen(req.arg.filter, req.arg.id)
  <2>1. /\ req.kind = "count" /\ req.got = <<req.got[1]>>
        /\ req' = [req EXCEPT !.got = <<req.got[1], total>>]
    BY <1>4, SecondRead DEF CountSeen
  <2> HIDE DEF total
  <2>2. /\ req'.arg = req.arg /\ req'.since = req.since /\ req'.got = <<req.got[1], total>>
        /\ Len(req.got) = 1
    BY <2>1 DEF RequestShape
  <2>3. total = Cardinality(CountedSeen(f))
    BY <1>0, <2>2 DEF total, TotalSeen, CountedSeen
  <2>4. FiledAgain' = FiledAgain
    BY <1>4 DEF FiledAgain
  <2> QED
    BY <1>0, <2>1, <2>2, <2>3, <2>4, CountsMatchNow, CountsAreFinite
       DEF CountRead, CountsMatch, Answered
<1>5. CASE (\E i \in PacketIds : ReadTraceroute(i)) \/ ReadTraceroutes \/ ReadNeighbors
           \/ ReadPacket \/ Answer
  BY <1>5 DEF ReadTraceroute, ReadTraceroutes, ReadNeighbors, ReadPacket, Answer, Ask, Got,
     NoRequest, RequestShape
<1>6. CASE UNCHANGED vars
  <2>1. Counted(f)' = Counted(f) /\ FiledAgain' = FiledAgain
    BY <1>6 DEF Counted, Start, FiledAgain, vars, tables
  <2> QED
    BY <1>0, <1>6, <2>1 DEF CountRead, CountsMatch, Answered, vars
<1> QED
  BY <1>1, <1>2, <1>3, <1>4, <1>5, <1>6 DEF Next, Handle

\* The totals of packets and of sightings match for any filter, though a commit comes
\* between the two counts.
THEOREM ReadsCountTheSame == Spec => []CountsMatch
<1>1. Init => CountRead
  BY DEF Init, NoRequest, CountRead
<1>2. FiledInv /\ FiledInv' /\ RequestShape /\ CountRead /\ [Next]_vars => CountRead'
  BY CountReadStep
<1>3. CountRead => CountsMatch
  BY DEF CountRead, CountsMatch, Answered
<1> QED
  BY <1>1, <1>2, <1>3, FiledInvHolds, ShapeHolds, PTL DEF Spec
-----------------------------------------------------------------------------
(* The rows of the nodes that tell of themselves.                           *)

\* One row a key, numbered by the key, of the past.
Sound(rows) ==
  /\ rows \subseteq NodeRows
  /\ \A r \in rows : r.num = NumOf[r.key] /\ r.last <= now
  /\ \A r, s \in rows : r.key = s.key => r = s

\* Every node is still there and was not heard earlier.
Outlives(old, new) == \A r \in old : \E q \in new : q.num = r.num /\ r.last <= q.last

NodesTold ==
  /\ Sound(node)
  /\ \A p \in packet : PortOf[p.id] = "NODEINFO" =>
       \E r \in node : r.num = p.from /\ p.at <= r.last

LEMMA OverlaySound ==
  ASSUME NEW rows, NEW new, Sound(rows), Sound(new)
  PROVE  Sound(OverlayNodes(rows, new))
BY DEF Sound, OverlayNodes

\* Rows that are as late as the ones they replace.
LEMMA OverlayOutlives ==
  ASSUME NEW rows, NEW new, Sound(rows), Sound(new),
         \A s \in new, r \in rows : s.key = r.key => r.last <= s.last
  PROVE  Outlives(rows, OverlayNodes(rows, new))
<1> SUFFICES ASSUME NEW r \in rows
             PROVE  \E q \in OverlayNodes(rows, new) : q.num = r.num /\ r.last <= q.last
  BY DEF Outlives
<1>1. CASE \E s \in new : s.key = r.key
  BY <1>1 DEF OverlayNodes, Sound
<1>2. CASE ~\E s \in new : s.key = r.key
  <2>1. r.last <= r.last
    BY DEF Sound, NodeRows, TimesOrNull
  <2> QED
    BY <1>2, <2>1 DEF OverlayNodes
<1> QED
  BY <1>1, <1>2

LEMMA FlaggedOutlives ==
  ASSUME now \in Times, Sound(node), NEW e, NEW yes \in BOOLEAN
  PROVE  Sound(Flagged(node, e, yes)) /\ Outlives(node, Flagged(node, e, yes))
<1> DEFINE new == {[r EXCEPT !.gateway = TRUE] : r \in {q \in node : yes /\ q.num = e.gateway}}
<1>1. \A s \in new : \E r \in node :
        s \in NodeRows /\ s.key = r.key /\ s.num = r.num /\ s.last = r.last
        /\ s = [r EXCEPT !.gateway = TRUE]
  BY DEF Sound, NodeRows
<1>2. \A s \in new, r \in node : s.key = r.key => s = [r EXCEPT !.gateway = TRUE]
  BY <1>1 DEF Sound
<1>3. Sound(new)
  <2>1. new \subseteq NodeRows /\ \A s \in new : s.num = NumOf[s.key] /\ s.last <= now
    BY <1>1 DEF Sound
  <2>2. ASSUME NEW r \in new, NEW s \in new, r.key = s.key PROVE r = s
    <3>1. PICK q \in node : q.key = s.key /\ s = [q EXCEPT !.gateway = TRUE]
      BY <1>1
    <3> QED
      BY <1>2, <2>2, <3>1
  <2> QED
    BY <2>1, <2>2 DEF Sound
<1>4. \A s \in new, r \in node : s.key = r.key => r.last <= s.last
  <2> SUFFICES ASSUME NEW s \in new, NEW r \in node, s.key = r.key PROVE r.last <= s.last
    OBVIOUS
  <2>1. r.last = s.last /\ r.last \in Int
    BY <1>1 DEF Sound, NodeRows, TimesOrNull
  <2> QED
    BY <2>1
<1> QED
  BY <1>3, <1>4, OverlaySound, OverlayOutlives DEF Flagged

\* Rows that are touched now.
LEMMA TouchedOutlives ==
  ASSUME now \in Times, NEW rows, Sound(rows), NEW found \in SUBSET rows
  PROVE  /\ Sound(OverlayNodes(rows, {Touched(r, now) : r \in found}))
         /\ Outlives(rows, OverlayNodes(rows, {Touched(r, now) : r \in found}))
<1> DEFINE new == {Touched(r, now) : r \in found}
<1>1. \A r \in found : /\ Touched(r, now) \in NodeRows /\ Touched(r, now).key = r.key
                       /\ Touched(r, now).num = r.num /\ Touched(r, now).last = now
  <2> SUFFICES ASSUME NEW r \in found
               PROVE  /\ Touched(r, now) \in NodeRows /\ Touched(r, now).key = r.key
                      /\ Touched(r, now).num = r.num /\ Touched(r, now).last = now
    OBVIOUS
  <2>1. r \in NodeRows /\ now \in TimesOrNull
    BY DEF Sound, Times, TimesOrNull
  <2>2. (IF r.first = NoTime THEN now ELSE r.first) \in TimesOrNull
    BY <2>1 DEF NodeRows
  <2> QED
    BY <2>1, <2>2 DEF Touched, NodeRows
<1>2. Sound(new)
  <2>1. new \subseteq NodeRows
    BY <1>1
  <2>2. \A s \in new : s.num = NumOf[s.key] /\ s.last <= now
    BY <1>1 DEF Sound, Times
  <2>3. \A r, s \in new : r.key = s.key => r = s
    BY <1>1 DEF Sound
  <2> QED
    BY <2>1, <2>2, <2>3 DEF Sound
<1>3. \A s \in new, r \in rows : s.key = r.key => r.last <= s.last
  BY <1>1 DEF Sound
<1> QED
  BY <1>2, <1>3, OverlaySound, OverlayOutlives

LEMMA NewNodeOutlives ==
  ASSUME now \in Times, NEW rows, Sound(rows), NEW k \in Keys, \A r \in rows : r.key # k
  PROVE  /\ Sound(OverlayNodes(rows, {NewNode(k, NumOf[k], now)}))
         /\ Outlives(rows, OverlayNodes(rows, {NewNode(k, NumOf[k], now)}))
<1>1. /\ NewNode(k, NumOf[k], now) \in NodeRows /\ NewNode(k, NumOf[k], now).key = k
      /\ NewNode(k, NumOf[k], now).num = NumOf[k] /\ NewNode(k, NumOf[k], now).last = now
  BY NumAssumption DEF NewNode, NodeRows, Times, TimesOrNull
<1>2. Sound({NewNode(k, NumOf[k], now)})
  BY <1>1 DEF Sound, Times
<1> QED
  BY <1>1, <1>2, OverlaySound, OverlayOutlives

LEMMA OutlivesOnward ==
  ASSUME NEW a, NEW b, NEW c, Sound(a), Sound(b), Sound(c), Outlives(a, b), Outlives(b, c)
  PROVE  Outlives(a, c)
<1> SUFFICES ASSUME NEW r \in a PROVE \E q \in c : q.num = r.num /\ r.last <= q.last
  BY DEF Outlives
<1>1. PICK s \in b : s.num = r.num /\ r.last <= s.last
  BY DEF Outlives
<1>2. PICK q \in c : q.num = s.num /\ s.last <= q.last
  BY DEF Outlives
<1>3. r.last \in Int /\ s.last \in Int /\ q.last \in Int
  BY DEF Sound, NodeRows, TimesOrNull
<1> QED
  BY <1>1, <1>2, <1>3

\* An envelope touches nodes with the hour it is filed in and leaves the others alone.
LEMMA FilingOutlives ==
  ASSUME now \in Times, Sound(node), NEW e \in Envelopes, File(e)
  PROVE  /\ Sound(node') /\ Outlives(node, node')
         /\ e.port = "NODEINFO" /\ e.usable =>
               \E r \in node' : r.num = NumOf[e.user] /\ r.last = now
<1>1. PICK yes \in BOOLEAN, t \in Past :
        LET rows == Flagged(node, e, yes) IN
        node' = CASE e.port = "NODEINFO" /\ e.usable -> Upsert(rows, e.user, t)
                  [] e.port = "POSITION" /\ e.usable -> TouchNum(rows, e.from, t)
                  [] OTHER -> rows
  BY DEF File, FileEnvelope, FileNode
<1> DEFINE rows == Flagged(node, e, yes)
<1>2. Sound(rows) /\ Outlives(node, rows) /\ now' = now
  BY FlaggedOutlives DEF File, FileEnvelope
<1> HIDE DEF rows
<1>3. e.user \in Keys
  BY EnvelopeAssumption DEF EnvelopeType
<1>4. CASE e.port = "NODEINFO" /\ e.usable
  <2> DEFINE found == {r \in rows : r.key = e.user}
  <2>1. node' = Upsert(rows, e.user, t)
    BY <1>1, <1>4 DEF rows
  <2>2. \A r \in node' : r.key = e.user => r.last = now
    BY <1>4 DEF File, Stamped
  <2>3. CASE found = {}
    <3>1. node' = OverlayNodes(rows, {NewNode(e.user, NumOf[e.user], t)})
      BY <2>1, <2>3 DEF Upsert
    <3>2. NewNode(e.user, NumOf[e.user], t) \in node'
      BY <3>1 DEF OverlayNodes
    <3>3. t = now
      BY <2>2, <3>2 DEF NewNode
    <3>4. Sound(node') /\ Outlives(rows, node')
      BY <1>2, <1>3, <2>3, <3>1, <3>3, NewNodeOutlives
    <3> QED
      BY <1>2, <2>2, <3>2, <3>3, <3>4, OutlivesOnward DEF NewNode
  <2>4. CASE found # {}
    <3>1. node' = OverlayNodes(rows, {Touched(r, t) : r \in found})
      BY <2>1, <2>4 DEF Upsert
    <3>2. PICK r \in found : TRUE
      BY <2>4
    <3>3. Touched(r, t) \in node'
      BY <3>1, <3>2 DEF OverlayNodes
    <3>4. Touched(r, t).key = e.user /\ Touched(r, t).last = t /\ Touched(r, t).num = NumOf[e.user]
      BY <1>2, <3>2 DEF Touched, Sound, NodeRows
    <3>5. t = now
      BY <2>2, <3>3, <3>4
    <3>6. Sound(node') /\ Outlives(rows, node')
      BY <1>2, <3>1, <3>5, TouchedOutlives
    <3> QED
      BY <1>2, <3>3, <3>4, <3>5, <3>6, OutlivesOnward
  <2> QED
    BY <2>3, <2>4
<1>5. CASE e.port = "POSITION" /\ e.usable
  <2> DEFINE found == {r \in rows : r.num = e.from}
  <2>1. node' = OverlayNodes(rows, {Touched(r, t) : r \in found})
    BY <1>1, <1>5 DEF rows, TouchNum
  <2>2. CASE found = {}
    <3>1. node' = rows
      BY <2>1, <2>2 DEF OverlayNodes
    <3> QED
      BY <1>2, <1>5, <3>1
  <2>3. CASE found # {}
    <3>1. PICK r \in found : TRUE
      BY <2>3
    <3>2. Touched(r, t) \in node'
      BY <2>1, <3>1 DEF OverlayNodes
    <3>3. Touched(r, t).num = e.from /\ Touched(r, t).last = t
      BY <1>2, <3>1 DEF Touched, Sound, NodeRows
    <3>4. t = now
      BY <1>5, <3>2, <3>3 DEF File, Stamped
    <3>5. Sound(node') /\ Outlives(rows, node')
      BY <1>2, <2>1, <3>4, TouchedOutlives
    <3> QED
      BY <1>2, <1>5, <3>5, OutlivesOnward
  <2> QED
    BY <2>2, <2>3
<1>6. CASE ~(e.port \in {"NODEINFO", "POSITION"} /\ e.usable)
  <2>1. node' = rows
    BY <1>1, <1>6 DEF rows
  <2> QED
    BY <1>2, <1>6, <2>1
<1> QED
  BY <1>4, <1>5, <1>6
LEMMA NodesToldStep ==
  ASSUME NodeInfosNameSender, FiledInv, NodesTold, [Next]_vars PROVE NodesTold'
<1> USE DEF NodesTold
<1>0. now \in Times /\ now \in Nat
  BY DEF FiledInv, LogRows, Times
<1>1. CASE \E e \in Envelopes : File(e)
  <2>1. PICK e \in Envelopes : File(e)
    BY <1>1
  <2>2. Sound(node') /\ Outlives(node, node') /\ now' = now
    BY <1>0, <2>1, FilingOutlives, FilingAdds
  <2>3. Sound(node)'
    BY <2>2 DEF Sound
  <2>4. ASSUME NEW p \in packet', PortOf[p.id] = "NODEINFO"
        PROVE  \E r \in node' : r.num = p.from /\ p.at <= r.last
    <3>1. CASE p \in packet
      <4>1. PICK q \in node : q.num = p.from /\ p.at <= q.last
        BY <2>4, <3>1
      <4>2. PICK r \in node' : r.num = q.num /\ q.last <= r.last
        BY <2>2 DEF Outlives
      <4>3. p.at \in Int /\ q.last \in Int /\ r.last \in Int
        BY <2>2, <3>1 DEF FiledInv, LogRows, PacketRows, Times, Sound, NodeRows, TimesOrNull
      <4> QED
        BY <4>1, <4>2, <4>3
    <3>2. CASE p \notin packet
      <4>1. p = [id |-> e.id, from |-> e.from, at |-> now] /\ e.id \in PacketIds
        BY <2>1, <3>2, FilingAdds
      <4>2. e.port = "NODEINFO" /\ e.usable /\ NumOf[e.user] = e.from
        BY <2>4, <4>1, EnvelopeAssumption DEF NodeInfosNameSender
      <4>3. PICK r \in node' : r.num = NumOf[e.user] /\ r.last = now
        BY <1>0, <2>1, <4>2, FilingOutlives
      <4> QED
        BY <1>0, <4>1, <4>2, <4>3
    <3> QED
      BY <3>1, <3>2
  <2> QED
    BY <2>3, <2>4
<1>2. CASE CleanUp
  <2>1. PICK c \in Past :
          /\ now' = now /\ packet' = {p \in packet : p.at >= c}
          /\ node' = {r \in node : r.last = NoTime \/ r.last >= c}
    BY <1>2 DEF CleanUp, Prune
  <2>2. \A p \in packet, r \in node : p.at >= c /\ p.at <= r.last => r.last >= c
    BY <1>0 DEF FiledInv, LogRows, PacketRows, Times, Sound, NodeRows, TimesOrNull, Past
  <2>3. Sound(node)'
    BY <2>1 DEF Sound
  <2> QED
    BY <2>1, <2>2, <2>3
<1>3. CASE Tick
  <2>1. now' = now + 1 /\ UNCHANGED <<node, packet>>
    BY <1>3 DEF Tick, TimePasses, tables
  <2>2. \A r \in node : r.last <= now'
    BY <1>0, <2>1 DEF Sound, NodeRows, TimesOrNull
  <2>3. Sound(node)'
    BY <2>1, <2>2 DEF Sound
  <2> QED
    BY <2>1, <2>3
<1>4. CASE Handle \/ UNCHANGED vars
  <2>1. UNCHANGED <<now, node, packet>>
    BY <1>4 DEF Handle, vars, tables
  <2> QED
    BY <2>1 DEF Sound
<1> QED
  BY <1>1, <1>2, <1>3, <1>4 DEF Next

LEMMA NodesToldHolds == NodeInfosNameSender /\ Spec => []NodesTold
<1> SUFFICES ASSUME NodeInfosNameSender PROVE Spec => []NodesTold
  OBVIOUS
<1>1. Init => NodesTold
  <2> SUFFICES ASSUME Init PROVE NodesTold
    OBVIOUS
  <2>1. node = InitialNodes /\ packet = {} /\ now = 1
    BY DEF Init, ArchiveInit, DBInit
  <2> QED
    BY <2>1, InitialAssumption DEF NodesTold, Sound
<1>2. FiledInv /\ NodesTold /\ [Next]_vars => NodesTold'
  BY NodesToldStep
<1> QED
  BY <1>1, <1>2, FiledInvHolds, PTL DEF Spec

-----------------------------------------------------------------------------
(* The windows of time.                                                     *)

LEMMA LeastOf ==
  ASSUME NEW T \in SUBSET Nat, T # {}
  PROVE  \E x \in T : \A y \in T : x <= y
<1>1. PICK x \in T : \A y \in T : <<y, x>> \notin OpToRel(<, Nat)
  BY WFMin, NatLessThanWellFounded, Zenon
<1>2. \A y \in T : ~(y < x)
  BY <1>1, Zenon DEF OpToRel
<1> QED
  BY <1>2

LEMMA NewestIsLatest ==
  ASSUME NEW rows, rows # {}, \A r \in rows : r.at \in Times
  PROVE  Newest(rows) \in Times /\ \A r \in rows : r.at <= Newest(rows)
<1> DEFINE T == {MaxTime - r.at : r \in rows}
<1>1. T \in SUBSET Nat /\ T # {}
  BY TimeAssumption DEF Times
<1> HIDE DEF T
<1>2. PICK x \in T : \A y \in T : x <= y
  BY <1>1, LeastOf
<1>3. PICK q \in rows : x = MaxTime - q.at
  BY DEF T
<1>4. ASSUME NEW r \in rows PROVE r.at <= q.at
  <2>1. MaxTime - q.at <= MaxTime - r.at
    BY <1>2, <1>3 DEF T
  <2> QED
    BY <2>1, TimeAssumption DEF Times
<1>5. \E t \in {r.at : r \in rows} : \A r \in rows : r.at <= t
  BY <1>4
<1> DEFINE newest == CHOOSE t \in {r.at : r \in rows} : \A r \in rows : r.at <= t
<1>6. newest \in {r.at : r \in rows} /\ \A r \in rows : r.at <= newest
  BY <1>5
<1> QED
  BY <1>6 DEF Newest

\* A node's row of the ranking has a sighting for each packet in it, in the window or
\* behind its end.
LEMMA TopIsCovered == FiledInv => TopSeenCoversSent
<1> SUFFICES ASSUME FiledInv, NEW l \in Lengths, NEW r \in TopNodes("hour", l),
                    \A p \in packet : p.from = r.node.num => p.id \notin FiledAgain,
                    ~(Newest(seen) > Newest(packet))
             PROVE  ~(r.sent > r.seen)
  BY DEF TopSeenCoversSent
<1>1. PICK n \in node :
        r = [node |-> n,
             sent |-> Cardinality({p \in packet : /\ p.at >= Newest(packet) - Hours("hour", l)
                                                  /\ p.from = n.num}),
             seen |-> Cardinality({s \in seen : /\ s.at >= Newest(seen) - Hours("hour", l)
                                                /\ \E p \in GetPacket(s.id) : p.from = n.num})]
  BY DEF TopNodes
<1> DEFINE P == {p \in packet : p.at >= Newest(packet) - Hours("hour", l) /\ p.from = n.num}
           S == {s \in seen : /\ s.at >= Newest(seen) - Hours("hour", l)
                              /\ \E p \in GetPacket(s.id) : p.from = n.num}
<1>2. r.node = n /\ r.sent = Cardinality(P) /\ r.seen = Cardinality(S)
  BY <1>1
<1>3. IsFiniteSet(P) /\ IsFiniteSet(S) /\ Cardinality(P) \in Nat /\ Cardinality(S) \in Nat
  <2>1. P \subseteq packet /\ S \subseteq seen
    OBVIOUS
  <2> HIDE DEF P, S
  <2> QED
    BY <2>1, FS_Subset, FS_CardinalityType DEF FiledInv, LogRows
<1>4. \A p, q \in P : p.id = q.id => p = q
  BY DEF FiledInv, LogRows
<1>5. \A p \in P : \E s \in S : s.id = p.id
  <2> SUFFICES ASSUME NEW p \in P PROVE \E s \in S : s.id = p.id
    OBVIOUS
  <2>1. PICK s \in seen : s.id = p.id /\ p.at <= s.at
    BY <1>2 DEF FiledInv, PacketGoesFirst
  <2>2. Newest(packet) \in Nat /\ Newest(seen) \in Nat /\ Hours("hour", l) \in Nat
        /\ p.at \in Nat /\ s.at \in Nat
    <3>1. \A x \in packet \cup seen : x.at \in Times
      BY DEF FiledInv, LogRows, PacketRows, SeenRows
    <3>2. Newest(packet) \in Times /\ Newest(seen) \in Times
      BY <3>1, NewestIsLatest
    <3>3. l * 1 \in Nat
      BY ReadsAssumption
    <3> QED
      BY <3>1, <3>2, <3>3 DEF Times, Hours
  <2>3. s.at >= Newest(seen) - Hours("hour", l)
    BY <2>1, <2>2
  <2>4. p \in GetPacket(s.id) /\ p.from = n.num
    BY <2>1 DEF GetPacket
  <2> QED
    BY <2>1, <2>3, <2>4
<1> HIDE DEF P, S
<1>6. Cardinality(P) <= Cardinality(S) + Cardinality({})
  BY <1>3, <1>4, <1>5, CoveredByRows, FS_EmptySet
<1> QED
  BY <1>3, <1>6, <1>2, FS_EmptySet

LEMMA ChannelsAreCovered == FiledInv => ChannelsCoverStats
<1> SUFFICES ASSUME FiledInv, NEW l \in Lengths, NEW o \in Offsets, NEW p \in packet,
                    o >= 0, p.at >= now - l, ChannelOf[p.id] # NoChannel
             PROVE  \E c \in ChannelsInPeriod("hour", l, o) :
                      Period("hour", p.at) \in
                        DOMAIN PacketStats("hour", l, [channel |-> c, from |-> Unset, to |-> Unset], Unset)
  BY DEF ChannelsCoverStats
<1> DEFINE c == ChannelOf[p.id]
           f == [channel |-> c, from |-> Unset, to |-> Unset]
<1>1. p.at \in Nat /\ now \in Nat /\ l \in Nat /\ o \in Nat
  BY ReadsAssumption DEF FiledInv, LogRows, PacketRows, Times
<1>2. Hours("hour", l) = l
  BY <1>1 DEF Hours
<1>3. c \in ChannelsInPeriod("hour", l, o)
  BY <1>1, <1>2 DEF ChannelsInPeriod
<1>4. Selects(f, p)
  BY DEF Selects
<1>5. p \in {q \in packet : /\ q.at >= now - Hours("hour", l) /\ Selects(f, q)
                            /\ Unset # Unset => PortOf[q.id] = Unset}
  BY <1>2, <1>4
<1>6. Period("hour", p.at) \in DOMAIN PacketStats("hour", l, f, Unset)
  BY <1>5 DEF PacketStats
<1> QED
  BY <1>3, <1>6

LEMMA DaysOfWindow ==
  ASSUME NEW D \in Nat \ {0}, NEW a \in Int, NEW b \in Int, NEW l \in Nat,
         b - l * D <= a, a <= b
  PROVE  a \div D \in (b \div D - l)..(b \div D)
OBVIOUS

LEMMA DaysAreCounted == FiledInv => StatsSpan
<1> SUFFICES ASSUME FiledInv, NEW l \in Lengths
             PROVE  Cardinality(DOMAIN PacketStats("day", l,
                      [channel |-> Unset, from |-> Unset, to |-> Unset], Unset)) <= l + 1
  BY DEF StatsSpan
<1> DEFINE days == DOMAIN PacketStats("day", l,
                      [channel |-> Unset, from |-> Unset, to |-> Unset], Unset)
<1>1. /\ Day \in Nat \ {0} /\ l \in Nat /\ now \in Nat /\ Hours("day", l) = l * Day
      /\ now \div Day \in Int
  BY ReadsAssumption, QueryAssumption DEF FiledInv, LogRows, Times, Hours
<1>2. days \subseteq (now \div Day - l)..(now \div Day)
  <2> SUFFICES ASSUME NEW p \in packet, p.at >= now - Hours("day", l)
               PROVE  Period("day", p.at) \in (now \div Day - l)..(now \div Day)
    BY DEF PacketStats
  <2>1. p.at \in Int /\ p.at <= now /\ now - l * Day <= p.at
    BY <1>1 DEF FiledInv, LogRows, HoursKnown, PacketRows, Times
  <2> QED
    BY <1>1, <2>1, DaysOfWindow DEF Period
<1> HIDE DEF days
<1>3. /\ IsFiniteSet((now \div Day - l)..(now \div Day))
      /\ Cardinality((now \div Day - l)..(now \div Day)) = l + 1
  <2>1. now \div Day - l \in Int /\ ~(now \div Day - l > now \div Day)
        /\ now \div Day - (now \div Day - l) + 1 = l + 1
    BY <1>1
  <2> QED
    BY <1>1, <2>1, FS_Interval
<1>4. Cardinality(days) <= l + 1
  BY <1>2, <1>3, FS_Subset
<1> QED
  BY <1>4 DEF days

LEMMA InformedAreListed == FiledInv /\ NodesTold => InformedIsActive
<1> SUFFICES ASSUME FiledInv, NodesTold, NEW l \in Lengths, NEW p \in packet,
                    PortOf[p.id] = "NODEINFO", p.at > now - l * Day
             PROVE  \E r \in GetNodes(p.from, l) : r.num = p.from
  BY DEF InformedIsActive
<1>1. PICK r \in node : r.num = p.from /\ p.at <= r.last
  BY DEF NodesTold
<1>2. p.at \in Nat \ {0} /\ r.last \in Nat /\ now - l * Day \in Int
  BY ReadsAssumption, QueryAssumption
     DEF FiledInv, LogRows, PacketRows, Times, NodesTold, Sound, NodeRows, TimesOrNull
<1>3. r.last > now - l * Day /\ r.last # NoTime
  BY <1>1, <1>2 DEF NoTime
<1> QED
  BY <1>1, <1>3 DEF GetNodes

\* The windows that the queries take, each from a clock of its own, fit together, for
\* any lengths of window, of day and of the retention period, where node infos decode
\* and name their sender.
THEOREM ReadsWindowsAgree == NodeInfosNameSender /\ Spec => []WindowsAgree
<1> SUFFICES ASSUME NodeInfosNameSender PROVE Spec => []WindowsAgree
  OBVIOUS
<1>1. FiledInv /\ NodesTold => WindowsAgree
  BY TopIsCovered, ChannelsAreCovered, DaysAreCounted, InformedAreListed DEF WindowsAgree
<1> QED
  BY <1>1, FiledInvHolds, NodesToldHolds, PTL

-----------------------------------------------------------------------------
(* The paths that the traceroute pages draw.                                *)

\* What a request for a traceroute has read is of that traceroute, however the two
\* reads are torn apart.
PathRead ==
  req.kind = "trace" =>
    /\ \A t \in req.got[1] : t \in TraceRows /\ t.id = req.arg
    /\ Len(req.got) = 2 => \A p \in req.got[2] : p \in PacketRows /\ p.id = req.arg

LEMMA PathReadStep ==
  ASSUME FiledInv, RequestShape, PathRead, [Next]_vars PROVE PathRead'
<1> USE DEF PathRead
<1>1. CASE (\E e \in Envelopes : File(e)) \/ CleanUp \/ Tick
  <2>1. PICK w : Note(w) /\ Between
    BY <1>1 DEF File, CleanUp, Tick
  <2>2. req' = req \/ (req'.kind = req.kind /\ req'.arg = req.arg /\ req'.got = req.got)
    BY <2>1, OthersNote
  <2> QED
    BY <2>2
<1>2. CASE \E i \in PacketIds : ReadTraceroute(i)
  <2>1. PICK i \in PacketIds :
          req' = [kind |-> "trace", arg |-> i, got |-> <<GetTraceroute(i)>>, since |-> {}]
    BY <1>2 DEF ReadTraceroute, Ask
  <2>2. \A t \in GetTraceroute(i) : t \in TraceRows /\ t.id = i
    BY DEF GetTraceroute, FiledInv, LogRows
  <2> QED
    BY <2>1, <2>2
<1>3. CASE ReadPacket
  <2>1. /\ req.kind = "trace" /\ req.got = <<req.got[1]>>
        /\ req' = [req EXCEPT !.got = <<req.got[1], GetPacket(req.arg)>>]
    BY <1>3, SecondRead DEF ReadPacket
  <2>2. req'.kind = req.kind /\ req'.arg = req.arg
        /\ req'.got = <<req.got[1], GetPacket(req.arg)>>
    BY <2>1 DEF RequestShape
  <2>3. \A p \in GetPacket(req.arg) : p \in PacketRows /\ p.id = req.arg
    BY DEF GetPacket, FiledInv, LogRows
  <2> QED
    BY <2>1, <2>2, <2>3
<1>4. CASE (\E c \in Counts : CountPackets(c)) \/ ReadTraceroutes \/ CountSeen
           \/ ReadNeighbors \/ Answer
  <2>1. req'.kind # "trace"
    BY <1>4 DEF CountPackets, ReadTraceroutes, CountSeen, ReadNeighbors, Answer, Ask,
       Got, NoRequest, RequestShape
  <2> QED
    BY <2>1
<1>5. CASE UNCHANGED vars
  BY <1>5 DEF vars
<1> QED
  BY <1>1, <1>2, <1>3, <1>4, <1>5 DEF Next, Handle

LEMMA PathReadHolds == Spec => []PathRead
<1>1. Init => PathRead
  BY DEF Init, ArchiveInit, DBInit, PathRead, NoRequest
<1> QED
  BY <1>1, PathReadStep, FiledInvHolds, ShapeHolds, PTL DEF Spec

LEMMA StepsOfPrepend ==
  ASSUME NEW S, NEW path \in Seq(S), path # <<>>, NEW a \in S
  PROVE  Steps(<<a>> \o path) = {<<a, Head(path)>>} \cup Steps(path)
<1> DEFINE longer == <<a>> \o path
<1>1. /\ Len(path) \in Nat \ {0} /\ Len(longer) - 1 = Len(path)
      /\ longer[1] = a /\ Head(path) = path[1]
      /\ \A i \in 1..Len(path) : longer[i + 1] = path[i]
  OBVIOUS
<1> HIDE DEF longer
<1>2. <<a, Head(path)>> \in Steps(longer)
  <2>1. 1 \in 1..Len(path) /\ longer[1 + 1] = path[1]
    BY <1>1
  <2> QED
    BY <1>1, <2>1 DEF Steps
<1>3. Steps(path) \subseteq Steps(longer)
  <2> SUFFICES ASSUME NEW i \in 1..Len(path) - 1 PROVE <<path[i], path[i + 1]>> \in Steps(longer)
    BY DEF Steps
  <2>1. i \in 1..Len(path) /\ i + 1 \in 1..Len(path)
    BY <1>1
  <2>2. <<longer[i + 1], longer[(i + 1) + 1]>> = <<path[i], path[i + 1]>>
    BY <1>1, <2>1
  <2> QED
    BY <1>1, <2>1, <2>2 DEF Steps
<1>4. Steps(longer) \subseteq {<<a, Head(path)>>} \cup Steps(path)
  <2> SUFFICES ASSUME NEW i \in 1..Len(path)
               PROVE  <<longer[i], longer[i + 1]>> \in {<<a, Head(path)>>} \cup Steps(path)
    BY <1>1 DEF Steps
  <2>1. CASE i = 1
    BY <1>1, <2>1
  <2>2. CASE i # 1
    <3>1. i - 1 \in 1..Len(path) - 1 /\ (i - 1) + 1 = i
      BY <1>1, <2>2
    <3>2. longer[i] = path[i - 1] /\ longer[i + 1] = path[(i - 1) + 1]
      BY <1>1, <3>1
    <3> QED
      BY <3>1, <3>2 DEF Steps
  <2> QED
    BY <2>1, <2>2
<1> QED
  BY <1>2, <1>3, <1>4 DEF longer

LEMMA EndsOfAppend ==
  ASSUME NEW S, NEW path \in Seq(S), path # <<>>, NEW b \in S
  PROVE  Head(Append(path, b)) = path[1] /\ Last(Append(path, b)) = b
<1> DEFINE longer == Append(path, b)
<1>1. /\ longer \in Seq(S) /\ longer # <<>> /\ Len(longer) = Len(path) + 1
      /\ longer[Len(path) + 1] = b /\ longer[1] = path[1]
  OBVIOUS
<1> HIDE DEF longer
<1>2. Head(longer) = path[1] /\ Last(longer) = b
  BY <1>1 DEF Last
<1> QED
  BY <1>2 DEF longer

\* With its ends put to it where they are missing, a route leads from the one to the
\* other, has no loop that it had not before, and has the edges it has with the ends
\* put to it in any case.
LEMMA WithEndsIsSound ==
  ASSUME NEW S, NEW path \in Seq(S), path # <<>>, NEW a \in S, NEW b \in S
  PROVE  LET w == WithEnds(path, a, b) IN
         /\ Head(w) = a /\ Last(w) = b /\ AddsNoLoop(w, path)
         /\ NoLoop(Steps(w)) = NoLoop(Steps(Append(<<a>> \o path, b)))
<1> DEFINE begun == IF Head(path) = a THEN path ELSE <<a>> \o path
           longer == <<a>> \o path
           w == IF Last(begun) = b THEN begun ELSE Append(begun, b)
<1>1. /\ longer \in Seq(S) /\ longer # <<>> /\ longer[1] = a
      /\ Len(longer) = Len(path) + 1 /\ Len(path) \in Nat \ {0}
      /\ longer[Len(path) + 1] = path[Len(path)] /\ Head(path) = path[1]
  OBVIOUS
<1>2. Steps(longer) = {<<a, Head(path)>>} \cup Steps(path)
  BY StepsOfPrepend
<1> HIDE DEF longer
<1>3. Last(longer) = Last(path)
  BY <1>1 DEF Last
<1>4. /\ begun \in Seq(S) /\ begun # <<>> /\ begun[1] = a /\ Last(begun) = Last(longer)
      /\ AddsNoLoop(begun, path) /\ NoLoop(Steps(begun)) = NoLoop(Steps(longer))
  <2>1. CASE Head(path) = a
    <3>1. begun = path
      BY <2>1
    <3> HIDE DEF begun
    <3> QED
      BY <1>1, <1>2, <1>3, <2>1, <3>1 DEF AddsNoLoop, NoLoop
  <2>2. CASE Head(path) # a
    <3>1. begun = longer
      BY <2>2 DEF longer
    <3>2. AddsNoLoop(longer, path)
      <4>1. \A s \in Steps(longer) : s = <<a, Head(path)>> \/ s \in Steps(path)
        BY <1>2
      <4>2. <<a, Head(path)>>[1] # <<a, Head(path)>>[2]
        BY <2>2
      <4> QED
        BY <4>1, <4>2 DEF AddsNoLoop
    <3> HIDE DEF begun
    <3> QED
      BY <1>1, <3>1, <3>2
  <2> QED
    BY <2>1, <2>2
<1>5. WithEnds(path, a, b) = w
  BY DEF WithEnds
<1>6. Steps(Append(longer, b)) = Steps(longer) \cup {<<Last(longer), b>>}
  BY <1>1, StepsOfAppend
<1> HIDE DEF begun
<1>7. CASE Last(begun) = b
  <2>1. w = begun
    BY <1>7
  <2>2. Head(begun) = a
    BY <1>4
  <2>3. NoLoop(Steps(Append(longer, b))) = NoLoop(Steps(longer))
    BY <1>4, <1>6, <1>7 DEF NoLoop
  <2> QED
    BY <1>4, <1>5, <1>7, <2>1, <2>2, <2>3 DEF longer
<1>8. CASE Last(begun) # b
  <2>1. w = Append(begun, b)
    BY <1>8
  <2>2. Head(w) = a /\ Last(w) = b
    BY <1>4, <2>1, EndsOfAppend
  <2>3. Steps(w) = Steps(begun) \cup {<<Last(begun), b>>}
    BY <1>4, <2>1, StepsOfAppend
  <2> HIDE DEF w
  <2>4. AddsNoLoop(w, path)
    BY <1>4, <1>8, <2>3 DEF AddsNoLoop
  <2>5. NoLoop(Steps(w)) = NoLoop(Steps(Append(longer, b)))
    BY <1>4, <1>6, <2>3 DEF NoLoop
  <2> QED
    BY <1>5, <2>2, <2>4, <2>5 DEF longer
<1> QED
  BY <1>7, <1>8

\* The path that is drawn of a row.
LEMMA PathOfRow ==
  ASSUME NEW t \in TraceRows, NEW p \in PacketRows, p.id = t.id, ~Undecodable({t})
  PROVE  LET path == GraphPath(t, p)
             recorded == <<p.from>> \o RouteOf[t.id][t.gw]
         IN  /\ Head(path) = p.from
             /\ ToSet(path) \subseteq
                  {p.from, ToOf[p.id], t.gw} \cup ToSet(RouteOf[t.id][t.gw])
             /\ t.done => path = Append(recorded, ToOf[p.id]) /\ Last(path) = ToOf[p.id]
             /\ ~t.done => AddsNoLoop(path, recorded)
<1> DEFINE route == RouteOf[t.id][t.gw]
           begun == <<p.from>> \o route
           end == IF t.done THEN ToOf[p.id] ELSE t.gw
<1>1. route \in Seq(Nums) /\ t.gw \in Nums /\ p.from \in Nums /\ ToOf[p.id] \in Nums
  BY QueryAssumption DEF Routes, Undecodable, TraceRows, PacketRows
<1>2. GraphPath(t, p) = IF t.done \/ Last(begun) # t.gw THEN Append(begun, end) ELSE begun
  BY DEF GraphPath
<1> HIDE DEF route
<1>3. begun \in Seq(Nums) /\ begun # <<>> /\ begun[1] = p.from /\ Head(begun) = p.from
  BY <1>1
<1>4. ToSet(begun) \subseteq {p.from} \cup ToSet(route)
  <2> SUFFICES ASSUME NEW i \in DOMAIN begun PROVE begun[i] \in {p.from} \cup ToSet(route)
    BY DEF ToSet
  <2>1. i = 1 \/ (i - 1 \in DOMAIN route /\ begun[i] = route[i - 1])
    BY <1>1
  <2> HIDE DEF begun
  <2> QED
    BY <1>3, <2>1 DEF ToSet
<1> HIDE DEF begun
<1>5. end \in Nums /\ end \in {ToOf[p.id], t.gw}
  BY <1>1
<1>6. CASE t.done \/ Last(begun) # t.gw
  <2> DEFINE path == Append(begun, end)
  <2>1. Head(path) = p.from /\ Last(path) = end
    BY <1>3, <1>5, EndsOfAppend
  <2>2. ToSet(path) \subseteq ToSet(begun) \cup {end}
    <3> SUFFICES ASSUME NEW i \in DOMAIN path PROVE path[i] \in ToSet(begun) \cup {end}
      BY DEF ToSet
    <3>1. path[i] = end \/ (i \in DOMAIN begun /\ path[i] = begun[i])
      BY <1>3, <1>5
    <3> HIDE DEF path
    <3> QED
      BY <3>1 DEF ToSet
  <2>3. ~t.done => AddsNoLoop(path, begun)
    <3>1. Steps(path) = Steps(begun) \cup {<<Last(begun), end>>}
      BY <1>3, <1>5, StepsOfAppend
    <3>2. ~t.done => Last(begun) # end
      BY <1>6
    <3> HIDE DEF path, end
    <3> QED
      BY <3>1, <3>2 DEF AddsNoLoop
  <2>4. t.done => path = Append(begun, ToOf[p.id]) /\ Last(path) = ToOf[p.id]
    BY <2>1
  <2>5. ToSet(path) \subseteq {p.from, ToOf[p.id], t.gw} \cup ToSet(route)
    BY <1>4, <1>5, <2>2
  <2>6. GraphPath(t, p) = path
    BY <1>2, <1>6
  <2> HIDE DEF path
  <2> QED
    BY <2>1, <2>3, <2>4, <2>5, <2>6 DEF begun, route
<1>7. CASE ~t.done /\ Last(begun) = t.gw
  <2>1. GraphPath(t, p) = begun
    BY <1>2, <1>7
  <2>2. AddsNoLoop(begun, begun)
    BY DEF AddsNoLoop
  <2> QED
    BY <1>3, <1>4, <1>7, <2>1, <2>2 DEF begun, route
<1> QED
  BY <1>6, <1>7

\* The graph and the JSON answer draw sound paths, and the same of the same rows, for
\* any routes that decode, whatever the cleanup took and whatever was filed between
\* the two reads.
THEOREM ReadsDrawSoundPaths == Spec => []PathsAreSound
<1>1. PathRead => PathsAreSound
  <2> SUFFICES ASSUME PathRead, Shown PROVE PathsAreSound
    BY DEF PathsAreSound, GraphIsSound, WinningPathsAreSound, GraphShowsWinner
  <2> DEFINE rows == req.got[1]
             p == ShownPacket
             Route(t) == RouteOf[t.id][t.gw]
             Back(t) == BackOf[t.id][t.gw]
  <2>1. \A t \in rows : t \in TraceRows /\ t.id = req.arg /\ ~Undecodable({t})
    BY DEF Shown, Answered, PathRead, Undecodable
  <2>2. p \in PacketRows /\ p.id = req.arg
    <3>1. p \in req.got[2]
      BY DEF Shown, ShownPacket
    <3> QED
      BY <3>1 DEF Shown, Answered, PathRead
  <2> HIDE DEF p
  <2>3. p.from \in Nums /\ ToOf[p.id] \in Nums
    BY <2>2, QueryAssumption DEF PacketRows
  <2>4. \A t \in rows : Route(t) \in Seq(Nums) /\ Back(t) \in Seq(Nums)
    <3> SUFFICES ASSUME NEW t \in rows PROVE Route(t) \in Seq(Nums) /\ Back(t) \in Seq(Nums)
      OBVIOUS
    <3>1. t \in TraceRows /\ ~Undecodable({t})
      BY <2>1
    <3>2. Route(t) # Garbled /\ t.id \in PacketIds /\ t.gw \in Nums
      BY <3>1 DEF Undecodable, TraceRows
    <3> QED
      BY <3>2, QueryAssumption DEF Routes
  <2>5. ASSUME NEW t \in rows
        PROVE  LET path == GraphPath(t, p)
                   recorded == <<p.from>> \o Route(t)
               IN  /\ Head(path) = p.from
                   /\ ToSet(path) \subseteq LookedUp(rows, p)
                   /\ t.done => path = Append(recorded, ToOf[p.id]) /\ Last(path) = ToOf[p.id]
                   /\ ~t.done => AddsNoLoop(path, recorded)
    <3> DEFINE path == GraphPath(t, p)
               recorded == <<p.from>> \o Route(t)
    <3>1. /\ Head(path) = p.from
          /\ ToSet(path) \subseteq {p.from, ToOf[p.id], t.gw} \cup ToSet(Route(t))
          /\ t.done => path = Append(recorded, ToOf[p.id]) /\ Last(path) = ToOf[p.id]
          /\ ~t.done => AddsNoLoop(path, recorded)
      BY <2>1, <2>2, PathOfRow
    <3>2. {p.from, ToOf[p.id], t.gw} \cup ToSet(Route(t)) \subseteq LookedUp(rows, p)
      BY DEF LookedUp
    <3> HIDE DEF path, recorded
    <3> QED
      BY <3>1, <3>2 DEF path, recorded
  <2>6. ASSUME NEW t \in rows, t.done, Route(t) # <<>>
        PROVE  LET w == WithEnds(Route(t), p.from, ToOf[p.id]) IN
               /\ w \in WinningForward(rows, p)
               /\ Head(w) = p.from /\ Last(w) = ToOf[p.id] /\ AddsNoLoop(w, Route(t))
               /\ NoLoop(Steps(w)) = NoLoop(Steps(GraphPath(t, p)))
    <3> DEFINE w == WithEnds(Route(t), p.from, ToOf[p.id])
               path == Append(<<p.from>> \o Route(t), ToOf[p.id])
    <3>1. w \in WinningForward(rows, p)
      BY <2>6 DEF WinningForward
    <3>2. /\ Head(w) = p.from /\ Last(w) = ToOf[p.id] /\ AddsNoLoop(w, Route(t))
          /\ NoLoop(Steps(w)) = NoLoop(Steps(path))
      BY <2>3, <2>4, <2>6, WithEndsIsSound
    <3>3. GraphPath(t, p) = path
      BY <2>5, <2>6
    <3> HIDE DEF w, path
    <3> QED
      BY <3>1, <3>2, <3>3 DEF w
  <2>7. ASSUME NEW t \in rows, t.done, Back(t) # <<>>
        PROVE  LET w == WithEnds(Back(t), ToOf[p.id], p.from) IN
               Head(w) = ToOf[p.id] /\ Last(w) = p.from /\ AddsNoLoop(w, Back(t))
    BY <2>3, <2>4, <2>7, WithEndsIsSound
  <2> HIDE DEF Route, Back
  <2>8. /\ Drawn(rows) \subseteq rows
        /\ (\E t \in rows : t.done) =>
             \E t \in Drawn(rows) : {u \in Drawn(rows) : u.done} = {t}
    <3> DEFINE replies == {t \in rows : t.done}
    <3>1. CASE replies = {}
      BY <3>1 DEF Drawn
    <3>2. CASE replies # {}
      <4>1. \E t \in replies : \A u \in replies : t.at <= u.at
        <5> DEFINE times == {t.at : t \in replies}
        <5>1. times \in SUBSET Nat /\ times # {}
          <6>1. \A t \in rows : t.at \in Nat
            <7> SUFFICES ASSUME NEW t \in rows PROVE t.at \in Nat
              OBVIOUS
            <7>1. t \in TraceRows
              BY <2>1
            <7> QED
              BY <7>1, TimeAssumption DEF TraceRows, Times
          <6> QED
            BY <3>2, <6>1
        <5>2. PICK x \in times : \A y \in times : x <= y
          BY <5>1, LeastOf
        <5> QED
          BY <5>2
      <4> DEFINE first == CHOOSE t \in replies : \A u \in replies : t.at <= u.at
      <4>2. first \in rows /\ first.done
        BY <4>1
      <4>3. Drawn(rows) = (rows \ replies) \cup {first}
        BY <3>2 DEF Drawn
      <4> HIDE DEF first
      <4>4. {u \in Drawn(rows) : u.done} = {first}
        BY <4>2, <4>3
      <4> QED
        BY <4>2, <4>3, <4>4
    <3> QED
      BY <3>1, <3>2
  <2>9. GraphIsSound
    <3> DEFINE replies == {t \in Drawn(rows) : t.done}
    <3>1. \A path \in GraphPaths(rows, p) :
            Head(path) = p.from /\ ToSet(path) \subseteq LookedUp(rows, p)
      BY <2>5, <2>8 DEF GraphPaths
    <3>2. (\E t \in rows : t.done) => \E t \in replies : replies = {t}
      BY <2>8
    <3>3. \A t \in replies : Last(GraphPath(t, p)) = ToOf[p.id]
      BY <2>5, <2>8
    <3>4. \A t \in Drawn(rows) \ replies :
            AddsNoLoop(GraphPath(t, p), <<p.from>> \o RouteOf[t.id][t.gw])
      BY <2>5, <2>8 DEF Route
    <3> QED
      BY <3>1, <3>2, <3>3, <3>4 DEF GraphIsSound, p
  <2>10. WinningPathsAreSound
    <3>1. \A w \in WinningForward(rows, p) :
            /\ Head(w) = p.from /\ Last(w) = ToOf[p.id]
            /\ \E t \in rows : t.done /\ AddsNoLoop(w, RouteOf[t.id][t.gw])
      BY <2>6 DEF WinningForward, Route
    <3>2. \A w \in WinningReverse(rows, p) :
            /\ Head(w) = ToOf[p.id] /\ Last(w) = p.from
            /\ \E t \in rows : t.done /\ AddsNoLoop(w, BackOf[t.id][t.gw])
      BY <2>7 DEF WinningReverse, Back
    <3> QED
      BY <3>1, <3>2 DEF WinningPathsAreSound, p
  <2>11. GraphShowsWinner
    BY <2>6, <2>8 DEF GraphShowsWinner, Route, p
  <2> QED
    BY <2>9, <2>10, <2>11 DEF PathsAreSound
<1> QED
  BY <1>1, PathReadHolds, PTL
=============================================================================
