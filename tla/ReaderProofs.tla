---------------------------- MODULE ReaderProofs ----------------------------
(***************************************************************************)
(* The generator implements Uplink for any messages, keys, skip lists,      *)
(* number of topics, lost connections and restarts.                        *)
(***************************************************************************)
EXTENDS MqttReader, WellFoundedInduction, TLAPS

Handed == [n : 1..MaxSent, msg : Messages, how : Outcomes]

ReaderShape == inbox \in Seq(Numbered) /\ got \in Seq(Handed) /\ sent \in 0..MaxSent

-----------------------------------------------------------------------------
(* Numbers and the sequence operators.                                      *)

LEMMA NumbersOfSeq ==
  ASSUME NEW S, NEW s \in Seq(S)
  PROVE  /\ Numbers(s) \in Seq({e.n : e \in S}) /\ Len(Numbers(s)) = Len(s)
         /\ \A i \in 1..Len(s) : Numbers(s)[i] = s[i].n
<1>1. Len(s) \in Nat /\ DOMAIN s = 1..Len(s) /\ \A i \in 1..Len(s) : s[i] \in S
  OBVIOUS
<1>2. \A i \in 1..Len(s) : s[i].n \in {e.n : e \in S}
  BY <1>1
<1>3. Numbers(s) = [i \in 1..Len(s) |-> s[i].n]
  BY <1>1 DEF Numbers
<1> QED
  BY <1>1, <1>2, <1>3

LEMMA NumbersOfAppend ==
  ASSUME NEW S, NEW s \in Seq(S), NEW e \in S
  PROVE  Numbers(Append(s, e)) = Append(Numbers(s), e.n)
<1>1. Append(s, e) \in Seq(S) /\ Len(Append(s, e)) = Len(s) + 1
  OBVIOUS
<1>2. \A i \in 1..Len(s) + 1 : Append(s, e)[i] = IF i <= Len(s) THEN s[i] ELSE e
  OBVIOUS
<1> DEFINE a == Append(s, e)
           N == {x.n : x \in S}
<1>3. Numbers(a) \in Seq(N) /\ Len(Numbers(a)) = Len(s) + 1
      /\ \A i \in 1..Len(s) + 1 : Numbers(a)[i] = a[i].n
  BY <1>1, NumbersOfSeq
<1>4. Numbers(s) \in Seq(N) /\ Len(Numbers(s)) = Len(s)
      /\ \A i \in 1..Len(s) : Numbers(s)[i] = s[i].n
  BY NumbersOfSeq
<1>5. e.n \in N
  OBVIOUS
<1>6. Append(Numbers(s), e.n) \in Seq(N) /\ Len(Append(Numbers(s), e.n)) = Len(s) + 1
  BY <1>4, <1>5
<1>7. \A i \in 1..Len(s) + 1 : Numbers(a)[i] = Append(Numbers(s), e.n)[i]
  BY <1>2, <1>3, <1>4, <1>5
<1> HIDE DEF a, N
<1> QED
  BY <1>3, <1>6, <1>7 DEF a

LEMMA NumbersOfTail ==
  ASSUME NEW S, NEW s \in Seq(S), s # <<>>
  PROVE  /\ Numbers(s) # <<>> /\ Head(Numbers(s)) = Head(s).n
         /\ Numbers(Tail(s)) = Tail(Numbers(s))
         /\ Tail(Numbers(s)) = SubSeq(Numbers(s), 2, Len(Numbers(s)))
         /\ 1 \in 1..Len(Numbers(s))
<1> DEFINE N == {x.n : x \in S}
<1>1. Tail(s) \in Seq(S) /\ Len(Tail(s)) = Len(s) - 1 /\ Len(s) \in Nat \ {0}
      /\ \A i \in 1..Len(s) - 1 : Tail(s)[i] = s[i + 1]
  OBVIOUS
<1>2. Numbers(s) \in Seq(N) /\ Len(Numbers(s)) = Len(s)
      /\ \A i \in 1..Len(s) : Numbers(s)[i] = s[i].n
  BY NumbersOfSeq
<1>3. Numbers(Tail(s)) \in Seq(N) /\ Len(Numbers(Tail(s))) = Len(s) - 1
      /\ \A i \in 1..Len(s) - 1 : Numbers(Tail(s))[i] = Tail(s)[i].n
  BY <1>1, NumbersOfSeq
<1> HIDE DEF N
<1>4. Numbers(s) # <<>> /\ Head(Numbers(s)) = Head(s).n /\ 1 \in 1..Len(Numbers(s))
  BY <1>1, <1>2
<1>5. Tail(Numbers(s)) \in Seq(N) /\ Len(Tail(Numbers(s))) = Len(s) - 1
      /\ \A i \in 1..Len(s) - 1 : Tail(Numbers(s))[i] = Numbers(s)[i + 1]
  BY <1>2, <1>4
<1>6. Numbers(Tail(s)) = Tail(Numbers(s))
  BY <1>1, <1>2, <1>3, <1>5
<1>7. Tail(Numbers(s)) = SubSeq(Numbers(s), 2, Len(Numbers(s)))
  BY <1>2, <1>4, <1>5
<1> QED
  BY <1>4, <1>6, <1>7

LEMMA NumbersOfEmpty == Numbers(<<>>) = <<>>
BY DEF Numbers

-----------------------------------------------------------------------------
(* The refinement.                                                          *)

LEMMA ShapeInit == Init => ReaderShape
BY ReaderAssumption DEF Init, ReaderShape

\* All the reader loses at once: what its connection held for it.
LEMMA LosesAll ==
  ASSUME ReaderShape, inbox' = <<>>, UNCHANGED <<sent, got>>
  PROVE  [U!Next]_U!vars
<1>1. CASE inbox = <<>>
  BY <1>1 DEF U!vars
<1>2. CASE inbox # <<>>
  <2> DEFINE f == Numbers(inbox)
  <2>1. f \in Seq({e.n : e \in Numbered}) /\ Len(f) = Len(inbox) /\ Len(f) \in 1..Len(f)
    BY <1>2, NumbersOfSeq DEF ReaderShape
  <2>2. SubSeq(f, Len(f) + 1, Len(f)) = <<>>
    BY <2>1
  <2>3. Numbers(inbox)' = <<>>
    BY NumbersOfEmpty
  <2>4. UNCHANGED Numbers(got)
    BY DEF Numbers
  <2> HIDE DEF f
  <2> QED
    BY <2>1, <2>2, <2>3, <2>4 DEF f, U!Next, U!Lose
<1> QED
  BY <1>1, <1>2

LEMMA TakesFirst ==
  ASSUME ReaderShape, NEW lucky, inbox # <<>>, Take(Head(inbox), lucky)
  PROVE  ReaderShape' /\ [U!Next]_U!vars
<1> DEFINE m == Head(inbox)
<1>1. m \in Numbered /\ inbox' = Tail(inbox) /\ inbox' \in Seq(Numbered) /\ sent' = sent
  BY DEF Take, ReaderShape, Dequeue
<1>2. Numbers(inbox) # <<>> /\ Head(Numbers(inbox)) = m.n
      /\ Numbers(inbox)' = Tail(Numbers(inbox))
      /\ Tail(Numbers(inbox)) = SubSeq(Numbers(inbox), 2, Len(Numbers(inbox)))
      /\ 1 \in 1..Len(Numbers(inbox))
  BY <1>1, NumbersOfTail DEF ReaderShape
<1>3. CASE got' = got
  <2>1. UNCHANGED Numbers(got)
    BY <1>3 DEF Numbers
  <2>2. U!Lose
    BY <1>1, <1>2, <2>1 DEF U!Lose
  <2> QED
    BY <1>1, <1>3, <2>2 DEF ReaderShape, U!Next
<1>4. CASE got' # got
  <2>1. PICK how \in Outcomes : got' = Append(got, [n |-> m.n, msg |-> m.msg, how |-> how])
    <3>1. Opened(m.msg, lucky) \in Outcomes
      BY DEF Opened, Outcomes
    <3> QED
      BY <1>4, <3>1 DEF Take
  <2> DEFINE e == [n |-> m.n, msg |-> m.msg, how |-> how]
  <2>2. e \in Handed /\ e.n = m.n
    BY <1>1 DEF Numbered, Handed
  <2>3. Numbers(got)' = Append(Numbers(got), m.n)
    BY <2>1, <2>2, NumbersOfAppend DEF ReaderShape
  <2>4. U!Deliver
    BY <1>1, <1>2, <2>3 DEF U!Deliver
  <2> QED
    BY <1>1, <2>1, <2>2, <2>4 DEF ReaderShape, U!Next
<1> QED
  BY <1>3, <1>4

LEMMA Publishes ==
  ASSUME ReaderShape, NEW m \in Messages, Publish(m)
  PROVE  ReaderShape' /\ [U!Next]_U!vars
<1> DEFINE e == [n |-> sent', msg |-> m]
<1>1. sent' = sent + 1 /\ sent < MaxSent /\ got' = got /\ sent' \in 1..MaxSent
  BY ReaderAssumption DEF Publish, ReaderShape
<1>2. e \in Numbered /\ e.n = sent'
  BY <1>1 DEF Numbered
<1>3. inbox' = inbox \/ inbox' = Append(inbox, e)
  BY DEF Publish
<1>4. Numbers(inbox)' = Numbers(inbox) \/ Numbers(inbox)' = Append(Numbers(inbox), sent')
  BY <1>2, <1>3, NumbersOfAppend DEF ReaderShape
<1>5. UNCHANGED Numbers(got)
  BY <1>1 DEF Numbers
<1>6. ReaderShape'
  BY <1>1, <1>2, <1>3 DEF ReaderShape
<1> HIDE DEF e
<1>7. U!Send
  BY <1>1, <1>4, <1>5 DEF U!Send
<1> QED
  BY <1>6, <1>7 DEF U!Next

LEMMA ReaderStep == ReaderShape /\ [Next]_vars => ReaderShape' /\ [U!Next]_U!vars
<1> SUFFICES ASSUME ReaderShape, [Next]_vars PROVE ReaderShape' /\ [U!Next]_U!vars
  OBVIOUS
<1>1. CASE Connect \/ Retry \/ Restart
  <2>1. inbox' = <<>> /\ UNCHANGED <<sent, got>>
    BY <1>1 DEF Connect, Retry, Restart
  <2> QED
    BY <2>1, LosesAll DEF ReaderShape
<1>2. CASE Subscribe \/ Break \/ Processed \/ ProcessingFails \/ Quiet \/ UNCHANGED vars
  <2>1. UNCHANGED <<inbox, sent, got>>
    BY <1>2 DEF Subscribe, Break, Processed, ProcessingFails, Quiet, vars
  <2>2. UNCHANGED <<Numbers(inbox), Numbers(got)>>
    BY <2>1 DEF Numbers
  <2> QED
    BY <2>1, <2>2 DEF ReaderShape, U!vars
<1>3. CASE inbox # <<>> /\ \E lucky \in SUBSET (Range(keyring) \cap Keys) : Take(Head(inbox), lucky)
  BY <1>3, TakesFirst
<1>4. CASE \E m \in Messages : Publish(m)
  BY <1>4, Publishes
<1> QED
  BY <1>1, <1>2, <1>3, <1>4 DEF Next, GeneratorStep

\* Whatever is published and whenever the connection breaks or the writer is
\* started again, the reader hands on what was published in order, nothing twice
\* and nothing made up.
THEOREM ReaderImplementsUplink == Spec => ImplementsUplink
<1>1. Init => U!Init
  BY NumbersOfEmpty DEF Init, U!Init
<1> QED
  BY <1>1, ShapeInit, ReaderStep, PTL DEF Spec, ImplementsUplink, U!Spec

-----------------------------------------------------------------------------
(* The keys.                                                                *)

LEMMA MinIsLeast ==
  ASSUME NEW T \in SUBSET Nat, T # {}
  PROVE  Min(T) \in T /\ \A y \in T : Min(T) <= y
<1>1. PICK x \in T : \A y \in T : <<y, x>> \notin OpToRel(<, Nat)
  BY WFMin, NatLessThanWellFounded, Zenon
<1>2. \A y \in T : ~(y < x)
  BY <1>1, Zenon DEF OpToRel
<1>3. \A y \in T : x <= y
  BY <1>2
<1> QED
  BY <1>3 DEF Min

\* A key decides and none before it does, or none does.
LEMMA DeciderIsFirst ==
  ASSUME NEW K, keyring \in Seq(K), NEW m, NEW lucky, NEW d, d = Decider(m, lucky)
  PROVE  \/ d = 0 /\ \A i \in DOMAIN keyring : ~Decides(keyring[i], m, lucky)
         \/ /\ d \in DOMAIN keyring /\ Decides(keyring[d], m, lucky)
            /\ \A j \in 1..d - 1 : ~Decides(keyring[j], m, lucky)
<1> DEFINE I == {i \in 1..Len(keyring) : Decides(keyring[i], m, lucky)}
<1>1. d = IF I # {} THEN Min(I) ELSE 0
  BY DEF Decider, SelectInSeq
<1>2. CASE I = {}
  BY <1>1, <1>2
<1>3. CASE I # {}
  <2>1. I \in SUBSET Nat
    OBVIOUS
  <2> HIDE DEF I
  <2>2. d \in I /\ \A y \in I : d <= y
    BY <1>1, <1>3, <2>1, MinIsLeast
  <2> QED
    BY <2>2 DEF I
<1> QED
  BY <1>2, <1>3

KeyringShape ==
  /\ keyring \in Seq(Keys \cup ShortKeys) /\ keyring # <<>> /\ keyring[1] = Primary

\* What the default key opens it opens first.
LEMMA DefaultOpensRight ==
  ASSUME KeyringShape, NEW m, NEW lucky, m.lock \in {"plain", "empty", Primary}
  PROVE  Opened(m, lucky) = "right"
<1> DEFINE d == Decider(m, lucky)
<1>1. Decides(keyring[1], m, lucky) /\ 1 \in DOMAIN keyring
  BY DEF KeyringShape, Decides
<1>2. d = 1
  BY <1>1, DeciderIsFirst DEF KeyringShape
<1> QED
  BY <1>2 DEF Opened, KeyringShape

\* What process_envelope works on was handed on last.
BusyWithLast ==
  conn # "dead" /\ busy # Nothing =>
    got # <<>> /\ Last(got).n = busy.n /\ Last(got).msg = busy.msg

KeysInv ==
  /\ ReaderShape /\ KeyringShape
  /\ DefaultChannelIsRead /\ BusyWithLast /\ EndsOverOneMessage

LEMMA KeysInit == Init => KeysInv
<1> SUFFICES ASSUME Init PROVE KeysInv
  OBVIOUS
<1>1. KeyringShape
  <2>1. PICK ks \in KeyConfigs : keyring = <<Primary>> \o Parsed(ks)
    BY DEF Init, Configured, Keyring
  <2>2. Parsed(ks) \in Seq(Keys \cup ShortKeys) /\ Primary \in Keys
    BY ParsingAssumption, ReaderAssumption
  <2> HIDE DEF Parsed
  <2> QED
    BY <2>1, <2>2 DEF KeyringShape
<1> QED
  BY <1>1, ShapeInit
  DEF Init, KeysInv, DefaultChannelIsRead, BusyWithLast, EndsOverOneMessage

LEMMA TakeKeepsKeys ==
  ASSUME KeysInv, NEW lucky, Take(Head(inbox), lucky)
  PROVE  DefaultChannelIsRead' /\ BusyWithLast' /\ EndsOverOneMessage'
<1> DEFINE m == Head(inbox)
<1> USE DEF KeysInv
<1>1. DefaultChannelIsRead'
  <2>1. CASE got' = got
    BY <2>1 DEF DefaultChannelIsRead
  <2>2. CASE got' = Append(got, [n |-> m.n, msg |-> m.msg, how |-> Opened(m.msg, lucky)])
    <3>1. m.msg.lock \in {"plain", "empty", Primary} => Opened(m.msg, lucky) = "right"
      BY DefaultOpensRight
    <3>2. ASSUME NEW i \in DOMAIN got', got'[i].msg.lock \in {"plain", "empty", Primary}
          PROVE  got'[i].how = "right"
      BY <2>2, <3>1, <3>2 DEF ReaderShape, DefaultChannelIsRead
    <3> QED
      BY <3>2 DEF DefaultChannelIsRead
  <2> QED
    BY <2>1, <2>2 DEF Take
<1>2. EndsOverOneMessage'
  <2> SUFFICES ASSUME conn' = "dead"
               PROVE  \E i \in DOMAIN keyring' :
                        /\ keyring'[i] \in ShortKeys /\ busy'.msg.lock # "plain"
                        /\ \A j \in 1..i - 1 : keyring'[j] # busy'.msg.lock
    BY DEF EndsOverOneMessage
  <2> DEFINE d == Decider(m.msg, lucky)
  <2>1. Raises(m.msg, lucky) /\ busy' = m /\ keyring' = keyring
    BY DEF Take, config
  <2>2. d # 0 /\ m.msg.lock # "plain" /\ keyring[d] \in ShortKeys
    BY <2>1 DEF Raises
  <2>3. d \in DOMAIN keyring /\ \A j \in 1..d - 1 : ~Decides(keyring[j], m.msg, lucky)
    BY <2>2, DeciderIsFirst DEF KeyringShape
  <2>4. \A j \in 1..d - 1 : keyring[j] # m.msg.lock
    BY <2>3 DEF Decides
  <2> QED
    BY <2>1, <2>2, <2>3, <2>4
<1>3. BusyWithLast'
  <2> SUFFICES ASSUME conn' # "dead", busy' # Nothing
               PROVE  got' # <<>> /\ Last(got').n = busy'.n /\ Last(got').msg = busy'.msg
    BY DEF BusyWithLast
  <2> DEFINE e == [n |-> m.n, msg |-> m.msg, how |-> Opened(m.msg, lucky)]
  <2>1. busy' = m /\ got' = Append(got, e)
    BY DEF Take
  <2>2. got \in Seq(Handed) /\ e.n = m.n /\ e.msg = m.msg
    BY DEF ReaderShape
  <2> HIDE DEF e, m
  <2>3. got' # <<>> /\ Last(got') = e
    BY <2>1, <2>2 DEF Last
  <2> QED
    BY <2>1, <2>2, <2>3
<1> QED
  BY <1>1, <1>2, <1>3

LEMMA KeysStep == KeysInv /\ [Next]_vars => KeysInv'
<1> SUFFICES ASSUME KeysInv, [Next]_vars PROVE KeysInv'
  OBVIOUS
<1>1. ReaderShape'
  BY ReaderStep DEF KeysInv
<1>2. KeyringShape'
  <2>1. keyring' = keyring
    BY DEF Next, Break, GeneratorStep, Connect, Subscribe, Retry, Take, Processed, ProcessingFails,
           Restart, Quiet, Publish, config, vars
  <2> QED
    BY <2>1 DEF KeysInv, KeyringShape
<1>3. CASE inbox # <<>> /\ \E lucky \in SUBSET (Range(keyring) \cap Keys) : Take(Head(inbox), lucky)
  BY <1>1, <1>2, <1>3, TakeKeepsKeys DEF KeysInv
<1>4. CASE \/ Break \/ Connect \/ Subscribe \/ Retry \/ Processed \/ ProcessingFails
           \/ Restart \/ Quiet \/ UNCHANGED vars \/ \E m \in Messages : Publish(m)
  <2> USE DEF Break, Connected, Connect, Subscribe, Retry, Processed, ProcessingFails,
              Restart, Quiet, Publish, vars
  <2>1. UNCHANGED <<keyring, got>>
    BY <1>4 DEF config
  <2>2. DefaultChannelIsRead'
    BY <2>1 DEF DefaultChannelIsRead, KeysInv
  <2>3. BusyWithLast'
    <3>1. conn' # "dead" /\ busy' # Nothing => conn # "dead" /\ busy # Nothing /\ busy' = busy
      BY <1>4
    <3> QED
      BY <2>1, <3>1 DEF BusyWithLast, KeysInv
  <2>4. EndsOverOneMessage'
    <3>1. conn' = "dead" => 
            busy' = busy /\ (conn = "dead" \/ (busy # Nothing /\ busy.msg.odd))
      BY <1>4
    <3> QED
      BY <2>1, <3>1 DEF EndsOverOneMessage, BusyWithLast, KeysInv
  <2> QED
    BY <1>1, <1>2, <2>2, <2>3, <2>4 DEF KeysInv
<1> QED
  BY <1>3, <1>4 DEF Next, GeneratorStep

\* With any keys of any length configured, a packet in the clear or under the
\* default key is handed on as it was sent.
THEOREM DefaultChannelStaysReadable == Spec => []DefaultChannelIsRead
<1>1. KeysInv => DefaultChannelIsRead
  BY DEF KeysInv
<1> QED
  BY <1>1, KeysInit, KeysStep, PTL DEF Spec

\* With any messages, any configuration and any breaks, what ends the writer is one
\* message: handed on last, process_envelope raising over it, or encrypted and met
\* by a key of a wrong length before any that opens it.
THEOREM WriterEndsOverOneMessage == Spec => []EndsOverOneMessage
<1>1. KeysInv => EndsOverOneMessage
  BY DEF KeysInv
<1> QED
  BY <1>1, KeysInit, KeysStep, PTL DEF Spec
=============================================================================
