----------------------------- MODULE MqttReader -----------------------------
(***************************************************************************)
(* get_topic_envelopes of meshview/mqtt_reader.py and the loop of           *)
(* load_database_from_mqtt that takes from it: a generator that connects,   *)
(* subscribes, decrypts with the first key that yields something, and is    *)
(* suspended while process_envelope works on what it handed out.            *)
(***************************************************************************)
EXTENDS Naturals, SequencesExt

CONSTANTS
  Messages,    \* what nodes publish
  Primary,     \* PRIMARY_KEY
  Keys,        \* the keys of a length AES takes, Primary among them
  ShortKeys,   \* what base64 decodes to bytes of another length
  KeyConfigs,  \* sequences of entries secondary_keys may have
  SkipConfigs, \* sets of entries skip_node_ids may have
  Nodes,       \* node numbers
  TopicCount,  \* topics subscribed to, one after the other
  Nothing,     \* the generator holds no message
  MaxSent, MaxBreaks   \* bounds: messages published, connections lost

\* `lock' is the key a message was encrypted with, "plain" when it was not, and
\* "empty" when it has neither field; `valid' is whether it is a ServiceEnvelope,
\* `odd' whether process_envelope may raise over it (EnvelopeRaises of Ingestion).
MessageType ==
  [from : Nodes, topic : 1..TopicCount, valid : BOOLEAN, odd : BOOLEAN,
   lock : Keys \cup {"plain", "empty", "unknown"}]

ASSUME ReaderAssumption ==
  /\ Messages \subseteq MessageType
  /\ Primary \in Keys /\ Keys \cap ShortKeys = {}
  /\ {"plain", "empty", "unknown"} \cap (Keys \cup ShortKeys) = {}
  /\ TopicCount \in Nat \ {0} /\ {MaxSent, MaxBreaks} \subseteq Nat

VARIABLES
  keyring, skipped,  \* the configuration as parsed at import
  conn,       \* the generator's place in its reconnect loop
  topics,     \* topics subscribed to in this connection
  inbox,      \* the client's queue, messages with their numbers
  busy,       \* the message process_envelope works on, or that ended the writer
  got,        \* what process_envelope was called with, and how it was opened
  sent, breaks

vars == <<keyring, skipped, conn, topics, inbox, busy, got, sent, breaks>>
config == <<keyring, skipped>>

Numbered == [n : 1..MaxSent, msg : Messages]
Outcomes == {"right", "garbled", "sealed"}

-----------------------------------------------------------------------------
(* The configuration, parsed once.                                          *)

\* Entries that are no number are logged and passed over.
SkipNodeIds(entries) == entries \cap Nodes

\* Entries that are empty or no base64 are passed over; the length is not looked at.
Parsed(entries) == SelectSeq(entries, LAMBDA e : e \in Keys \cup ShortKeys)

\* A fact of SelectSeq, of which the provers know nothing.
ASSUME ParsingAssumption == \A ks \in KeyConfigs : Parsed(ks) \in Seq(Keys \cup ShortKeys)

\* (mutant) The configured keys are tried first.
KeyringPrimaryLast(entries) == Append(Parsed(entries), Primary)

Keyring(entries) == <<Primary>> \o Parsed(entries)

Configured ==
  \E ks \in KeyConfigs, ids \in SkipConfigs :
    keyring = Keyring(ks) /\ skipped = SkipNodeIds(ids)

Init ==
  /\ Configured
  /\ conn = "connect" /\ topics = 0 /\ inbox = <<>> /\ busy = Nothing
  /\ got = <<>> /\ sent = 0 /\ breaks = 0

-----------------------------------------------------------------------------
(* The broker.                                                              *)

Connected == conn \in {"subscribe", "listen"}

\* A message reaches the queue if its topic is subscribed to, else it is lost.
Publish(m) ==
  /\ sent < MaxSent /\ sent' = sent + 1
  /\ inbox' = IF Connected /\ m.topic <= topics
              THEN Append(inbox, [n |-> sent', msg |-> m]) ELSE inbox
  /\ UNCHANGED <<config, conn, topics, busy, got, breaks>>

\* The client notices that the connection is gone; what is queued stays queued.
Break ==
  /\ Connected /\ breaks < MaxBreaks
  /\ breaks' = breaks + 1 /\ conn' = "lost"
  /\ UNCHANGED <<config, topics, inbox, busy, got, sent>>

-----------------------------------------------------------------------------
(* The generator.                                                           *)

Connect ==
  /\ conn = "connect" /\ busy = Nothing
  /\ conn' = "subscribe" /\ topics' = 0 /\ inbox' = <<>>
  /\ UNCHANGED <<config, busy, got, sent, breaks>>

Subscribe ==
  /\ conn = "subscribe"
  /\ topics' = topics + 1
  /\ conn' = IF topics' = TopicCount THEN "listen" ELSE "subscribe"
  /\ UNCHANGED <<config, inbox, busy, got, sent, breaks>>

\* decrypt(packet, key) returns or raises: the packet is not encrypted, AES
\* refuses the key, the key is right, or its output parses by chance.
Decides(k, m, lucky) ==
  m.lock = "plain" \/ k \in ShortKeys \/ m.lock \in {k, "empty"} \/ k \in lucky

\* The first key that decides, 0 when none does.
Decider(m, lucky) == SelectInSeq(keyring, LAMBDA k : Decides(k, m, lucky))

Opened(m, lucky) ==
  LET i == Decider(m, lucky) IN
  CASE i = 0 -> "sealed"
    [] m.lock = "plain" -> "right"
    [] m.lock \in {keyring[i], "empty"} -> "right"
    [] OTHER -> "garbled"

\* (mutant) The ciphers of all keys are made before the first is tried.
RaisesUpFront(m, lucky) == \E i \in DOMAIN keyring : keyring[i] \in ShortKeys

Raises(m, lucky) ==
  LET i == Decider(m, lucky) IN i # 0 /\ m.lock # "plain" /\ keyring[i] \in ShortKeys

\* (mutant) A message leaves the queue once it has been processed.
DequeueLate(m) == inbox

Dequeue(m) == Tail(inbox)

\* From the queue to the yield without an await.  `not envelope.packet.decoded'
\* is never true of a protobuf message, so what no key opens is handed on too.
Take(m, lucky) ==
  /\ conn \in {"listen", "lost"} /\ topics = TopicCount /\ busy = Nothing
  /\ inbox # <<>> /\ m = Head(inbox)
  /\ inbox' = Dequeue(m)
  /\ IF m.msg.valid /\ Raises(m.msg, lucky)
       THEN conn' = "dead" /\ busy' = m /\ UNCHANGED got
       ELSE /\ IF m.msg.valid /\ m.msg.from \notin skipped
                 THEN /\ busy' = m
                      /\ got' = Append(got, [n |-> m.n, msg |-> m.msg,
                                             how |-> Opened(m.msg, lucky)])
                 ELSE UNCHANGED <<busy, got>>
            /\ UNCHANGED conn
  /\ UNCHANGED <<config, topics, sent, breaks>>

\* process_envelope returns and the loop asks for the next message.
Processed ==
  /\ conn # "dead" /\ busy # Nothing
  /\ busy' = Nothing
  /\ UNCHANGED <<config, conn, topics, inbox, got, sent, breaks>>

\* process_envelope raises: nothing between it and the TaskGroup catches that.
ProcessingFails ==
  /\ conn # "dead" /\ busy # Nothing /\ busy.msg.odd
  /\ conn' = "dead"
  /\ UNCHANGED <<config, topics, inbox, busy, got, sent, breaks>>

\* (mutant) The loop goes on with the client it has.
RetryListening ==
  /\ conn = "lost" /\ busy = Nothing
  /\ UNCHANGED vars

\* MqttError, raised where the generator waits for the client and so not while
\* process_envelope works; the client and what it had queued are given up.
Retry ==
  /\ conn = "lost" /\ busy = Nothing
  /\ conn' = "connect" /\ inbox' = <<>> /\ topics' = 0
  /\ UNCHANGED <<config, busy, got, sent, breaks>>

\* The exception left the TaskGroup; the process is started again.
Restart ==
  /\ conn = "dead"
  /\ conn' = "connect" /\ topics' = 0 /\ inbox' = <<>> /\ busy' = Nothing
  /\ UNCHANGED <<config, got, sent, breaks>>

GeneratorStep ==
  \/ Connect \/ Subscribe \/ Retry
  \/ inbox # <<>> /\ \E lucky \in SUBSET (Range(keyring) \cap Keys) : Take(Head(inbox), lucky)

\* The generator waits for a message and none is published any more.
Quiet == conn = "listen" /\ inbox = <<>> /\ busy = Nothing /\ UNCHANGED vars

Next ==
  \/ Break \/ GeneratorStep \/ Processed \/ ProcessingFails \/ Restart \/ Quiet
  \/ \E m \in Messages : Publish(m)

Spec == Init /\ [][Next]_vars

\* The event loop resumes whoever can go on, and the broker can be reached;
\* nothing is assumed of messages, breaks or restarts.
FairSpec == Spec /\ WF_vars(GeneratorStep) /\ WF_vars(Processed \/ ProcessingFails)

-----------------------------------------------------------------------------
(* Properties.                                                              *)

Numbers(s) == [i \in DOMAIN s |-> s[i].n]

U == INSTANCE Uplink WITH inFlight <- Numbers(inbox), got <- Numbers(got)

\* Over reconnects, restarts and suspended reads, the reader hands on what it
\* was sent in order, each message at most once and none made up.
ImplementsUplink == U!Spec

\* After any number of lost connections, in mid-subscription too, the reader
\* listens to all its topics again ("reconnecting in 1s"); and what has reached
\* the queue is handed on in the end, unless it is to be left out, the connection
\* breaks or the writer ends.
KeepsReading ==
  /\ conn = "lost" ~> conn = "dead" \/ (conn = "listen" /\ topics = TopicCount)
  /\ \A n \in 1..MaxSent :
       (\E i \in DOMAIN inbox : inbox[i].n = n /\ inbox[i].msg.valid
                                    /\ inbox[i].msg.from \notin skipped)
         ~> (\E i \in DOMAIN got : got[i].n = n) \/ conn \in {"lost", "dead"}

\* A packet that came in the clear or under the default key is never handed on
\* garbled, whatever other keys are configured and whatever they make of it.
DefaultChannelIsRead ==
  \A i \in DOMAIN got :
    got[i].msg.lock \in {"plain", "empty", Primary} => got[i].how = "right"

\* The writer ends over one message, and in one of two ways: it was the last one
\* handed on and process_envelope raises over it, or it is encrypted and a key of a
\* wrong length comes before any that opens it.  A lost connection or bytes that
\* are no envelope never end it.
EndsOverOneMessage ==
  conn = "dead" =>
    \/ got # <<>> /\ Last(got).n = busy.n /\ Last(got).msg = busy.msg /\ busy.msg.odd
    \/ \E i \in DOMAIN keyring :
         /\ keyring[i] \in ShortKeys
         /\ busy.msg.lock # "plain"
         /\ \A j \in 1..i - 1 : keyring[j] # busy.msg.lock

=============================================================================
