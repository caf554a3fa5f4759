------------------------------ MODULE Envelope ------------------------------
(***************************************************************************)
(* What the MQTT stream delivers: a ServiceEnvelope as process_envelope of  *)
(* meshview/mqtt_store.py takes it apart.                                   *)
(***************************************************************************)
EXTENDS MeshDB

CONSTANTS
  Envelopes,                \* the envelopes the stream may deliver
  NoGateway, BadGateway     \* an empty gateway_id; one int(.., 16) rejects

Ports == {"MAP_REPORT", "NODEINFO", "POSITION", "TRACEROUTE", "OTHER"}

\* `usable': the payload decodes, and carries what its branch insists on (known
\* enum values, a non-empty user.id, a non-zero position).  `user' and `key'
\* are read for NODEINFO only, `reply' (not want_response) for TRACEROUTE only.
\* A packet's own fields are 32 bits wide; gateway and user are texts, whose
\* hexadecimal digits int(.., 16) takes at any length.
EnvelopeType ==
  [port: Ports, id: PacketIds \cup {0}, from: Nums \ Huge,
   gateway: Nums \cup {NoGateway, BadGateway}, rx: RxTimes, usable: BOOLEAN,
   user: Keys, key: PublicKeys \cup {NoKey}, reply: BOOLEAN]

ASSUME EnvelopeAssumption ==
  /\ Envelopes \subseteq EnvelopeType
  /\ 0 \notin PacketIds
  /\ {NoGateway, BadGateway} \cap Nums = {} /\ NoGateway # BadGateway
=============================================================================
