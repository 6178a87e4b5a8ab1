-------------------------- MODULE HandshakeFlight --------------------------
(***************************************************************************)
(* One captured TLS 1.3 connection and the two programs that read its      *)
(* handshake back from the wire: the notary (transcript.rs, for the key    *)
(* schedule) and the zkVM guest of the self-proving path (guest main.rs,   *)
(* for the certificate checks and the response).                           *)
(*                                                                         *)
(* The server is honest and may cut its flight into records anywhere.  A   *)
(* message is three pieces: the first bytes of its header, the rest of the *)
(* header and its body; the pieces of the flight are numbered.  A hash is  *)
(* the sequence it was taken of; decrypting needs the record's key and its *)
(* sequence number.                                                        *)
(***************************************************************************)
EXTENDS Naturals, Sequences, FiniteSets

CONSTANTS
  Requests,    \* BOOLEAN values: may the server ask for a client certificate
  Retries,     \* BOOLEAN values: may it ask for a second ClientHello
  MaxRecords,  \* bound: records the flight is cut into
  MaxApp       \* bound: records after the handshake

ASSUME FlightAssumption ==
  /\ Requests \subseteq BOOLEAN /\ Retries \subseteq BOOLEAN
  /\ MaxRecords \in Nat \ {0}
  /\ MaxApp \in Nat

VARIABLES
  flight,   \* messages of the server's encrypted flight
  cut,      \* how many of its pieces are on the wire
  outbound, \* ClientHello messages captured from the client
  inbound,  \* records captured from the server
  tail,     \* what follows the last whole record: none | header | body
  open,     \* the connection is up
  notary,   \* what the notary made of the capture
  guest     \* what the guest made of it

vars == <<flight, cut, outbound, inbound, tail, open, notary, guest>>

Fail == <<"none">>  \* the notary's None, the guest's panic
Unread == [read |-> FALSE]

\* The whole flight, in pieces.
All == 3 * Len(flight)

\* Where in inbound the records under one key are.
Under(key) == { i \in DOMAIN inbound : inbound[i].key = key }

Plain(outer, what) == [outer |-> outer, key |-> "plain", seq |-> 0, what |-> what]
Wire(key, what) == [outer |-> 23, key |-> key, seq |-> Cardinality(Under(key)), what |-> what]

-----------------------------------------------------------------------------
(* The server and the capture.                                             *)

Init ==
  /\ flight \in { IF cr THEN <<"EE", "CR", "Cert", "CV", "Fin">> ELSE <<"EE", "Cert", "CV", "Fin">>
                  : cr \in Requests }
  /\ cut = 0
  /\ outbound = <<"CH">>
  /\ \E retry \in Retries : inbound = << Plain(22, IF retry THEN "HRR" ELSE "SH") >>
  /\ tail = "none" /\ open = TRUE
  /\ notary = Unread /\ guest = Unread

\* A HelloRetryRequest is a ServerHello without a key; the client answers it with
\* a ClientHello of its own, and only then comes the ServerHello.
Retried == inbound[1].what = "HRR"
ServerHelloSent == \E i \in Under("plain") : inbound[i].what = "SH"

HelloAgain ==
  /\ open /\ Retried /\ ~ServerHelloSent
  /\ outbound' = Append(outbound, "CH2")
  /\ inbound' = Append(inbound, Plain(22, "SH"))
  /\ UNCHANGED <<flight, cut, tail, open, notary, guest>>

\* Middlebox compatibility: a ChangeCipherSpec after the first hello.
SendCcs ==
  /\ open /\ Len(inbound) = 1
  /\ inbound' = Append(inbound, Plain(20, "CCS"))
  /\ UNCHANGED <<flight, cut, outbound, tail, open, notary, guest>>

\* The last record the bound allows takes all that is left.
SendFlight ==
  /\ open /\ ServerHelloSent /\ cut < All
  /\ cut' \in (cut + 1)..All
  /\ Cardinality(Under("hs")) + 1 = MaxRecords => cut' = All
  /\ inbound' = Append(inbound, Wire("hs", [from |-> cut, to |-> cut']))
  /\ UNCHANGED <<flight, outbound, tail, open, notary, guest>>

\* Tickets, response data and alerts under the application key.
SendApp ==
  /\ open /\ cut = All /\ Cardinality(Under("app")) < MaxApp
  /\ \E what \in {"ticket", "data", "alert"} : inbound' = Append(inbound, Wire("app", what))
  /\ UNCHANGED <<flight, cut, outbound, tail, open, notary, guest>>

\* The connection ends, possibly inside a record.
Close ==
  /\ open /\ open' = FALSE
  /\ tail' \in {"none", "header", "body"}
  /\ UNCHANGED <<flight, cut, outbound, inbound, notary, guest>>

-----------------------------------------------------------------------------
(* Parsing messages out of one record, which holds pieces p.from + 1..p.to.*)

\* What its first piece is, and its last.
First(p) == <<"h", "t", "b">>[(p.from % 3) + 1]
Final(p) == <<"b", "h", "t">>[(p.to % 3) + 1]

\* Messages whose last piece is in the record.
Ended(p) == SubSeq(flight, (p.from \div 3) + 1, p.to \div 3)

\* The guest: whatever is left over is an error.
GuestMessages(p) == IF First(p) = "h" /\ Final(p) = "b" THEN {Ended(p)} ELSE {Fail}

\* Mutant: a message that runs past the record ends the list instead of failing.
NotaryMessagesLoose(p) == IF First(p) = "h" THEN {Ended(p)} ELSE {<<>>}

\* A record that does not begin with a message is read from the wrong byte: the
\* lengths found there are those of no message, and run past the record, swallow it or
\* skip some of it; a few bytes alone are too few for a header.
Misreadings(p) ==
  {Fail, <<>>, <<"misread">>} \cup { <<"misread">> \o Tail(e) : e \in {Ended(p)} \ {<<>>} }

\* The notary: fewer than four bytes left over are ignored, and so is a record that
\* holds only the rest of a header.
NotaryMessages(p) ==
  CASE First(p) = "h" -> {IF Final(p) = "t" THEN Fail ELSE Ended(p)}
    [] First(p) = "t" /\ Final(p) = "t" /\ Ended(p) = <<>> -> {<<>>}
    [] OTHER -> Misreadings(p)

-----------------------------------------------------------------------------
(* The notary: transcript_hashes_with_ikm, cert_chain_ders_from_handshake. *)

Holds(msgs, m) == \E i \in DOMAIN msgs : msgs[i] = m

\* The handshake record each side is taken to begin with: its first.
FirstHello(records) ==
  LET hellos == { i \in DOMAIN records : records[i].outer = 22 }
  IN records[CHOOSE i \in hellos : \A j \in hellos : i <= j].what
ServerHello == FirstHello(inbound)
Hellos == << Head(outbound), ServerHello >>

\* The server's key share: a HelloRetryRequest names a group at most.
KeyShare == ServerHello = "SH"

\* Record n opens under the handshake key and this sequence number.
Opens(n, seq) == n \in Under("hs") /\ inbound[n].seq = seq

\* Mutant: records after Finished are still taken for the handshake's.
HashedOn(parsed, state, n) ==
  IF inbound[n].outer # 23 \/ state.msgs = Fail THEN state
  ELSE [seq  |-> state.seq + 1,
        msgs |-> IF ~Opens(n, state.seq) \/ parsed[n] = Fail
                 THEN Fail ELSE state.msgs \o parsed[n]]

\* What has been hashed once record n is read too, decrypted with the next sequence
\* number, up to the record that holds Finished.
Hashed(parsed, state, n) ==
  IF inbound[n].outer # 23 \/ Holds(state.msgs, "Fin") \/ state.msgs = Fail THEN state
  ELSE [seq  |-> state.seq + 1,
        msgs |-> IF ~Opens(n, state.seq) \/ parsed[n] = Fail
                 THEN Fail ELSE state.msgs \o parsed[n]]

\* The loop over the captured records, in the notary and in the guest.
Reading(parsed) ==
  LET state[n \in 0..Len(inbound)] ==
        IF n = 0 THEN [seq |-> 0, msgs |-> Hellos] ELSE Hashed(parsed, state[n - 1], n)
  IN state

\* transcript_after_server_finished.
Transcript(parsed) ==
  LET msgs == Reading(parsed)[Len(inbound)].msgs
  IN IF KeyShare /\ Holds(msgs, "Fin") /\ Len(msgs) >= 6 THEN msgs ELSE Fail

\* One reading of every record of the flight.
Parses(messages(_)) ==
  LET lists == UNION { messages(inbound[i].what) : i \in Under("hs") }
  IN { p \in [Under("hs") -> lists] : \A i \in Under("hs") : p[i] \in messages(inbound[i].what) }

\* The chain comes from the first record that holds a Certificate.
ChainFound(parsed) ==
  \E i \in Under("hs") :
    /\ Holds(parsed[i], "Cert")
    /\ \A k \in Under("hs") : k <= i => parsed[k] # Fail

\* verify_handshake_capture needs the chain and both hashes.  The capture is what
\* the socket had delivered when the handshake was done: more of the stream may
\* follow the last whole record, and a record cut in its body is no capture.
NotaryReads ==
  /\ open /\ cut = All /\ notary = Unread
  /\ \E parsed \in Parses(NotaryMessages), more \in {"none", "header", "body"} :
       notary' = [read |-> TRUE, tail |-> more,
                  hash |-> IF more # "body" /\ ChainFound(parsed) THEN Transcript(parsed) ELSE Fail]
  /\ UNCHANGED <<flight, cut, outbound, inbound, tail, open, guest>>

-----------------------------------------------------------------------------
(* The guest: main of the self-proving path.                               *)

\* What the server signed, MACed and keyed its records with.
Sent == IF Retried THEN <<"CH", "HRR", "CH2", "SH">> ELSE <<"CH", "SH">>
Signed == Sent \o SubSeq(flight, 1, Len(flight) - 2)
Maced == Sent \o SubSeq(flight, 1, Len(flight) - 1)
Whole == Sent \o flight

\* encrypted_app_records: what follows the record that holds Finished.
Behind(parsed) ==
  LET read == Reading(parsed)
  IN { i \in DOMAIN inbound : inbound[i].outer = 23 /\ Holds(read[i - 1].msgs, "Fin") }

\* Mutant: the records after the handshake keep the handshake's count.
AppOpensContinued(app) == \A i \in app :
  inbound[i].key = "app" /\ inbound[i].seq = Cardinality(Under("hs")) + Cardinality({ j \in app : j < i })

\* They are opened under the application keys, their count from zero.
AppOpens(app) == \A i \in app :
  inbound[i].key = "app" /\ inbound[i].seq = Cardinality({ j \in app : j < i })

\* Fixed positions stand for the messages: [..4], [..5] and [..6].
GuestAccepts(msgs) ==
  /\ Len(msgs) >= 6
  /\ SubSeq(msgs, 1, 5) = Maced     \* Finished HMAC
  /\ SubSeq(msgs, 1, 4) = Signed    \* CertificateVerify
  /\ SubSeq(msgs, 1, 6) = Whole     \* application keys

Data(records) == { i \in records : inbound[i].what = "data" }

GuestReads ==
  /\ ~open /\ cut = All /\ guest = Unread
  /\ \E parsed \in Parses(GuestMessages) :
       LET msgs == Transcript(parsed)
           app == Behind(parsed)
       IN guest' = IF tail # "body" /\ GuestAccepts(msgs) /\ AppOpens(app)
                   THEN [read |-> TRUE, hash |-> msgs, data |-> Data(app)]
                   ELSE [read |-> TRUE, hash |-> Fail, data |-> {}]
  /\ UNCHANGED <<flight, cut, outbound, inbound, tail, open, notary>>

\* Everything that can be read has been read.
Terminated ==
  /\ ~open /\ (cut = All => guest # Unread)
  /\ UNCHANGED vars

Next ==
  \/ HelloAgain \/ SendCcs \/ SendFlight \/ SendApp \/ Close
  \/ NotaryReads \/ GuestReads \/ Terminated

Spec == Init /\ [][Next]_vars
-----------------------------------------------------------------------------
(* Properties.                                                             *)

Aligned == \A i \in Under("hs") : First(inbound[i].what) = "h" /\ Final(inbound[i].what) = "b"

HeaderCut == \E i \in Under("hs") : First(inbound[i].what) = "t"

\* The application keys of the two-party schedule are bound to this hash: each
\* reader gets the hash of the server's flight or none, wherever the records are
\* cut, the notary unless they are cut inside a header; so they never get
\* different ones, also if the server asked for another hello.
TranscriptRight ==
  /\ notary # Unread /\ ~HeaderCut => notary.hash \in {Whole, Fail}
  /\ guest # Unread => guest.hash \in {Whole, Fail}

\* A flight cut between messages is never refused by the notary, with or without
\* a CertificateRequest and with anything captured behind it but half a record,
\* unless the server asked for another hello.
NotaryReadsAligned ==
  notary # Unread /\ Aligned /\ ~Retried /\ notary.tail # "body" => notary.hash = Whole

\* Nor by the guest, which then opens every record behind the handshake and
\* returns all response data; unless a CertificateRequest or a second hello shifts
\* the positions.
GuestReadsAligned ==
  guest # Unread /\ Aligned /\ ~Retried /\ ~Holds(flight, "CR") /\ tail # "body" =>
    /\ guest.hash = Whole
    /\ guest.data = Data(Under("app"))

\* README.md line 11, "No server modification. Real HTTPS.": the guest accepts
\* the complete capture of an honest server.
HonestServerAccepted ==
  guest # Unread /\ tail = "none" => guest.hash = Whole

-----------------------------------------------------------------------------
(* The inductive invariant of the theorems: the server's stream, and what  *)
(* the readers found in it.                                                *)

FlightTypes ==
  /\ flight \in {<<"EE", "Cert", "CV", "Fin">>, <<"EE", "CR", "Cert", "CV", "Fin">>}
  /\ cut \in 0..All /\ open \in BOOLEAN
  /\ outbound \in Seq({"CH", "CH2"}) /\ outbound # <<>> /\ outbound[1] = "CH"
  /\ DOMAIN inbound = 1..Len(inbound) /\ Len(inbound) \in Nat

\* b records in the clear, the server's first hello in front.
InTheClear(b) ==
  /\ b \in 1..Len(inbound)
  /\ \A i \in 1..b : inbound[i] \in {Plain(22, "HRR"), Plain(22, "SH"), Plain(20, "CCS")}
  /\ inbound[1] # Plain(20, "CCS")

\* How far record n brings the flight, behind b records in the clear.
Reach(b, n) == IF n <= b THEN 0 ELSE inbound[n].what.to

\* Then h records of the flight, each taking up where the last one ended.
InFlight(b, h) ==
  /\ h \in Nat /\ b + h <= Len(inbound)
  /\ \A i \in (b + 1)..(b + h) :
       /\ inbound[i].outer = 23 /\ inbound[i].key = "hs" /\ inbound[i].seq = i - (b + 1)
       /\ inbound[i].what.from = Reach(b, i - 1)
       /\ inbound[i].what.from \in 0..All /\ inbound[i].what.to \in 1..All
       /\ inbound[i].what.from < inbound[i].what.to
  /\ cut = Reach(b, b + h)
  /\ h # 0 => ServerHelloSent

\* And those under the application key, once the flight is out.
InSession(n) ==
  /\ \A i \in (n + 1)..Len(inbound) :
       inbound[i].outer = 23 /\ inbound[i].key = "app" /\ inbound[i].seq = i - (n + 1)
  /\ n < Len(inbound) => cut = All

Stream(b, h) == InTheClear(b) /\ InFlight(b, h) /\ InSession(b + h)

FlightInv ==
  /\ FlightTypes
  /\ \E b, h \in 0..Len(inbound) : Stream(b, h)
  /\ notary # Unread => cut = All
  /\ guest # Unread => cut = All /\ ~open
  /\ TranscriptRight /\ NotaryReadsAligned /\ GuestReadsAligned

=============================================================================
