-------------------------- MODULE NotarizedWitness --------------------------
(***************************************************************************)
(* How notary/src/bin/notary_demo.rs takes a TLS connection over from      *)
(* rustls, reads the response record by record, and turns it into the      *)
(* witness that guest/src/main.rs checks (run_notary_path).                *)
(*                                                                         *)
(* The stream from the server is a sequence of half records, so that a     *)
(* read may end inside one.  A record under the application key carries    *)
(* its sequence number: it opens exactly under that number.  Key setup and *)
(* the two-party runs are taken as done (SessionSetup, RecordBridge).      *)
(***************************************************************************)
EXTENDS Naturals, Sequences, SequencesExt

CONSTANTS
  Modes,       \* 1: keys taken from rustls (both legacy modes), 2: two-party keys
  MaxTickets,  \* bound: NewSessionTickets of the server
  MaxApp       \* bound: response records

ASSUME WitnessAssumption == Modes \subseteq {1, 2} /\ MaxTickets \in Nat /\ MaxApp \in Nat

VARIABLES
  mode,
  asked, closed,  \* server: has the request; has sent its alert and closed
  sent,           \* application-key records of the server, oldest first
  wire,           \* half records on the way to the host
  stage,          \* host: drain, request, reading, failed, finished
  inbound,        \* whole records the host has captured
  cut,            \* whether a capture ended inside a record
  rxSeq,          \* sequence number the host opens the next record with
  log,            \* the notary's decrypt records
  body,           \* response records the host assembled
  binding         \* what the notary hashed of the transcript, if anything

vars == <<mode, asked, closed, sent, wire, stage, inbound, cut, rxSeq, log, body, binding>>
serverVars == <<asked, closed, sent>>

AppKeyed == {"nst", "app", "alert"}
Unbound == [requests |-> 0, inbound |-> <<>>]

Halves(r) == << r, r >>

\* The records of kind k among the first i of s: SelectSeq, in a form that the proofs
\* can unfold.
Kept(s, k) ==
  LET kept[i \in 0..Len(s)] ==
        IF i = 0 THEN <<>>
        ELSE IF s[i].kind = k THEN Append(kept[i - 1], s[i]) ELSE kept[i - 1]
  IN kept
OfKind(k) == Kept(sent, k)[Len(sent)]
Count(k) == Len(OfKind(k))

\* rustls has just finished the handshake: one plain and one encrypted flight.
Init ==
  /\ mode \in Modes
  /\ asked = FALSE /\ closed = FALSE /\ sent = <<>> /\ wire = <<>>
  /\ stage = "drain"
  /\ inbound = << [kind |-> "plain", n |-> 0], [kind |-> "hs", n |-> 0] >>
  /\ cut = FALSE /\ rxSeq = 0 /\ log = <<>> /\ body = <<>>
  /\ binding = Unbound

-----------------------------------------------------------------------------
(* The server.                                                             *)

ServerSends(k) ==
  LET r == [kind |-> k, n |-> Len(sent)]
  IN sent' = Append(sent, r) /\ wire' = wire \o Halves(r)

SendTicket ==
  /\ ~closed /\ Count("nst") < MaxTickets
  /\ ServerSends("nst")
  /\ UNCHANGED <<mode, asked, closed, stage, inbound, cut, rxSeq, log, body, binding>>

SendResponse ==
  /\ asked /\ ~closed /\ Count("app") < MaxApp
  /\ ServerSends("app")
  /\ UNCHANGED <<mode, asked, closed, stage, inbound, cut, rxSeq, log, body, binding>>

\* "Connection: close": a close_notify, or just the end of the stream.
Close ==
  /\ asked /\ ~closed
  /\ closed' = TRUE
  /\ \/ ServerSends("alert")
     \/ UNCHANGED <<sent, wire>>
  /\ UNCHANGED <<mode, asked, stage, inbound, cut, rxSeq, log, body, binding>>

-----------------------------------------------------------------------------
(* The host.                                                               *)

\* Mutant: the sequence number is not taken over from rustls.
DrainFromZero ==
  /\ stage = "drain"
  /\ \E k \in 0..Len(wire) :
       /\ inbound' = inbound \o [i \in 1..(k \div 2) |-> wire[2 * i]]
       /\ wire' = SubSeq(wire, k + 1, Len(wire))
       /\ cut' = (k % 2 = 1)
       /\ rxSeq' = 0
  /\ binding' = IF mode = 2 THEN [requests |-> 0, inbound |-> inbound'] ELSE binding
  /\ stage' = "request"
  /\ UNCHANGED <<mode, serverVars, log, body>>

\* One read_tls within 150 ms takes whatever has arrived; rustls opens the
\* whole tickets in it.  dangerous_extract_secrets hands its sequence number
\* over, the two-party mode starts from zero and sends its capture instead.
Drain ==
  /\ stage = "drain"
  /\ \E k \in 0..Len(wire) :
       /\ inbound' = inbound \o [i \in 1..(k \div 2) |-> wire[2 * i]]
       /\ wire' = SubSeq(wire, k + 1, Len(wire))
       /\ cut' = (k % 2 = 1)
       /\ rxSeq' = IF mode = 2 THEN 0 ELSE k \div 2
  /\ binding' = IF mode = 2 THEN [requests |-> 0, inbound |-> inbound'] ELSE binding
  /\ stage' = "request"
  /\ UNCHANGED <<mode, serverVars, log, body>>

SendRequest ==
  /\ stage = "request"
  /\ asked' = TRUE
  /\ stage' = "reading"
  /\ UNCHANGED <<mode, closed, sent, wire, inbound, cut, rxSeq, log, body, binding>>

\* A whole record is there; read_tls_record has not been put out of step.
NextRecord == stage = "reading" /\ ~cut /\ Len(wire) >= 2
Opens(r) == r.kind \in AppKeyed /\ r.n = rxSeq
TakeRecord ==
  /\ wire' = SubSeq(wire, 3, Len(wire))
  /\ inbound' = Append(inbound, wire[1])

\* Mutant: the inner content type is not looked at.
ReadRecordAnyType ==
  /\ NextRecord /\ Opens(wire[1]) /\ TakeRecord
  /\ log' = Append(log, [seq |-> rxSeq, rec |-> wire[1]])
  /\ rxSeq' = rxSeq + 1
  /\ body' = Append(body, wire[1])
  /\ stage' = IF wire[1].kind = "alert" /\ mode = 1 THEN "finished" ELSE stage
  /\ UNCHANGED <<mode, serverVars, cut, binding>>

\* Mutant: each record overwrites the response assembled so far.
ReadRecordReplaces ==
  /\ NextRecord /\ Opens(wire[1]) /\ TakeRecord
  /\ log' = Append(log, [seq |-> rxSeq, rec |-> wire[1]])
  /\ rxSeq' = rxSeq + 1
  /\ body' = IF wire[1].kind = "app" THEN << wire[1] >> ELSE body
  /\ stage' = IF wire[1].kind = "alert" /\ mode = 1 THEN "finished" ELSE stage
  /\ UNCHANGED <<mode, serverVars, cut, binding>>

\* client_decrypt_record, then the inner content type; only the legacy loop
\* stops at an alert.
ReadRecord ==
  /\ NextRecord /\ Opens(wire[1]) /\ TakeRecord
  /\ log' = Append(log, [seq |-> rxSeq, rec |-> wire[1]])
  /\ rxSeq' = rxSeq + 1
  /\ body' = IF wire[1].kind = "app" THEN Append(body, wire[1]) ELSE body
  /\ stage' = IF wire[1].kind = "alert" /\ mode = 1 THEN "finished" ELSE stage
  /\ UNCHANGED <<mode, serverVars, cut, binding>>

\* The tag does not verify under rxSeq: the error ends the notary session.
ReadRejected ==
  /\ NextRecord /\ ~Opens(wire[1]) /\ TakeRecord
  /\ stage' = "failed"
  /\ UNCHANGED <<mode, serverVars, cut, rxSeq, log, body, binding>>

\* The rest of a cut record is read as a header: another content type or a
\* read error ends the loop, a record of garbage fails to decrypt.
ReadOutOfStep ==
  /\ stage = "reading" /\ cut
  /\ stage' \in {"failed", "finished"}
  /\ UNCHANGED <<mode, serverVars, wire, inbound, cut, rxSeq, log, body, binding>>

\* Mutant: only the end of the stream ends the loop, not the read timeout.
ReadEndsAtEof ==
  /\ stage = "reading" /\ ~cut /\ Len(wire) < 2 /\ closed
  /\ stage' = "finished"
  /\ UNCHANGED <<mode, serverVars, wire, inbound, cut, rxSeq, log, body, binding>>

\* End of stream, or nothing for 15 s.
ReadEnds ==
  /\ stage = "reading" /\ ~cut /\ Len(wire) < 2
  /\ stage' = "finished"
  /\ UNCHANGED <<mode, serverVars, wire, inbound, cut, rxSeq, log, body, binding>>

Over == stage \in {"failed", "finished"}

Read == ReadRecord \/ ReadRejected \/ ReadOutOfStep \/ ReadEnds
Server == SendTicket \/ SendResponse \/ Close
Next == Server \/ Drain \/ SendRequest \/ Read \/ (Over /\ UNCHANGED vars)

\* The host's reads all have timeouts; the server owes nothing.
Fairness == WF_vars(Drain) /\ WF_vars(SendRequest) /\ WF_vars(Read)

Spec == Init /\ [][Next]_vars
FairSpec == Spec /\ Fairness

-----------------------------------------------------------------------------
(* The guest on the witness of a finished session.                         *)

Witness == [requests |-> IF asked THEN 1 ELSE 0, inbound |-> inbound]

\* Version 1 bundles: the raw bytes must hash to the signed transcript hash;
\* a legacy session signs an all-zero one.
BindingHolds == mode = 2 /\ Witness = binding

\* Every 0x17 record must have a commit under the running count of them.
Walked == SelectSeq(inbound, LAMBDA r : r.kind # "plain")
WalkHolds ==
  \A i \in 1..Len(Walked) :
    /\ Walked[i].kind \in AppKeyed /\ Walked[i].n = i - 1
    /\ \E j \in 1..Len(log) : log[j].seq = i - 1 /\ log[j].rec = Walked[i]

GuestAccepts == ~cut /\ BindingHolds /\ WalkHolds

-----------------------------------------------------------------------------
\* The response the host prints is a prefix of the response the server sent,
\* whatever tickets were drained, skipped or mixed into it.
BodyIsPrefix == IsPrefix(body, OfKind("app"))

\* With rustls's sequence number taken over, a session fails only when the
\* drain stopped inside a record: tickets may come early, late or never.
OnlyCutFails == stage = "failed" => cut

\* Tickets rustls opened before a hand-over that does not count them.
TicketsUncounted == mode = 2 /\ Len(binding.inbound) > 2

\* What the code does guarantee in both modes: a session fails only when the
\* drain stopped inside a record or the two-party mode left tickets uncounted.
FailsOnlyOutOfStep == stage = "failed" => cut \/ TicketsUncounted

\* A session that got as far as the server's close_notify has the whole
\* response, and the notary has logged every record since the hand-over.
CompleteAtAlert ==
  stage = "finished" /\ Last(inbound).kind = "alert" =>
    /\ body = OfKind("app")
    /\ \E k \in 0..MaxTickets : [i \in 1..Len(log) |-> log[i].rec] = SubSeq(sent, k + 1, Len(sent))

\* Every session comes to an end, even with a server that says nothing more.
SessionEnds == <>Over

\* The hand-over from rustls happens between two records.
CleanHandover == stage = "reading" => ~cut

\* A finished session yields a witness the guest accepts.
WitnessProvable == stage = "finished" /\ ~cut => GuestAccepts

-----------------------------------------------------------------------------
(* The inductive invariant behind the safety properties: where the host is *)
(* in the server's stream.                                                 *)

Rec == [kind : {"plain", "hs"} \cup AppKeyed, n : Nat]
Taken == Len(inbound) - 2  \* records of the application key that the host has whole

StreamTypes ==
  /\ mode \in {1, 2} /\ asked \in BOOLEAN /\ closed \in BOOLEAN /\ cut \in BOOLEAN
  /\ sent \in Seq(Rec) /\ wire \in Seq(Rec) /\ inbound \in Seq(Rec) /\ body \in Seq(Rec)
  /\ log \in Seq([seq : Nat, rec : Rec])
  /\ rxSeq \in Nat /\ Taken \in 0..Len(sent)
  /\ binding.inbound \in Seq(Rec)

\* The server numbers its records, and an alert is its last.
Numbered ==
  \A i \in 1..Len(sent) :
    /\ sent[i].kind \in AppKeyed /\ sent[i].n = i - 1
    /\ sent[i].kind = "alert" => i = Len(sent) /\ closed

\* Nothing but tickets before the request.
TicketsFirst ==
  /\ stage \in {"drain", "request"} => ~asked /\ log = <<>> /\ body = <<>>
  /\ ~asked => ~closed /\ Len(sent) <= MaxTickets /\ \A i \in 1..Len(sent) : sent[i].kind = "nst"

\* What the host has is what the server sent first, and the rest is on its way.
Captured == inbound[2].kind = "hs" /\ \A i \in 1..Taken : inbound[i + 2] = sent[i]
OnItsWay ==
  ~cut =>
    /\ Len(wire) = 2 * (Len(sent) - Taken)
    /\ \A i \in 1..(Len(sent) - Taken) :
         wire[2 * i - 1] = sent[Taken + i] /\ wire[2 * i] = sent[Taken + i]

\* A drain that stopped inside a record had only tickets to take.
CutAtDrain == cut => \A i \in 1..Taken : sent[i].kind = "nst"

Drained == stage # "drain"
SeqInStep ==
  /\ ~Drained => Taken = 0 /\ rxSeq = 0 /\ ~cut /\ ~TicketsUncounted
  /\ ~cut /\ ~TicketsUncounted /\ stage # "failed" => rxSeq = Taken

\* The body so far, and the log, from some ticket on.
Assembled ==
  /\ \E i \in 0..Len(sent) : body = Kept(sent, "app")[i]
  /\ stage # "failed" => body = Kept(sent, "app")[Taken]
LoggedSince ==
  stage # "failed" =>
    /\ Taken - Len(log) \in 0..MaxTickets
    /\ \A i \in 1..Len(log) : log[i].rec = sent[(Taken - Len(log)) + i]

StreamInv ==
  /\ StreamTypes /\ Numbered /\ TicketsFirst /\ Captured /\ OnItsWay /\ CutAtDrain
  /\ SeqInStep /\ Assembled /\ LoggedSince /\ FailsOnlyOutOfStep

=============================================================================
