--------------------------- MODULE GuestResponse ---------------------------
(***************************************************************************)
(* From the application records of a captured session to the public claim: *)
(* the last part of both paths of the zkVM guest (guest/src/main.rs).      *)
(*                                                                         *)
(* A server answers one HTTP request with a JSON object, plainly or in     *)
(* chunks, and cuts the answer into TLS records of its choice.  The host   *)
(* hands the guest what it captured.  Bytes are tokens; "u1" "u2" are the  *)
(* two bytes of one character.                                             *)
(***************************************************************************)
EXTENDS Naturals, Sequences, SequencesExt

CONSTANTS
  Paths,        \* the guest's paths: "self_prove", "notary"
  PaddedPaths,  \* paths on which the server pads its records
  Bodies,       \* JSON objects the server may answer with
  MaxChunks,    \* bound: chunks of a chunked answer
  MaxRecords    \* bound: records the answer is cut into

Numeral == <<"0", "1", "2", "3", "4", "5", "6", "7">>
Byte == {"CR", "LF", ";", "{", "}", "k", "u1", "u2", "t", "c"} \cup {Numeral[n] : n \in 1..8}

\* An object fits a chunk whose size is one digit.
ASSUME ResponseAssumption ==
  /\ Paths \subseteq {"self_prove", "notary"} /\ PaddedPaths \subseteq Paths
  /\ \A b \in Bodies : b \in Seq(Byte) /\ Len(b) \in 1..7
  /\ MaxChunks \in Nat \ {0} /\ MaxRecords \in Nat \ {0}

VARIABLES
  path,     \* which path of the guest runs
  padded,   \* does the server pad its records with zeros
  answer,   \* what the server answers: the object, its chunks, its bytes
  unsent,   \* bytes of the answer not yet in a record
  records,  \* records the server has sent
  capture,  \* records the guest is given
  opened,   \* how many of them it has opened
  text,     \* the plaintext it has put together
  verdict   \* waiting | running | refused | the text of the object claimed from

vars == <<path, padded, answer, unsent, records, capture, opened, text, verdict>>

Waiting == <<"waiting">>
Running == <<"running">>
Refused == <<"refused">>

Crlf == <<"CR", "LF">>
Digits == [ d \in {Numeral[n] : n \in 1..8} |-> CHOOSE n \in 0..7 : d = Numeral[n + 1] ]

\* Position from p on where the two bytes of s begin, 0 if there is none.
Find(b, s, p) ==
  LET at == { i \in p..(Len(b) + 1 - Len(s)) : SubSeq(b, i, i + Len(s) - 1) = s }
  IN IF at = {} THEN 0 ELSE CHOOSE i \in at : \A j \in at : i <= j

-----------------------------------------------------------------------------
(* The server: any framing of HTTP/1.1 and of TLS 1.3.                     *)

\* A size line, possibly with an extension, and the data behind it.
Chunk(data, extended) ==
  << Numeral[Len(data) + 1] >> \o (IF extended THEN <<";">> ELSE <<>>) \o Crlf \o data \o Crlf

\* Ends of the chunks: some places inside the body, and its end.
Cuts(body) == { c \in UNION { [1..n -> 1..Len(body)] : n \in 1..MaxChunks } :
                  /\ \A i \in DOMAIN c : i > 1 => c[i - 1] < c[i]
                  /\ c[Len(c)] = Len(body) }

Chunked(body, cuts, extended) ==
  FlattenSeq([i \in DOMAIN cuts |->
    Chunk(SubSeq(body, (IF i = 1 THEN 0 ELSE cuts[i - 1]) + 1, cuts[i]), extended)])
  \o <<"0">> \o Crlf \o Crlf

Answers ==
  { [body |-> b, cuts |-> <<>>, raw |-> b, above |-> a] : b \in Bodies, a \in BOOLEAN }
  \cup UNION { { [body |-> b, cuts |-> c, raw |-> Chunked(b, c, Len(c) = 1), above |-> TRUE] :
                   c \in Cuts(b) } : b \in Bodies }

\* The header ends in a blank line; nothing else of it matters.
Init ==
  /\ path \in Paths /\ padded \in IF path \in PaddedPaths THEN BOOLEAN ELSE {FALSE}
  /\ answer \in Answers
  /\ unsent = Crlf \o Crlf \o answer.raw
  /\ records = <<>> /\ capture = <<>>
  /\ opened = 0 /\ text = <<>> /\ verdict = Waiting

Record(type, content) ==
  records' = Append(records, [seq |-> Len(records), type |-> type, content |-> content])

DataSent == Len(SelectSeq(records, LAMBDA r : r.type = "data"))

\* The last record the bound allows takes the rest.
SendData ==
  /\ verdict = Waiting /\ unsent # <<>>
  /\ \E k \in IF DataSent + 1 = MaxRecords THEN {Len(unsent)} ELSE 1..Len(unsent) :
       /\ Record("data", SubSeq(unsent, 1, k))
       /\ unsent' = SubSeq(unsent, k + 1, Len(unsent))
  /\ UNCHANGED <<path, padded, answer, capture, opened, text, verdict>>

\* A session ticket in front, or the close_notify at the end.
SendOther ==
  /\ verdict = Waiting
  /\ \/ records = <<>> /\ Record("ticket", <<"t">>)
     \/ unsent = <<>> /\ records[Len(records)].type = "data" /\ Record("alert", <<"c">>)
  /\ UNCHANGED <<path, padded, answer, unsent, capture, opened, text, verdict>>

-----------------------------------------------------------------------------
(* The host hands over what it captured: all of it, or a tail or a single  *)
(* record is missing, or two records have changed places.                  *)

Without(s, i) == SubSeq(s, 1, i - 1) \o SubSeq(s, i + 1, Len(s))
Swapped(s, i) == [s EXCEPT ![i] = s[i + 1], ![i + 1] = s[i]]

HandOver ==
  /\ verdict = Waiting /\ unsent = <<>>
  /\ \/ \E n \in 1..Len(records) : capture' = SubSeq(records, 1, n)
     \/ \E i \in 1..Len(records) : capture' = Without(records, i)
     \/ \E i \in 1..(Len(records) - 1) : capture' = Swapped(records, i)
  /\ verdict' = Running
  /\ UNCHANGED <<path, padded, answer, unsent, records, opened, text>>

-----------------------------------------------------------------------------
(* The guest.                                                              *)

\* What is left of a decrypted record once its type byte is taken off, and the
\* type found.  The self-proving path takes the last byte for the type, whatever
\* it is; the notarized path first removes the zeros behind it.
Stripped(r) ==
  IF path = "self_prove" /\ padded THEN [type |-> "zero", content |-> <<>>]
  ELSE [type |-> r.type, content |-> r.content]

\* Mutant: a record that does not authenticate is passed over.
OpenNextSkipping ==
  /\ verdict = Running /\ opened < Len(capture)
  /\ LET r == capture[opened + 1] IN
       text' = IF Stripped(r).type = "data" THEN text \o Stripped(r).content ELSE text
  /\ opened' = opened + 1 /\ verdict' = verdict
  /\ UNCHANGED <<path, padded, answer, unsent, records, capture>>

\* The nonce counts the records: one that is missing or out of place does not
\* authenticate (in the notarized path it is not the one committed to, either).
OpenNext ==
  /\ verdict = Running /\ opened < Len(capture)
  /\ LET r == capture[opened + 1] IN
       IF r.seq # opened
       THEN verdict' = Refused /\ UNCHANGED <<opened, text>>
       ELSE /\ opened' = opened + 1
            /\ text' = IF Stripped(r).type = "data" THEN text \o Stripped(r).content ELSE text
            /\ UNCHANGED verdict
  /\ UNCHANGED <<path, padded, answer, unsent, records, capture>>

\* Everything between the first and the second blank line.
RawBody(t) ==
  LET first == Find(t, Crlf \o Crlf, 1)
      from == first + 4
      second == Find(t, Crlf \o Crlf, from)
  IN IF first = 0 THEN <<>>
     ELSE SubSeq(t, from, IF second = 0 THEN Len(t) ELSE second - 1)

Utf8(t) == \A i \in 1..Len(t) :
  /\ t[i] = "u1" => i < Len(t) /\ t[i + 1] = "u2"
  /\ t[i] = "u2" => i > 1 /\ t[i - 1] = "u1"

\* usize::from_str_radix.  An error and a size of zero end the loop alike.
Hex(digits) ==
  LET value[n \in 0..Len(digits)] ==
        IF n = 0 THEN 0 ELSE 16 * value[n - 1] + Digits[digits[n]]
  IN IF \E i \in 1..Len(digits) : digits[i] \notin DOMAIN Digits THEN 0 ELSE value[Len(digits)]

\* Mutant: an extension behind the size is not cut off.
SizeOfWhole(line) == Hex(line)

\* The size a size line gives, its extension aside.
SizeOf(line) ==
  LET semi == Find(line, <<";">>, 1)
  IN Hex(IF semi = 0 THEN line ELSE SubSeq(line, 1, semi - 1))

\* A string is sliced between characters, or the guest panics.
Slice(data) == IF data[Len(data)] = "u1" THEN <<"panic">> ELSE data

\* unchunk: chunk after chunk, up to the last, to a size that does not parse or
\* to a chunk that is cut short.  The size line that begins at p, and what comes
\* behind the data of its chunk.
Line(b, p) == SubSeq(b, p, Find(b, Crlf, p) - 1)
Behind(b, p) == Find(b, Crlf, p) + 2 + SizeOf(Line(b, p))

\* The loop ends at p, or takes this data and goes on there.
Ends(b, p) == Find(b, Crlf, p) = 0 \/ SizeOf(Line(b, p)) = 0 \/ Behind(b, p) > Len(b) + 1
Data(b, p) == Slice(SubSeq(b, Find(b, Crlf, p) + 2, Behind(b, p) - 1))
Following(b, p) == LET q == Behind(b, p) IN IF Find(b, Crlf, q) = q THEN q + 2 ELSE q

\* What is decoded from p on, for each p.
Decoded(b) ==
  LET from[p \in 1..(Len(b) + 1)] == IF Ends(b, p) THEN <<>> ELSE Data(b, p) \o from[Following(b, p)]
  IN from
Chunks(b) == Decoded(b)[1]

\* Nothing decoded: the body is taken as it is.
Unchunked(b) == IF Chunks(b) = <<>> THEN b ELSE Chunks(b)

\* What the first bytes of t hold, white space aside.
Gathered(t) ==
  LET f[n \in 0..Len(t)] ==
        IF n = 0 THEN <<>> ELSE IF t[n] \in {"CR", "LF"} THEN f[n - 1] ELSE Append(f[n - 1], t[n])
  IN f
Significant(t) == Gathered(t)[Len(t)]

\* serde_json of an object that has the field asked for.
IsObject(t) ==
  LET s == Significant(t) IN
  /\ Len(s) >= 3 /\ s[1] = "{" /\ s[Len(s)] = "}"
  /\ \A i \in 2..(Len(s) - 1) : s[i] \in {"k", "1", "u1", "u2"}

\* The server answers with an object that has the field.
ASSUME ObjectsAssumption == \A b \in Bodies : IsObject(b) /\ Utf8(b)

\* The claim is committed, or an assertion fails.
Claim ==
  /\ verdict = Running /\ opened = Len(capture)
  /\ LET body == Unchunked(RawBody(text)) IN
       verdict' = IF Utf8(text) /\ IsObject(body) /\ answer.above THEN Significant(body) ELSE Refused
  /\ UNCHANGED <<path, padded, answer, unsent, records, capture, opened, text>>

Next == SendData \/ SendOther \/ HandOver \/ OpenNext \/ Claim

Spec == Init /\ [][Next]_vars

-----------------------------------------------------------------------------
(* Properties.                                                             *)

\* Whatever the framing, and whatever the host leaves out or reorders, what is
\* claimed from is the object the server sent, never a part of it.
ClaimFromWholeBody ==
  verdict \notin {Waiting, Running, Refused} => verdict = Significant(answer.body)

Whole == \A i \in DOMAIN records :
  records[i].type = "data" => i <= Len(capture) /\ \A j \in 1..i : capture[j] = records[j]

\* A blank line in the body, before the one that ends a chunked answer.
BlankInside ==
  LET at == Find(answer.raw, Crlf \o Crlf, 1)
  IN at # 0 /\ (answer.cuts = <<>> \/ at < Len(answer.raw) - 3)

CharacterSplit == \E i \in DOMAIN answer.cuts : answer.body[answer.cuts[i]] = "u1"

\* A complete answer that satisfies the claim is accepted, however it is framed:
\* except for a blank line in the body (RawBody ends there) and a chunk that ends
\* inside a character (Slice panics).
WholeAnswerAccepted ==
  verdict = Refused /\ Whole => ~answer.above \/ BlankInside \/ CharacterSplit

\* guest/src/main.rs line 401, "application record decryption. RFC 8446 [...]
\* Section 5.2": padding behind the type byte is part of that section.
PaddingIsNoData == ClaimFromWholeBody /\ WholeAnswerAccepted

-----------------------------------------------------------------------------
(* The plaintext, and the inductive invariant of the theorem about it.     *)

Stream == Crlf \o Crlf \o answer.raw

\* Whatever the host leaves out or exchanges, the plaintext the guest
\* has put together is the beginning of what the server sent (the loop over
\* application records in main).
TextIsBeginning == IsPrefix(text, Stream)

\* Data goes behind what there is, any other record leaves it.
Add(t, r) == IF r.type = "data" THEN t \o r.content ELSE t

\* The data of the first n records.
Joined(s) ==
  LET f[n \in 0..Len(s)] == IF n = 0 THEN <<>> ELSE Add(f[n - 1], s[n]) IN f

TlsRecord == [seq : Nat, type : {"data", "ticket", "alert"}, content : Seq(Byte)]

ResponseTypes ==
  /\ answer.raw \in Seq(Byte) /\ unsent \in Seq(Byte)
  /\ records \in Seq(TlsRecord) /\ capture \in Seq(TlsRecord)
  /\ opened \in 0..Len(capture)

\* The records are numbered, and hold what of the answer is not unsent.
SentInOrder ==
  /\ \A i \in 1..Len(records) : records[i].seq = i - 1
  /\ Joined(records)[Len(records)] \o unsent = Stream

\* The guest is given records of the server's once the answer is out.
HandedOver ==
  /\ verdict = Waiting => opened = 0 /\ capture = <<>>
  /\ verdict # Waiting => unsent = <<>>
  /\ \A i \in 1..Len(capture) : \E j \in 1..Len(records) : capture[i] = records[j]

\* It has opened the first ones, and taken their data or, padded, nothing.
OpenedInOrder ==
  /\ opened <= Len(records)
  /\ text = IF path = "self_prove" /\ padded THEN <<>> ELSE Joined(records)[opened]

ResponseInv == ResponseTypes /\ SentInOrder /\ HandedOver /\ OpenedInOrder

\* A ticket comes first, an alert last and behind data.
SentInShape ==
  /\ \A i \in 1..Len(records) : records[i].type = "ticket" => i = 1
  /\ \A i \in 1..Len(records) : records[i].type = "alert" =>
       i = Len(records) /\ i > 1 /\ records[i - 1].type = "data" /\ unsent = <<>>
  /\ unsent = <<>> => Len(records) > 0 /\ records[Len(records)].type # "ticket"

\* If nothing with data is missing, what the guest is given is what was sent, to the end
\* of the answer.
GivenInPlace ==
  verdict # Waiting /\ Whole =>
    /\ Len(capture) <= Len(records)
    /\ \A j \in 1..Len(capture) : capture[j] = records[j]
    /\ Joined(records)[Len(capture)] = Stream

AcceptInv ==
  /\ answer \in Answers /\ (padded => path \in PaddedPaths)
  /\ SentInShape /\ GivenInPlace /\ WholeAnswerAccepted

=============================================================================
