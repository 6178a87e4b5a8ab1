--------------------------- MODULE SigningKeyFile ---------------------------
(***************************************************************************)
(* The notary's long-term signing key: load_or_create_key and the start of *)
(* main in notary/src/bin/notary_proxy.rs, over a file system on which     *)
(* creating a file and filling it are two steps.                           *)
(***************************************************************************)
EXTENDS Integers

CONSTANTS
  Proc,       \* notary processes sharing one key path and one port
  MaxStarts   \* bound: process starts, each of which may draw a key of its own

VARIABLES
  pc,       \* per process: off | exists | read | create | write | print | bind | serve
  key,      \* per process: the key it holds or would draw
  disk,     \* the key file
  starts,   \* starts so far; the next key to be drawn
  printed,  \* public keys printed for verifiers
  signed    \* keys bundles were signed under

vars == <<pc, key, disk, starts, printed, signed>>

Key == 1..MaxStarts
Absent == -1
Empty == 0

Init ==
  /\ pc = [p \in Proc |-> "off"] /\ key = [p \in Proc |-> 0]
  /\ disk = Absent /\ starts = 0 /\ printed = {} /\ signed = {}

Goes(p, from, to) == pc[p] = from /\ pc' = [pc EXCEPT ![p] = to]

\* The seed this start may have to draw is fixed here.
Start(p) ==
  /\ starts < MaxStarts /\ Goes(p, "off", "exists")
  /\ starts' = starts + 1 /\ key' = [key EXCEPT ![p] = starts + 1]
  /\ UNCHANGED <<disk, printed, signed>>

\* Mutant: a key is drawn at every start.
ExistsNever(p) ==
  /\ Goes(p, "exists", "create")
  /\ UNCHANGED <<key, disk, starts, printed, signed>>

Exists(p) ==
  /\ Goes(p, "exists", IF disk = Absent THEN "create" ELSE "read")
  /\ UNCHANGED <<key, disk, starts, printed, signed>>

\* A file that does not hold exactly 32 bytes ends the process.
Read(p) ==
  /\ Goes(p, "read", IF disk \in Key THEN "print" ELSE "off")
  /\ key' = [key EXCEPT ![p] = disk]
  /\ UNCHANGED <<disk, starts, printed, signed>>

\* Mutant: a fresh key is used without being written.
CreateSkipped(p) ==
  /\ Goes(p, "create", "print")
  /\ UNCHANGED <<key, disk, starts, printed, signed>>

\* fs::write: create or truncate, then write.
Create(p) ==
  /\ Goes(p, "create", "write")
  /\ disk' = Empty
  /\ UNCHANGED <<key, starts, printed, signed>>

Write(p) ==
  /\ Goes(p, "write", "print")
  /\ disk' = key[p]
  /\ UNCHANGED <<key, starts, printed, signed>>

\* The public key is printed before the port is bound.
PrintKey(p) ==
  /\ Goes(p, "print", "bind")
  /\ printed' = printed \cup {key[p]}
  /\ UNCHANGED <<key, disk, starts, signed>>

Bind(p) ==
  /\ Goes(p, "bind", IF \E q \in Proc : pc[q] = "serve" THEN "off" ELSE "serve")
  /\ UNCHANGED <<key, disk, starts, printed, signed>>

\* A session that ends with OP_FINISH.
Sign(p) ==
  /\ pc[p] = "serve"
  /\ signed' = signed \cup {key[p]}
  /\ UNCHANGED <<pc, key, disk, starts, printed>>

Stop(p) ==
  /\ pc[p] # "off"
  /\ pc' = [pc EXCEPT ![p] = "off"]
  /\ UNCHANGED <<key, disk, starts, printed, signed>>

Next == \E p \in Proc :
  \/ Start(p) \/ Exists(p) \/ Read(p) \/ Create(p) \/ Write(p)
  \/ PrintKey(p) \/ Bind(p) \/ Sign(p) \/ Stop(p)

Spec == Init /\ [][Next]_vars

-----------------------------------------------------------------------------
\* Across crashes and restarts verifiers are told one public key, and every
\* bundle is signed under it ("long-term key, created on first run").
OneKey == (\A j, k \in printed : j = k) /\ signed \subseteq printed

\* Once the first run is over there is a key to load.
FirstRunCreates ==
  (starts > 0 /\ \A p \in Proc : pc[p] = "off") => disk # Empty

=============================================================================
