------------------------ MODULE NotaryIdentityProof ------------------------
(***************************************************************************)
(* Theorems about NotaryIdentity for any notary processes, every number of *)
(* starts, every width of the length fields, every set of names and every  *)
(* set of logs, whichever keys the presenter of a bundle has.              *)
(***************************************************************************)
EXTENDS NotaryIdentity, SigningBytesProof, TLAPS

(* The bundles.                                                            *)

\* sign_with_version signs the canonical bytes and names the key it signs under; the
\* reader verifies the bundle that is presented to it.
LEMMA BundleInvStep ==
  ASSUME BundleInv, [Next]_vars
  PROVE  BundleInv'
<1> USE DEF BundleInv
<1>1. CASE Sign
  <2>1. PICK p \in Proc : SignUnder(key[p])
    BY <1>1 DEF Sign
  <2>2. PICK c \in Signable : /\ c.notary_pubkey = key[p]
                              /\ signed' = [content |-> c, signature |-> Signature(key[p], CanonicalBytes(c))]
    BY <2>1 DEF SignUnder
  <2>3. stage' = "signed"
    BY <2>1 DEF SignUnder
  <2> QED
    BY <2>2, <2>3 DEF SignedOnce, CheckedAsPresented
<1>2. CASE ReaderChecks /\ UNCHANGED fileVars
  <2>1. PICK c \in Content : \E s \in Presentable(c) :
          /\ bundle' = [content |-> c, signature |-> s]
          /\ verdict' = IF Verifies(c, s) THEN "ok" ELSE "fail"
    BY <1>2 DEF ReaderChecks, Check
  <2>2. stage = "signed" /\ stage' = "checked" /\ signed' = signed
    BY <1>2 DEF ReaderChecks, Check
  <2>3. Presentable(c)' = Presentable(c)
    BY <2>2 DEF Presentable
  <2>4. SignedOnce'
    BY <2>2 DEF SignedOnce
  <2>5. CheckedAsPresented'
    BY <2>1, <2>3 DEF CheckedAsPresented, Presentable
  <2> QED
    BY <2>4, <2>5
<1>3. CASE UNCHANGED bundleVars
  BY <1>3 DEF bundleVars, SignedOnce, CheckedAsPresented, Presentable
<1> QED
  BY <1>1, <1>2, <1>3 DEF Next, vars

\* Before anything is signed or presented.
LEMMA BundleInvFirst == Init => BundleInv
  BY DEF Init, BundleInit, BundleInv, SignedOnce, CheckedAsPresented

\* What is in a bundle that was presented, and what sign_with_version made of the one
\* that was signed.
LEMMA Presented ==
  ASSUME BundleInv, stage = "checked"
  PROVE  /\ signed.content \in Signable /\ signed.content \in Content /\ bundle.content \in Content
         /\ signed.signature = Signature(signed.content.notary_pubkey, CanonicalBytes(signed.content))
         /\ bundle.signature \in Presentable(bundle.content)
         /\ verdict = IF Verifies(bundle.content, bundle.signature) THEN "ok" ELSE "fail"
<1>1. PICK c \in Signable :
        signed = [content |-> c, signature |-> Signature(c.notary_pubkey, CanonicalBytes(c))]
  BY DEF BundleInv, SignedOnce
<1>2. PICK d \in Content : \E s \in Presentable(d) :
        /\ bundle = [content |-> d, signature |-> s]
        /\ verdict = IF Verifies(d, s) THEN "ok" ELSE "fail"
  BY DEF BundleInv, CheckedAsPresented
<1>3. signed.content = c /\ c \in Content
  BY <1>1 DEF Signable
<1>4. bundle.content = d
  BY <1>2
<1> QED
  BY <1>1, <1>2, <1>3, <1>4

\* A signature that verifies under a key its presenter does not have is the notary's.
LEMMA NotOwnIsSigned ==
  ASSUME BundleInv, stage = "checked", verdict = "ok", ~OwnBundle
  PROVE  /\ Verifies(bundle.content, signed.signature)
         /\ bundle.content.notary_pubkey = signed.content.notary_pubkey
<1>1. Verifies(bundle.content, bundle.signature) /\ bundle.signature \in Presentable(bundle.content)
  BY Presented
<1>2. bundle.signature = signed.signature
  <2> SUFFICES ASSUME NEW k \in OwnKeys, bundle.signature = Signature(k, VerifiedBytes(bundle.content))
               PROVE  FALSE
    BY <1>1 DEF Presentable
  <2>1. k = bundle.content.notary_pubkey
    BY <1>1 DEF Verifies, Signature
  <2> QED
    BY <2>1 DEF OwnBundle
<1> QED
  BY <1>1, <1>2, Presented DEF Verifies, Signature

\* Of the bundles whose lengths their fields hold, NotaryBundle::verify accepts, under
\* a key that is not the presenter's, only what sign_with_version signed: the same
\* names, log, binding, key and version.
THEOREM NothingElseVerifies == Spec => []OnlySignedVerifies
<1>1. BundleInv => OnlySignedVerifies
  <2> SUFFICES ASSUME BundleInv, stage = "checked", verdict = "ok", ~OwnBundle, Fits(bundle.content)
               PROVE  bundle.content = signed.content
    BY DEF OnlySignedVerifies
  <2> DEFINE b == bundle.content
             c == signed.content
  <2>1. b \in Content /\ c \in Content /\ Fits(b) /\ Fits(c)
    BY Presented DEF Signable
  <2>2. Verifies(b, Signature(c.notary_pubkey, CanonicalBytes(c)))
    BY NotOwnIsSigned, Presented
  <2> HIDE DEF b, c
  <2>3. b = c
    BY <2>1, <2>2, SignatureTellsContent
  <2> QED
    BY <2>3 DEF b, c
<1>2. BundleInv /\ [Next]_vars => BundleInv'
  BY BundleInvStep
<1> QED
  BY <1>1, <1>2, BundleInvFirst, PTL DEF Spec

\* A bundle that arrives as sign_with_version made it passes NotaryBundle::verify, for
\* a notary that signs bundles with a binding.
THEOREM IntactVerifies ==
  ASSUME LEGACY \notin Versions
  PROVE  Spec => []SignedVerifies
<1>1. BundleInv => SignedVerifies
  <2> SUFFICES ASSUME BundleInv, stage = "checked", bundle = signed
               PROVE  verdict = "ok"
    BY DEF SignedVerifies
  <2>1. signed.content.version \in Versions
    BY Presented DEF Signable
  <2>2. signed.content.version >= BINDING
    <3>1. signed.content.version \in {LEGACY, BINDING} /\ signed.content.version # LEGACY
      BY <2>1, BundleAssumption
    <3>2. signed.content.version = BINDING
      BY <3>1
    <3> QED
      BY <3>2 DEF BINDING
  <2>3. Verifies(bundle.content, bundle.signature)
    BY <2>2, Presented DEF Verifies, VerifiedBytes
  <2> QED
    BY <2>3, Presented
<1>2. BundleInv /\ [Next]_vars => BundleInv'
  BY BundleInvStep
<1> QED
  BY <1>1, <1>2, BundleInvFirst, PTL DEF Spec

-----------------------------------------------------------------------------
(* The key.                                                                *)

\* A key that may be drawn is neither of the two marks for a file without one.
LEMMA KeyIsNoMark == File!Absent \notin File!Key /\ File!Empty \notin File!Key
  BY DEF File!Absent, File!Empty, File!Key

\* What FileInv says as long as there was no race.
Followed == IdentityTypes /\ Alone /\ FileFollowed /\ PrintedOnDisk /\ UsedPrinted

\* A printed key stays the one on disk whatever the processes go through in
\* load_or_create_key, killed and started again at any point, unless two of them
\* create the file at once.
LEMMA ProcessKeepsKey ==
  ASSUME Followed, Process, ~Racing'
  PROVE  Followed' /\ printed \subseteq printed'
<1> USE KeyIsNoMark, IdentityAssumption
    DEF Followed, IdentityTypes, Alone, FileFollowed, PrintedOnDisk, UsedPrinted, PcValues, File!Goes, Racing
<1>1. CASE \E p \in Proc : File!Start(p)
  BY <1>1 DEF File!Start, File!Key
<1>2. CASE \E p \in Proc : File!Exists(p)
  <2>1. PICK p \in Proc : File!Exists(p)
    BY <1>2
  <2> DEFINE to == IF disk = File!Absent THEN "create" ELSE "read"
  <2>2. /\ pc[p] = "exists" /\ pc' = [pc EXCEPT ![p] = to]
        /\ UNCHANGED <<key, disk, starts, printed, used>>
    BY <2>1 DEF File!Exists
  <2>3. /\ pc'[p] = to
        /\ \A q \in Proc : q # p => pc'[q] = pc[q]
    BY <2>2
  <2>4. IdentityTypes' /\ FileFollowed' /\ PrintedOnDisk' /\ UsedPrinted'
    BY <2>2
  <2>5. ASSUME NEW q \in Proc, q # p, pc'[p] = "create", pc'[q] \in {"create", "write"}
        PROVE  FALSE
    <3>1. disk = File!Absent /\ pc[q] = pc'[q]
      BY <2>3, <2>5
    <3>2. pc'[q] # "create"
      BY <2>5
    <3> QED
      BY <2>5, <3>1, <3>2 DEF File!Absent, File!Empty
  <2>6. Alone'
    <3> SUFFICES ASSUME NEW q \in Proc, NEW r \in Proc, q # r,
                        pc'[q] \in {"create", "write"}, pc'[r] \in {"create", "write"}
                 PROVE  FALSE
      OBVIOUS
    <3>1. to # "write"
      OBVIOUS
    <3>2. q = p => pc'[p] = "create"
      BY <2>3, <3>1
    <3>3. r = p => pc'[p] = "create"
      BY <2>3, <3>1
    <3>4. q # p /\ r # p
      BY <2>5, <3>2, <3>3
    <3> QED
      BY <2>3, <3>4
  <2> QED
    BY <2>2, <2>4, <2>6
<1>3. CASE \E p \in Proc : File!Read(p)
  BY <1>3 DEF File!Read, File!Key, File!Absent, File!Empty
<1>4. CASE \E p \in Proc : File!Create(p)
  BY <1>4 DEF File!Create
<1>5. CASE \E p \in Proc : File!Write(p)
  BY <1>5 DEF File!Write
<1>6. CASE \E p \in Proc : File!PrintKey(p)
  BY <1>6 DEF File!PrintKey
<1>7. CASE \E p \in Proc : File!Bind(p)
  BY <1>7 DEF File!Bind
<1>8. CASE \E p \in Proc : File!Stop(p)
  BY <1>8 DEF File!Stop
<1> QED
  BY <1>1, <1>2, <1>3, <1>4, <1>5, <1>6, <1>7, <1>8 DEF Process

\* A serving process signs under the key it loaded, which it had printed.
LEMMA SignKeepsKey ==
  ASSUME Followed, Sign
  PROVE  Followed' /\ SignedUnderPrinted'
<1> USE DEF Followed
<1>1. PICK p \in Proc : File!Sign(p) /\ SignUnder(key[p])
  BY DEF Sign
<1>2. /\ pc[p] = "serve" /\ used' = used \cup {key[p]}
      /\ UNCHANGED <<pc, key, disk, starts, printed>>
  BY <1>1 DEF File!Sign
<1>3. key[p] \in printed
  BY <1>2 DEF FileFollowed
<1>4. IdentityTypes' /\ Alone' /\ FileFollowed' /\ PrintedOnDisk'
  BY <1>2 DEF IdentityTypes, Alone, FileFollowed, PrintedOnDisk
<1>5. UsedPrinted'
  BY <1>2, <1>3 DEF UsedPrinted
<1>6. signed'.content.notary_pubkey = key[p]
  BY <1>1 DEF SignUnder
<1>7. SignedUnderPrinted'
  BY <1>2, <1>3, <1>6 DEF SignedUnderPrinted
<1> QED
  BY <1>4, <1>5, <1>7

\* IdentityInv holds whatever the processes do: what was printed, signed under or is
\* served stays on disk from the first whole key on, if it was made by one process.
THEOREM IdentityInductive == Spec => []IdentityInv
<1>1. Init => IdentityInv
  <2> SUFFICES ASSUME Init PROVE IdentityInv
    OBVIOUS
  <2>1. IdentityTypes /\ Alone /\ FileFollowed /\ PrintedOnDisk /\ UsedPrinted
    BY IdentityAssumption
    DEF Init, File!Init, IdentityTypes, PcValues, Alone, FileFollowed, PrintedOnDisk, UsedPrinted
  <2>2. SignedUnderPrinted
    BY DEF Init, BundleInit, SignedUnderPrinted
  <2> QED
    BY <2>1, <2>2, BundleInvFirst DEF IdentityInv, FileInv
<1>2. IdentityInv /\ [Next]_vars => IdentityInv'
  <2> SUFFICES ASSUME IdentityInv, [Next]_vars PROVE IdentityInv'
    OBVIOUS
  <2>1. BundleInv'
    BY BundleInvStep DEF IdentityInv
  <2>2. FileInv'
    <3> SUFFICES ASSUME ~raced' PROVE Followed' /\ SignedUnderPrinted'
      BY DEF FileInv, Followed
    <3>1. ~raced
      BY DEF Next, vars
    <3>2. Followed /\ SignedUnderPrinted
      BY <3>1 DEF IdentityInv, FileInv, Followed
    <3>3. CASE Sign
      BY <3>2, <3>3, SignKeepsKey
    <3>4. CASE Process /\ UNCHANGED bundleVars /\ raced' = (raced \/ Racing')
      <4>1. Followed' /\ printed \subseteq printed'
        BY <3>2, <3>4, ProcessKeepsKey
      <4> QED
        BY <3>2, <3>4, <4>1 DEF SignedUnderPrinted, bundleVars
    <3>5. CASE ReaderChecks /\ UNCHANGED fileVars
      <4>1. stage = "signed" /\ signed' = signed
        BY <3>5 DEF ReaderChecks, Check
      <4> QED
        BY <3>2, <3>5, <4>1 DEF fileVars, Followed, IdentityTypes, Alone, FileFollowed, PrintedOnDisk,
           UsedPrinted, SignedUnderPrinted
    <3>6. CASE UNCHANGED vars
      BY <3>2, <3>6 DEF vars, fileVars, bundleVars, Followed, IdentityTypes, Alone, FileFollowed,
         PrintedOnDisk, UsedPrinted, SignedUnderPrinted
    <3> QED
      BY <3>3, <3>4, <3>5, <3>6 DEF Next
  <2> QED
    BY <2>1, <2>2 DEF IdentityInv
<1> QED
  BY <1>1, <1>2, PTL DEF Spec

\* Unless two processes were creating the file at once, a process that has its key to
\* serve with can be killed and started again: what it would load is that key
\* (load_or_create_key).
THEOREM ServedKeyStays == Spec => []ServedKeyOnDisk
<1>1. IdentityInv => ServedKeyOnDisk
  BY DEF IdentityInv, FileInv, FileFollowed, ServedKeyOnDisk
<1> QED
  BY <1>1, IdentityInductive, PTL

\* Across all their starts, and unless two of them were creating the file at once, the
\* notary's processes print one public key and sign under no other ("long-term key,
\* created on first run").
THEOREM OneKeyUnlessRaced == Spec => [](~raced => File!OneKey)
<1>1. IdentityInv => (~raced => File!OneKey)
  BY DEF IdentityInv, FileInv, UsedPrinted, PrintedOnDisk, File!OneKey
<1> QED
  BY <1>1, IdentityInductive, PTL

\* A bundle that verifies is its presenter's own, or names the one public key that was
\* ever printed.
THEOREM OwnOrTold == Spec => []ToldKeyUnlessOwn
<1>1. IdentityInv => ToldKeyUnlessOwn
  <2> SUFFICES ASSUME IdentityInv, stage = "checked", verdict = "ok", ~raced, ~OwnBundle
               PROVE  printed = {bundle.content.notary_pubkey}
    BY DEF ToldKeyUnlessOwn
  <2>1. bundle.content.notary_pubkey = signed.content.notary_pubkey
    BY NotOwnIsSigned DEF IdentityInv
  <2>2. signed.content.notary_pubkey \in printed
    BY DEF IdentityInv, FileInv, SignedUnderPrinted
  <2> QED
    BY <2>1, <2>2 DEF IdentityInv, FileInv, PrintedOnDisk
<1> QED
  BY <1>1, IdentityInductive, PTL

=============================================================================
