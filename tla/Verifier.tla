------------------------------ MODULE Verifier ------------------------------
(***************************************************************************)
(* The public check of a CV entry: VerifyEntry of                          *)
(* backend/internal/cv/service.go and the OpenTimestamps verifier of       *)
(* backend/internal/ots/verify.go.  The file is hashed again, the stored   *)
(* proof is replayed offline, and each block it names is looked up at a    *)
(* chain source that may answer for some blocks and fail for others.       *)
(*                                                                         *)
(* One call is modelled: it shares nothing with other calls but the entry, *)
(* which it reads once.  An attested sequence of the proof is the height   *)
(* it names (0: none), whether it replays to a transaction and a 32-byte   *)
(* root (formed), and whether that root is the named block's (genuine).    *)
(***************************************************************************)
EXTENDS Integers, Sequences

CONSTANTS MaxHeight,   \* heights are 1..MaxHeight
          MaxSeqs      \* attested sequences in a proof

ASSUME BoundAssumption == MaxHeight \in Nat /\ MaxSeqs \in Nat

\* Of a sequence that names no block nothing else is looked at.
Attestation == {a \in [height : 0..MaxHeight, formed : BOOLEAN, genuine : BOOLEAN] :
                  a.height = 0 => a.formed /\ a.genuine}

\* parseProofFile fails, the proof is for another digest, or neither.
Files == {"unreadable", "otherDigest", "ok"}

VARIABLES
  file, seqs,        \* the stored proof
  confirmed,         \* ots_confirmed_at is set
  blob,              \* the artifact's file: missing, changed or intact
  chain,             \* a chain source is configured
  pc,
  i, minHeight, best, fetchErr,  \* the loop: index, lowest, its block, error
  fetched,           \* sequences whose block header was fetched
  valid, result      \* the answer

input == <<file, seqs, confirmed, blob, chain>>
loop  == <<i, minHeight, best, fetchErr, fetched>>
vars  == <<input, pc, loop, valid, result>>

\* height and time (the sequence whose block supplies it) are 0 when unset; a
\* height is reported with every verified proof and with no other.
Results == {res \in [ots : {"unchecked", "failed", "verified"}, height : 0..MaxHeight,
                     time : 0..MaxSeqs, chainChecked : BOOLEAN, chainErr : BOOLEAN] :
              res.ots = "verified" <=> res.height # 0}

Unverified(verdict) ==
  [ots |-> verdict, height |-> 0, time |-> 0, chainChecked |-> FALSE, chainErr |-> FALSE]

\* The proof stands; without a chain answer it has no block time.
Offline(h, err) ==
  [ots |-> "verified", height |-> h, time |-> 0, chainChecked |-> FALSE, chainErr |-> err]

OnChain(h, t) ==
  [ots |-> "verified", height |-> h, time |-> t, chainChecked |-> TRUE, chainErr |-> FALSE]

TypeOK ==
  /\ file \in Files
  /\ seqs \in Seq(Attestation)
  /\ Len(seqs) <= MaxSeqs
  /\ {confirmed, chain, fetchErr, valid} \subseteq BOOLEAN
  /\ blob \in {"missing", "changed", "intact"}
  /\ pc \in {"hash", "parse", "offline", "chain", "done", "error"}
  /\ i \in 1..MaxSeqs + 1
  /\ minHeight \in 0..MaxHeight
  /\ best \in 0..MaxSeqs
  /\ fetched \subseteq 1..MaxSeqs
  /\ result \in Results

Attested(j) == seqs[j].height # 0
InProof     == {j \in DOMAIN seqs : Attested(j)}

-----------------------------------------------------------------------------
(* VerifyEntry: the file, then the proof if there is a confirmed one.      *)

HashFails ==
  /\ pc = "hash"
  /\ blob = "missing"
  /\ pc' = "error"
  /\ UNCHANGED <<input, loop, valid, result>>

HashBlob ==
  /\ pc = "hash"
  /\ blob # "missing"
  /\ valid' = (blob = "intact")
  /\ pc' = IF confirmed THEN "parse" ELSE "done"
  /\ UNCHANGED <<input, loop, result>>

\* The answer goes out with this verdict; an error is logged, nothing more.
Answer(res) == /\ result' = res
               /\ pc' = "done"

-----------------------------------------------------------------------------
(* VerifyProof: the offline replay.                                        *)

Parse ==
  /\ pc = "parse"
  /\ IF file = "ok" /\ seqs # <<>>
       THEN pc' = "offline" /\ UNCHANGED result
       ELSE Answer(Unverified("failed"))
  /\ UNCHANGED <<input, loop, valid>>

\* if minHeight == 0 || h < minHeight
Lower(h) == IF minHeight = 0 \/ h < minHeight THEN h ELSE minHeight

\* One round of the loop; a malformed sequence ends it with ErrInvalidProof.
Replay ==
  /\ pc = "offline"
  /\ i <= Len(seqs)
  /\ IF Attested(i) /\ ~seqs[i].formed
       THEN Answer(Unverified("failed")) /\ UNCHANGED loop
       ELSE /\ minHeight' = IF Attested(i) THEN Lower(seqs[i].height) ELSE minHeight
            /\ i' = i + 1
            /\ UNCHANGED <<pc, result, best, fetchErr, fetched>>
  /\ UNCHANGED <<input, valid>>

OfflineResult == Offline(minHeight, FALSE)

\* The loop's end: ErrNotBitcoinAttested, the offline result (no chain source),
\* or it is kept while verifyAgainstChain starts over.
ReplayDone ==
  /\ pc = "offline"
  /\ i > Len(seqs)
  /\ IF minHeight = 0 THEN Answer(Unverified("failed")) /\ UNCHANGED loop
     ELSE IF ~chain THEN Answer(OfflineResult) /\ UNCHANGED loop
     ELSE /\ pc' = "chain"
          /\ result' = OfflineResult
          /\ i' = 1
          /\ minHeight' = 0
          /\ UNCHANGED <<best, fetchErr, fetched>>
  /\ UNCHANGED <<input, valid>>

-----------------------------------------------------------------------------
(* verifyAgainstChain: one block lookup per attested sequence.             *)

SkipUnattested ==
  /\ pc = "chain"
  /\ i <= Len(seqs)
  /\ ~Attested(i)
  /\ i' = i + 1
  /\ UNCHANGED <<input, pc, minHeight, best, fetchErr, fetched, valid, result>>

\* Faulty variant: a failed lookup fails the verification.
FetchFailureFatal ==
  /\ pc = "chain"
  /\ i <= Len(seqs)
  /\ Attested(i)
  /\ Answer(Unverified("failed"))
  /\ UNCHANGED <<input, loop, valid>>

\* GetBlockHash or GetBlockHeader fails: note the error and go on.
FetchFails ==
  /\ pc = "chain"
  /\ i <= Len(seqs)
  /\ Attested(i)
  /\ fetchErr' = TRUE
  /\ i' = i + 1
  /\ UNCHANGED <<input, pc, minHeight, best, fetched, valid, result>>

\* Faulty variant: a wrong root is taken for a failed lookup.
MismatchSkipped ==
  /\ pc = "chain"
  /\ i <= Len(seqs)
  /\ Attested(i) /\ ~seqs[i].genuine
  /\ fetched' = fetched \cup {i}
  /\ fetchErr' = TRUE
  /\ i' = i + 1
  /\ UNCHANGED <<input, pc, minHeight, best, valid, result>>

\* The block's merkle root is not the one the proof computes.
Mismatch ==
  /\ pc = "chain"
  /\ i <= Len(seqs)
  /\ Attested(i) /\ ~seqs[i].genuine
  /\ fetched' = fetched \cup {i}
  /\ Answer(Unverified("failed"))
  /\ UNCHANGED <<input, i, minHeight, best, fetchErr, valid>>

\* Faulty variant: the time is taken from every matching block.
MatchLastTime ==
  /\ pc = "chain"
  /\ i <= Len(seqs)
  /\ Attested(i) /\ seqs[i].genuine
  /\ fetched' = fetched \cup {i}
  /\ minHeight' = Lower(seqs[i].height)
  /\ best' = i
  /\ i' = i + 1
  /\ UNCHANGED <<input, pc, fetchErr, valid, result>>

Match ==
  /\ pc = "chain"
  /\ i <= Len(seqs)
  /\ Attested(i) /\ seqs[i].genuine
  /\ fetched' = fetched \cup {i}
  /\ minHeight' = Lower(seqs[i].height)
  /\ best' = IF minHeight' # minHeight THEN i ELSE best
  /\ i' = i + 1
  /\ UNCHANGED <<input, pc, fetchErr, valid, result>>

\* Faulty variant: the second loop's result is used without the test that any
\* block matched.
ChainDoneUntested ==
  /\ pc = "chain"
  /\ i > Len(seqs)
  /\ Answer(OnChain(minHeight, best))
  /\ UNCHANGED <<input, loop, valid>>

\* No block matched: errChainUnavailable if a lookup failed, so that the offline
\* result stands with ChainErr, ErrNotBitcoinAttested if none did.  Otherwise the
\* chain's height and time replace the offline ones.
ChainDone ==
  /\ pc = "chain"
  /\ i > Len(seqs)
  /\ Answer(IF minHeight # 0 THEN OnChain(minHeight, best)
            ELSE IF fetchErr THEN Offline(result.height, TRUE)
            ELSE Unverified("failed"))
  /\ UNCHANGED <<input, loop, valid>>

-----------------------------------------------------------------------------
Proofs == UNION {[1..n -> Attestation] : n \in 0..MaxSeqs}

Init ==
  /\ file \in Files
  /\ seqs \in Proofs
  /\ file # "ok" => seqs = <<>>
  /\ confirmed \in BOOLEAN
  /\ blob \in {"missing", "changed", "intact"}
  /\ chain \in BOOLEAN
  /\ pc = "hash"
  /\ i = 1
  /\ minHeight = 0
  /\ best = 0
  /\ fetchErr = FALSE
  /\ fetched = {}
  /\ valid = FALSE
  /\ result = Unverified("unchecked")

Next ==
  \/ HashFails \/ HashBlob \/ Parse \/ Replay \/ ReplayDone
  \/ SkipUnattested \/ FetchFails \/ Mismatch \/ Match \/ ChainDone

Spec == Init /\ [][Next]_vars

-----------------------------------------------------------------------------
(* Safety.  What the loops compute, stated over the set of sequences.      *)

LowestOf(S, h) == /\ \E j \in S : seqs[j].height = h
                  /\ \A j \in S : h <= seqs[j].height

\* What VerifyProof must accept: some sequence names a block, and all that do
\* replay.
OfflineValid == /\ file = "ok"
                /\ InProof # {}
                /\ \A j \in InProof : seqs[j].formed

\* An entry is reported anchored only on a proof that replays, and never when
\* any block the chain source did return contradicts it, in whatever order the
\* sequences come and however many other lookups fail or match (Verifier: "A
\* mismatch means the proof is not anchored in Bitcoin ... and verification
\* fails").
NoContradictedProofVerified ==
  pc = "done" /\ result.ots = "verified" =>
    OfflineValid /\ \A j \in fetched : seqs[j].genuine

\* The reported height is the lowest attested one (Verification.BlockHeight:
\* "the lowest attested Bitcoin block height in the proof") unless the chain was
\* asked and a lookup failed: then it is the lowest of the confirmed blocks, which
\* may lie above it (verifyAgainstChain: "the lowest confirmed height and that
\* block's header timestamp").  The time is that of the block at this height.
ReportsLowestBlock ==
  pc = "done" /\ result.ots = "verified" =>
    /\ ~(result.chainChecked /\ fetchErr) => LowestOf(InProof, result.height)
    /\ result.chainChecked =>
         /\ LowestOf(fetched, result.height)
         /\ result.time \in fetched
         /\ seqs[result.time].height = result.height
    /\ ~result.chainChecked => result.time = 0

\* A chain source that is down costs no entry its verdict: a replayable proof
\* fails only against a block that was really fetched, and the answer is marked
\* as degraded exactly when a configured source returned none of its blocks.
UnreachableChainDegrades ==
  pc = "done" /\ confirmed /\ OfflineValid =>
    /\ result.ots = "failed" => \E j \in fetched : ~seqs[j].genuine
    /\ result.chainErr <=> (chain /\ fetched = {})
=============================================================================
