--------------------------- MODULE VerifierProofs ---------------------------
(***************************************************************************)
(* Theorems about Verifier, for proofs of any length and blocks of any     *)
(* height.                                                                 *)
(***************************************************************************)
EXTENDS Verifier, TLAPS

-----------------------------------------------------------------------------
(* The inductive invariant, in parts: what each stage knows.               *)

InputOK ==
  /\ file \in Files
  /\ seqs \in Seq(Attestation)
  /\ Len(seqs) <= MaxSeqs
  /\ confirmed \in BOOLEAN /\ chain \in BOOLEAN
  /\ blob \in {"missing", "changed", "intact"}

LoopOK ==
  /\ pc \in {"hash", "parse", "offline", "chain", "done", "error"}
  /\ i \in 1..Len(seqs) + 1
  /\ minHeight \in 0..MaxHeight
  /\ best \in 0..MaxSeqs
  /\ fetchErr \in BOOLEAN /\ valid \in BOOLEAN
  /\ fetched \subseteq InProof
  /\ result \in Results

\* The sequences that name a block and that a loop is through with.
Seen == {j \in InProof : j < i}

\* minHeight is the lowest height of S, 0 if there is none.
MinOver(S) == IF S = {} THEN minHeight = 0 ELSE LowestOf(S, minHeight)

StartOK ==
  pc \in {"hash", "parse"} =>
    i = 1 /\ minHeight = 0 /\ fetched = {} /\ result = Unverified("unchecked")

OfflineOK ==
  pc = "offline" =>
    /\ file = "ok" /\ fetched = {} /\ result = Unverified("unchecked")
    /\ \A j \in Seen : seqs[j].formed
    /\ MinOver(Seen)

ChainOK ==
  pc = "chain" =>
    /\ chain /\ OfflineValid
    /\ LowestOf(InProof, result.height)
    /\ fetched \subseteq Seen
    /\ fetched # Seen => fetchErr
    /\ \A j \in fetched : seqs[j].genuine
    /\ MinOver(fetched)
    /\ fetched # {} => best \in fetched /\ seqs[best].height = minHeight

Verdict == NoContradictedProofVerified /\ ReportsLowestBlock /\ UnreachableChainDegrades

IInv == InputOK /\ LoopOK /\ StartOK /\ OfflineOK /\ ChainOK /\ Verdict

-----------------------------------------------------------------------------
\* An attested sequence has a height of at least one.
LEMMA HeightFacts ==
  ASSUME InputOK, NEW j \in DOMAIN seqs
  PROVE  /\ seqs[j] \in Attestation
         /\ seqs[j].height \in 0..MaxHeight
         /\ Attested(j) => seqs[j].height \in 1..MaxHeight
<1>1. seqs[j] \in Attestation
  BY DEF InputOK
<1> QED BY <1>1, BoundAssumption DEF Attestation, Attested

\* Adding a sequence to S and its height to the minimum keeps them in step.
LEMMA LowerStep ==
  ASSUME InputOK, NEW S \in SUBSET InProof, NEW j \in InProof, MinOver(S),
         minHeight \in 0..MaxHeight, minHeight' = Lower(seqs[j].height), seqs' = seqs
  PROVE  /\ LowestOf(S \cup {j}, minHeight')
         /\ minHeight' \in 1..MaxHeight
         /\ minHeight' = minHeight => S # {} /\ minHeight # 0
         /\ minHeight' # minHeight => seqs[j].height = minHeight'
<1>1. \A k \in InProof : seqs[k].height \in 1..MaxHeight
  BY HeightFacts DEF InProof
<1>2. CASE S = {}
  <2>1. minHeight = 0 /\ minHeight' = seqs[j].height
    BY <1>2 DEF MinOver, Lower
  <2> QED BY <1>1, <1>2, <2>1, BoundAssumption DEF LowestOf
<1>3. CASE S # {}
  <2>1. LowestOf(S, minHeight) /\ minHeight # 0
    BY <1>1, <1>3, BoundAssumption DEF MinOver, LowestOf
  <2>2. CASE seqs[j].height < minHeight
    <3>1. minHeight' = seqs[j].height
      BY <2>2 DEF Lower
    <3> QED BY <1>1, <1>3, <2>1, <2>2, <3>1, BoundAssumption DEF LowestOf
  <2>3. CASE ~(seqs[j].height < minHeight)
    <3>1. minHeight' = minHeight
      BY <2>1, <2>3 DEF Lower
    <3> QED BY <1>1, <1>3, <2>1, <2>3, <3>1, BoundAssumption DEF LowestOf
  <2> QED BY <2>2, <2>3
<1> QED BY <1>2, <1>3

\* The entry and its file do not change during a call.
LEMMA Frame ==
  ASSUME InputOK, UNCHANGED input
  PROVE  /\ InputOK' /\ InProof' = InProof /\ OfflineValid' = OfflineValid
         /\ seqs' = seqs /\ chain' = chain /\ confirmed' = confirmed
<1>1. /\ file' = file /\ seqs' = seqs /\ confirmed' = confirmed /\ blob' = blob /\ chain' = chain
  BY DEF input
<1>2. InProof' = InProof
  BY <1>1 DEF InProof, Attested
<1> QED BY <1>1, <1>2 DEF InputOK, OfflineValid

\* What the three kinds of answer say.
LEMMA ResultFacts ==
  /\ \A v \in {"unchecked", "failed"} :
       /\ Unverified(v) \in Results /\ Unverified(v).ots = v
       /\ ~Unverified(v).chainErr
  /\ \A h \in 1..MaxHeight, err \in BOOLEAN :
       /\ Offline(h, err) \in Results
       /\ Offline(h, err).height = h /\ Offline(h, err).time = 0
       /\ Offline(h, err).chainErr = err /\ ~Offline(h, err).chainChecked
  /\ \A h \in 1..MaxHeight, k \in 0..MaxSeqs :
       /\ OnChain(h, k) \in Results
       /\ OnChain(h, k).height = h /\ OnChain(h, k).time = k
       /\ ~OnChain(h, k).chainErr /\ OnChain(h, k).chainChecked
<1>1. 0 \in 0..MaxHeight /\ 0 \in 0..MaxSeqs
  BY BoundAssumption
<1>2. ASSUME NEW v \in {"unchecked", "failed"}
      PROVE  /\ Unverified(v) \in Results /\ Unverified(v).ots = v
             /\ ~Unverified(v).chainErr
  BY <1>1 DEF Unverified, Results
<1>3. ASSUME NEW h \in 1..MaxHeight, NEW err \in BOOLEAN
      PROVE  /\ Offline(h, err) \in Results
             /\ Offline(h, err).height = h /\ Offline(h, err).time = 0
             /\ Offline(h, err).chainErr = err /\ ~Offline(h, err).chainChecked
  BY <1>1, BoundAssumption DEF Offline, Results
<1>4. ASSUME NEW h \in 1..MaxHeight, NEW k \in 0..MaxSeqs
      PROVE  /\ OnChain(h, k) \in Results
             /\ OnChain(h, k).height = h /\ OnChain(h, k).time = k
             /\ ~OnChain(h, k).chainErr /\ OnChain(h, k).chainChecked
  BY BoundAssumption DEF OnChain, Results
<1> QED BY <1>2, <1>3, <1>4

\* A failed verification has to name a reason: an invalid proof or a block that
\* contradicts it.
LEMMA FailedStep ==
  ASSUME InputOK, LoopOK, UNCHANGED <<input, i, minHeight, best, fetchErr, valid>>,
         fetched' \subseteq InProof, Answer(Unverified("failed")),
         OfflineValid => \E j \in fetched' : ~seqs[j].genuine
  PROVE  IInv'
<1>1. /\ InputOK' /\ InProof' = InProof /\ OfflineValid' = OfflineValid
      /\ seqs' = seqs /\ chain' = chain /\ confirmed' = confirmed
  BY Frame
<1>2. /\ pc' = "done" /\ result' = Unverified("failed")
      /\ result' \in Results /\ result'.ots = "failed" /\ ~result'.chainErr
  BY ResultFacts DEF Answer
<1>3. LoopOK'
  BY <1>1, <1>2 DEF LoopOK
<1>4. StartOK' /\ OfflineOK' /\ ChainOK'
  BY <1>2 DEF StartOK, OfflineOK, ChainOK
<1>5. NoContradictedProofVerified' /\ ReportsLowestBlock'
  BY <1>2 DEF NoContradictedProofVerified, ReportsLowestBlock
<1>6. UnreachableChainDegrades'
  BY <1>1, <1>2 DEF UnreachableChainDegrades
<1> QED BY <1>1, <1>3, <1>4, <1>5, <1>6 DEF IInv, Verdict

-----------------------------------------------------------------------------
\* Any stored proof, file and configuration.
LEMMA InitInvariant == Init => IInv
<1> SUFFICES ASSUME Init PROVE IInv
  OBVIOUS
<1>1. seqs \in Seq(Attestation) /\ Len(seqs) \in Nat /\ Len(seqs) <= MaxSeqs
  BY BoundAssumption DEF Init, Proofs
<1>2. InputOK
  BY <1>1 DEF Init, InputOK
<1>3. LoopOK
  <2>1. i \in 1..Len(seqs) + 1 /\ minHeight \in 0..MaxHeight /\ best \in 0..MaxSeqs
    BY <1>1, BoundAssumption DEF Init
  <2>2. result \in Results
    BY ResultFacts DEF Init
  <2> QED BY <2>1, <2>2 DEF Init, LoopOK
<1> QED BY <1>2, <1>3 DEF Init, IInv, StartOK, OfflineOK, ChainOK, Verdict,
           NoContradictedProofVerified, ReportsLowestBlock, UnreachableChainDegrades

\* The file is hashed, or cannot be.
LEMMA HashStep ==
  ASSUME IInv, HashFails \/ HashBlob
  PROVE  IInv'
<1>1. /\ pc = "hash" /\ UNCHANGED <<input, loop, result>>
      /\ valid' \in BOOLEAN /\ pc' \in {"error", "parse", "done"}
      /\ pc' = "done" => ~confirmed
  BY DEF HashFails, HashBlob, IInv, LoopOK
<1>2. /\ InputOK' /\ InProof' = InProof /\ seqs' = seqs /\ confirmed' = confirmed
  BY <1>1, Frame DEF IInv
<1>3. result' = Unverified("unchecked") /\ result'.ots = "unchecked"
  BY <1>1, ResultFacts DEF IInv, StartOK
<1>4. LoopOK' /\ StartOK'
  BY <1>1, <1>2 DEF IInv, LoopOK, StartOK, loop
<1>5. OfflineOK' /\ ChainOK'
  BY <1>1 DEF OfflineOK, ChainOK
<1>6. Verdict'
  BY <1>1, <1>2, <1>3 DEF Verdict, NoContradictedProofVerified, ReportsLowestBlock,
                          UnreachableChainDegrades
<1> QED BY <1>2, <1>4, <1>5, <1>6 DEF IInv

\* A proof that can be read is replayed from its first sequence.
LEMMA ParseStep ==
  ASSUME IInv, Parse
  PROVE  IInv'
<1>1. pc = "parse" /\ UNCHANGED <<input, loop, valid>> /\ i = 1 /\ minHeight = 0 /\ fetched = {}
  BY DEF Parse, IInv, StartOK
<1>2. CASE ~(file = "ok" /\ seqs # <<>>)
  <2>1. ~OfflineValid
    BY <1>2 DEF OfflineValid, InProof
  <2>2. Answer(Unverified("failed"))
    BY <1>2 DEF Parse
  <2> QED BY <1>1, <2>1, <2>2, FailedStep DEF IInv, loop
<1>3. CASE file = "ok" /\ seqs # <<>>
  <2>1. pc' = "offline" /\ result' = result /\ result = Unverified("unchecked")
    BY <1>1, <1>3 DEF Parse, IInv, StartOK
  <2>2. InputOK' /\ InProof' = InProof /\ seqs' = seqs
    BY <1>1, Frame DEF IInv
  <2>3. LoopOK'
    BY <1>1, <2>1, <2>2 DEF IInv, LoopOK, loop
  <2>4. Seen' = {}
    BY <1>1, <2>2 DEF Seen, loop, InProof, IInv, InputOK
  <2>5. OfflineOK'
    BY <1>1, <1>3, <2>1, <2>4 DEF OfflineOK, MinOver, loop, input
  <2>6. StartOK' /\ ChainOK' /\ Verdict'
    BY <2>1 DEF StartOK, ChainOK, Verdict, NoContradictedProofVerified, ReportsLowestBlock,
                UnreachableChainDegrades
  <2> QED BY <2>2, <2>3, <2>5, <2>6 DEF IInv
<1> QED BY <1>2, <1>3

\* When a loop is past the last sequence it has seen them all.
LEMMA SeenAll ==
  ASSUME InputOK, LoopOK, i > Len(seqs)
  PROVE  Seen = InProof
<1>1. \A j \in DOMAIN seqs : j \in 1..Len(seqs)
  BY DEF InputOK
<1>2. Len(seqs) \in Nat
  BY DEF InputOK
<1> QED BY <1>1, <1>2 DEF Seen, InProof, LoopOK

\* One round of a loop takes sequence i off the ones to come.
LEMMA SeenStep ==
  ASSUME InputOK, LoopOK, i <= Len(seqs), i' = i + 1, seqs' = seqs
  PROVE  /\ Seen' = IF Attested(i) THEN Seen \cup {i} ELSE Seen
         /\ i \in DOMAIN seqs /\ i' \in 1..Len(seqs') + 1
<1>1. Len(seqs) \in Nat /\ DOMAIN seqs = 1..Len(seqs)
  BY DEF InputOK
<1>2. i \in 1..Len(seqs) /\ i' \in 1..Len(seqs') + 1
  BY <1>1 DEF LoopOK
<1>3. InProof' = InProof /\ \A j \in InProof : j \in Int
  BY <1>1 DEF InProof, Attested
<1>4. ASSUME NEW j \in InProof
      PROVE  j < i' <=> (j < i \/ j = i)
  BY <1>2, <1>3
<1>5. i \in InProof <=> Attested(i)
  BY <1>1, <1>2 DEF InProof
<1> QED BY <1>1, <1>2, <1>3, <1>4, <1>5 DEF Seen

\* The replay stops at a malformed sequence and keeps the lowest height so far.
LEMMA ReplayStep ==
  ASSUME IInv, Replay
  PROVE  IInv'
<1>1. /\ pc = "offline" /\ i <= Len(seqs) /\ UNCHANGED <<input, valid>>
      /\ file = "ok" /\ fetched = {} /\ result = Unverified("unchecked")
      /\ \A j \in Seen : seqs[j].formed
      /\ MinOver(Seen)
  BY DEF Replay, IInv, OfflineOK
<1>2. /\ InputOK /\ LoopOK /\ InputOK' /\ InProof' = InProof /\ seqs' = seqs
  BY <1>1, Frame DEF IInv
<1>3. i \in DOMAIN seqs
  BY <1>1, <1>2 DEF InputOK, LoopOK
<1>4. CASE Attested(i) /\ ~seqs[i].formed
  <2>1. ~OfflineValid
    BY <1>3, <1>4 DEF OfflineValid, InProof
  <2>2. Answer(Unverified("failed")) /\ UNCHANGED loop
    BY <1>4 DEF Replay
  <2> QED BY <1>1, <1>2, <2>1, <2>2, FailedStep DEF loop, LoopOK
<1>5. CASE ~(Attested(i) /\ ~seqs[i].formed)
  <2>1. /\ minHeight' = (IF Attested(i) THEN Lower(seqs[i].height) ELSE minHeight)
        /\ i' = i + 1 /\ UNCHANGED <<pc, result, best, fetchErr, fetched>>
    BY <1>5 DEF Replay
  <2>2. /\ Seen' = IF Attested(i) THEN Seen \cup {i} ELSE Seen
        /\ i' \in 1..Len(seqs') + 1
    BY <1>1, <1>2, <2>1, SeenStep
  <2>3. /\ \A j \in Seen' : seqs[j].formed
    BY <1>1, <1>5, <2>2
  <2>4. minHeight' \in 0..MaxHeight /\ MinOver(Seen)'
    <3>1. CASE Attested(i)
      <4>1. i \in InProof /\ Seen \in SUBSET InProof
        BY <1>3, <3>1 DEF InProof, Seen
      <4>2. minHeight' = Lower(seqs[i].height) /\ minHeight \in 0..MaxHeight
        BY <1>2, <2>1, <3>1 DEF LoopOK
      <4>3. LowestOf(Seen \cup {i}, minHeight') /\ minHeight' \in 1..MaxHeight
        BY <1>1, <1>2, <4>1, <4>2, LowerStep
      <4> QED BY <1>2, <2>2, <3>1, <4>3, BoundAssumption DEF MinOver, LowestOf
    <3>2. CASE ~Attested(i)
      BY <1>1, <1>2, <2>1, <2>2, <3>2 DEF MinOver, LowestOf, LoopOK
    <3> QED BY <3>1, <3>2
  <2>5. LoopOK'
    BY <1>1, <1>2, <2>1, <2>2, <2>4 DEF LoopOK
  <2>6. OfflineOK'
    BY <1>1, <1>2, <2>1, <2>3, <2>4 DEF OfflineOK, input
  <2>7. StartOK' /\ ChainOK' /\ Verdict'
    BY <1>1, <2>1 DEF StartOK, ChainOK, Verdict, NoContradictedProofVerified,
                      ReportsLowestBlock, UnreachableChainDegrades
  <2> QED BY <1>2, <2>5, <2>6, <2>7 DEF IInv
<1> QED BY <1>4, <1>5

\* The replayed proof is refused, answered for, or taken to the chain.
LEMMA ReplayDoneStep ==
  ASSUME IInv, ReplayDone
  PROVE  IInv'
<1>1. /\ pc = "offline" /\ i > Len(seqs) /\ UNCHANGED <<input, valid>>
      /\ file = "ok" /\ fetched = {}
      /\ \A j \in Seen : seqs[j].formed
      /\ MinOver(Seen)
  BY DEF ReplayDone, IInv, OfflineOK
<1>2. /\ InputOK /\ LoopOK /\ InputOK' /\ InProof' = InProof /\ seqs' = seqs
      /\ chain' = chain /\ OfflineValid' = OfflineValid /\ confirmed' = confirmed
  BY <1>1, Frame DEF IInv
<1>3. Seen = InProof
  BY <1>1, <1>2, SeenAll
<1>4. \A k \in InProof : seqs[k].height \in 1..MaxHeight
  BY <1>2, HeightFacts DEF InProof
<1>5. InProof = {} <=> minHeight = 0
  BY <1>1, <1>3, <1>4, BoundAssumption DEF MinOver, LowestOf
<1>6. CASE minHeight = 0
  <2>1. Answer(Unverified("failed")) /\ UNCHANGED loop
    BY <1>6 DEF ReplayDone
  <2>2. ~OfflineValid
    BY <1>5, <1>6 DEF OfflineValid
  <2> QED BY <1>1, <1>2, <2>1, <2>2, FailedStep DEF loop, LoopOK
<1>7. CASE minHeight # 0
  <2>1. OfflineValid /\ LowestOf(InProof, minHeight) /\ minHeight \in 1..MaxHeight
    BY <1>1, <1>2, <1>3, <1>5, <1>7, BoundAssumption DEF OfflineValid, MinOver, LoopOK
  <2>2. result' = Offline(minHeight, FALSE)
    BY <1>7 DEF ReplayDone, Answer, OfflineResult
  <2>3. /\ result' \in Results
        /\ result'.height = minHeight /\ result'.time = 0
        /\ ~result'.chainErr /\ ~result'.chainChecked /\ result'.ots = "verified"
    BY <2>1, <2>2, ResultFacts DEF Offline
  <2>4. (InProof # {})' /\ LowestOf(InProof, result.height)'
    BY <1>2, <1>5, <1>7, <2>1, <2>3 DEF LowestOf
  <2>5. CASE ~chain
    <3>1. pc' = "done" /\ UNCHANGED loop
      BY <1>7, <2>5 DEF ReplayDone, Answer
    <3>2. LoopOK'
      BY <1>1, <1>2, <2>3, <3>1 DEF LoopOK, loop
    <3>3. StartOK' /\ OfflineOK' /\ ChainOK'
      BY <3>1 DEF StartOK, OfflineOK, ChainOK
    <3>4. Verdict'
      BY <1>1, <1>2, <2>1, <2>3, <2>4, <2>5, <3>1
         DEF Verdict, NoContradictedProofVerified, ReportsLowestBlock,
             UnreachableChainDegrades, loop
    <3> QED BY <1>2, <3>2, <3>3, <3>4 DEF IInv
  <2>6. CASE chain
    <3>1. pc' = "chain" /\ i' = 1 /\ minHeight' = 0 /\ UNCHANGED <<best, fetchErr, fetched>>
      BY <1>7, <2>6 DEF ReplayDone, Answer
    <3>2. LoopOK'
      <4>1. 1 \in 1..Len(seqs) + 1 /\ 0 \in 0..MaxHeight
        BY <1>2, BoundAssumption DEF InputOK
      <4> QED BY <1>1, <1>2, <2>3, <3>1, <4>1 DEF LoopOK
    <3>3. ChainOK'
      <4>1. Seen' = {}
        BY <1>2, <3>1 DEF Seen, InProof, InputOK
      <4> QED BY <1>1, <1>2, <2>1, <2>4, <2>6, <3>1, <4>1 DEF ChainOK, MinOver
    <3>4. StartOK' /\ OfflineOK' /\ Verdict'
      BY <3>1 DEF StartOK, OfflineOK, Verdict, NoContradictedProofVerified,
                  ReportsLowestBlock, UnreachableChainDegrades
    <3> QED BY <1>2, <3>2, <3>3, <3>4 DEF IInv
  <2> QED BY <2>5, <2>6
<1> QED BY <1>6, <1>7

-----------------------------------------------------------------------------
(* The second loop.                                                        *)

\* A round that stays in the loop has only its sequences to account for.
LEMMA ChainRound ==
  ASSUME IInv, pc = "chain", i <= Len(seqs), i' = i + 1,
         UNCHANGED <<input, pc, valid, result>>, fetchErr' \in BOOLEAN,
         fetchErr => fetchErr', Attested(i) /\ ~fetchErr' => i \in fetched',
         fetched \subseteq fetched',
         minHeight' \in 0..MaxHeight, best' \in 0..MaxSeqs,
         fetched' \subseteq fetched \cup (InProof \cap {i}),
         \A j \in fetched' : seqs[j].genuine, MinOver(fetched)',
         fetched' # {} => best' \in fetched' /\ seqs[best'].height = minHeight'
  PROVE  IInv'
<1>1. /\ chain /\ OfflineValid /\ fetched \subseteq Seen /\ LowestOf(InProof, result.height)
      /\ fetched # Seen => fetchErr
  BY DEF IInv, ChainOK
<1>2. /\ InputOK /\ LoopOK /\ InputOK' /\ InProof' = InProof /\ seqs' = seqs
      /\ chain' = chain /\ OfflineValid' = OfflineValid
  BY Frame DEF IInv
<1>3. /\ Seen' = IF Attested(i) THEN Seen \cup {i} ELSE Seen
      /\ i' \in 1..Len(seqs') + 1
  BY <1>2, SeenStep
<1>4. fetched' \subseteq Seen' /\ fetched' \subseteq InProof'
  BY <1>1, <1>2, <1>3 DEF InProof, LoopOK
<1>5. LoopOK' /\ ((fetched # Seen)' => fetchErr')
  BY <1>1, <1>2, <1>3, <1>4 DEF LoopOK
<1>6. LowestOf(InProof, result.height)'
  BY <1>1, <1>2 DEF LowestOf
<1>7. ChainOK'
  BY <1>1, <1>2, <1>4, <1>5, <1>6 DEF ChainOK
<1>8. StartOK' /\ OfflineOK' /\ Verdict'
  BY DEF StartOK, OfflineOK, Verdict, NoContradictedProofVerified,
         ReportsLowestBlock, UnreachableChainDegrades
<1> QED BY <1>2, <1>5, <1>7, <1>8 DEF IInv

\* A sequence without a block, or whose block cannot be had, changes nothing.
LEMMA PassOverStep ==
  ASSUME IInv, SkipUnattested \/ FetchFails
  PROVE  IInv'
<1>1. /\ pc = "chain" /\ i <= Len(seqs) /\ i' = i + 1
      /\ UNCHANGED <<input, pc, minHeight, best, fetched, valid, result>>
      /\ fetchErr' \in BOOLEAN /\ (fetchErr => fetchErr') /\ (Attested(i) => fetchErr')
  BY DEF SkipUnattested, FetchFails, IInv, LoopOK
<1>2. minHeight' \in 0..MaxHeight /\ best' \in 0..MaxSeqs
  BY <1>1 DEF IInv, LoopOK
<1>3. seqs' = seqs
  BY <1>1 DEF input
<1>4. MinOver(fetched)'
  BY <1>1, <1>3 DEF IInv, ChainOK, MinOver, LowestOf
<1>5. /\ \A j \in fetched' : seqs[j].genuine
      /\ fetched' # {} => best' \in fetched' /\ seqs[best'].height = minHeight'
  BY <1>1 DEF IInv, ChainOK
<1> QED BY <1>1, <1>2, <1>4, <1>5, ChainRound

\* A block that contradicts the proof fails it.
LEMMA MismatchStep ==
  ASSUME IInv, Mismatch
  PROVE  IInv'
<1>1. i \in InProof
  BY DEF IInv, Mismatch, LoopOK, InputOK, InProof
<1>2. fetched' \subseteq InProof /\ i \in fetched' /\ ~seqs[i].genuine
  BY <1>1 DEF IInv, Mismatch, LoopOK
<1> QED BY <1>2, FailedStep DEF IInv, Mismatch

\* A block that matches may be the lowest.
LEMMA MatchStep ==
  ASSUME IInv, Match
  PROVE  IInv'
<1>1. /\ pc = "chain" /\ i <= Len(seqs) /\ Attested(i) /\ seqs[i].genuine
      /\ fetched' = fetched \cup {i} /\ minHeight' = Lower(seqs[i].height)
      /\ best' = (IF minHeight' # minHeight THEN i ELSE best)
      /\ i' = i + 1 /\ UNCHANGED <<input, pc, fetchErr, valid, result>>
  BY DEF Match
<1>2. /\ InputOK /\ LoopOK /\ seqs' = seqs
      /\ \A j \in fetched : seqs[j].genuine
      /\ MinOver(fetched)
      /\ fetched # {} => best \in fetched /\ seqs[best].height = minHeight
  BY <1>1 DEF IInv, ChainOK, input
<1>3. i \in InProof /\ i \in 0..MaxSeqs /\ fetched \in SUBSET InProof
  BY <1>1, <1>2, BoundAssumption DEF LoopOK, InputOK, InProof
<1>4. /\ LowestOf(fetched \cup {i}, minHeight')
      /\ minHeight' \in 1..MaxHeight
      /\ minHeight' = minHeight => fetched # {} /\ minHeight # 0
      /\ minHeight' # minHeight => seqs[i].height = minHeight'
  <2>1. minHeight \in 0..MaxHeight
    BY <1>2 DEF LoopOK
  <2> QED BY <1>1, <1>2, <1>3, <2>1, LowerStep
<1>5. minHeight' \in 0..MaxHeight /\ best' \in 0..MaxSeqs /\ fetchErr' \in BOOLEAN
  BY <1>1, <1>2, <1>3, <1>4, BoundAssumption DEF LoopOK
<1>6. fetched' # {} /\ best' \in fetched' /\ seqs[best'].height = minHeight'
  BY <1>1, <1>2, <1>4
<1>7. MinOver(fetched)'
  BY <1>1, <1>2, <1>4, <1>6 DEF MinOver, LowestOf
<1>8. /\ \A j \in fetched' : seqs[j].genuine
      /\ fetched' \subseteq fetched \cup (InProof \cap {i})
      /\ i \in fetched' /\ fetched \subseteq fetched' /\ fetchErr' = fetchErr
  BY <1>1, <1>2, <1>3
<1> QED BY <1>1, <1>5, <1>6, <1>7, <1>8, ChainRound

\* The chain's answer, or the offline one when no block could be had.
LEMMA ChainDoneStep ==
  ASSUME IInv, ChainDone
  PROVE  IInv'
<1>1. /\ pc = "chain" /\ i > Len(seqs) /\ pc' = "done" /\ UNCHANGED <<input, loop, valid>>
      /\ result' = (IF minHeight # 0 THEN OnChain(minHeight, best)
                    ELSE IF fetchErr THEN Offline(result.height, TRUE)
                    ELSE Unverified("failed"))
  BY DEF ChainDone, Answer
<1>2. /\ InputOK /\ LoopOK /\ InputOK' /\ InProof' = InProof /\ seqs' = seqs
      /\ chain' = chain /\ OfflineValid' = OfflineValid
  BY <1>1, Frame DEF IInv
<1>3. /\ chain /\ OfflineValid /\ LowestOf(InProof, result.height)
      /\ \A j \in fetched : seqs[j].genuine
      /\ MinOver(fetched) /\ (fetched # Seen => fetchErr)
      /\ fetched # {} => best \in fetched /\ seqs[best].height = minHeight
  BY <1>1 DEF IInv, ChainOK
<1>4. (fetched = {} <=> minHeight = 0) /\ (minHeight = 0 => fetchErr)
  <2>1. \A k \in fetched : seqs[k].height \in 1..MaxHeight
    BY <1>2, HeightFacts DEF InProof, LoopOK
  <2>2. fetched = {} <=> minHeight = 0
    BY <1>3, <2>1, BoundAssumption DEF MinOver, LowestOf
  <2>3. Seen = InProof /\ InProof # {}
    BY <1>1, <1>2, <1>3, SeenAll DEF OfflineValid
  <2> QED BY <1>3, <2>2, <2>3
<1>5. /\ result.height \in 1..MaxHeight /\ best \in 0..MaxSeqs
      /\ minHeight # 0 => minHeight \in 1..MaxHeight
  <2>1. \A k \in InProof : seqs[k].height \in 1..MaxHeight
    BY <1>2, HeightFacts DEF InProof
  <2> QED BY <1>2, <1>3, <2>1, BoundAssumption DEF LoopOK, LowestOf
<1>6. result' \in Results
  BY <1>1, <1>4, <1>5, ResultFacts
<1>7. LoopOK'
  BY <1>1, <1>2, <1>6 DEF LoopOK, loop
<1>8. StartOK' /\ OfflineOK' /\ ChainOK'
  BY <1>1 DEF StartOK, OfflineOK, ChainOK
<1>9. NoContradictedProofVerified'
  BY <1>1, <1>2, <1>3 DEF NoContradictedProofVerified, loop
<1>10. result'.ots = "verified"
  BY <1>1, <1>4 DEF Offline, OnChain
<1>11. CASE minHeight = 0
  <2>1. /\ result'.height = result.height /\ result'.time = 0
        /\ result'.chainErr /\ ~result'.chainChecked
    BY <1>1, <1>4, <1>5, <1>11, ResultFacts
  <2>2. ReportsLowestBlock'
    BY <1>1, <1>2, <1>3, <2>1 DEF ReportsLowestBlock, LowestOf, loop
  <2>3. UnreachableChainDegrades'
    BY <1>1, <1>2, <1>3, <1>4, <1>10, <1>11, <2>1 DEF UnreachableChainDegrades, loop
  <2> QED BY <1>2, <1>7, <1>8, <1>9, <2>2, <2>3 DEF IInv, Verdict
<1>12. CASE minHeight # 0
  <2>1. /\ result'.height = minHeight /\ result'.time = best
        /\ ~result'.chainErr /\ result'.chainChecked
    BY <1>1, <1>5, <1>12, ResultFacts
  <2>2. LowestOf(fetched, minHeight) /\ (~fetchErr => fetched = InProof)
    BY <1>1, <1>2, <1>3, <1>4, <1>12, SeenAll DEF MinOver
  <2>3. ReportsLowestBlock'
    BY <1>1, <1>2, <1>3, <1>4, <1>12, <2>1, <2>2 DEF ReportsLowestBlock, LowestOf, loop
  <2>4. UnreachableChainDegrades'
    BY <1>1, <1>2, <1>3, <1>4, <1>10, <1>12, <2>1 DEF UnreachableChainDegrades, loop
  <2> QED BY <1>2, <1>7, <1>8, <1>9, <2>3, <2>4 DEF IInv, Verdict
<1> QED BY <1>11, <1>12

-----------------------------------------------------------------------------
\* Every step of the call preserves the invariant.
LEMMA NextInvariant == IInv /\ [Next]_vars => IInv'
<1> SUFFICES ASSUME IInv, [Next]_vars PROVE IInv'
  OBVIOUS
<1>1. CASE HashFails \/ HashBlob
  BY <1>1, HashStep
<1>2. CASE Parse
  BY <1>2, ParseStep
<1>3. CASE Replay
  BY <1>3, ReplayStep
<1>4. CASE ReplayDone
  BY <1>4, ReplayDoneStep
<1>5. CASE SkipUnattested \/ FetchFails
  BY <1>5, PassOverStep
<1>6. CASE Mismatch
  BY <1>6, MismatchStep
<1>7. CASE Match
  BY <1>7, MatchStep
<1>8. CASE ChainDone
  BY <1>8, ChainDoneStep
<1>9. CASE UNCHANGED vars
  <2>1. UNCHANGED input /\ UNCHANGED loop /\ UNCHANGED <<pc, valid, result>>
    BY <1>9 DEF vars
  <2>2. /\ InputOK' /\ InProof' = InProof /\ seqs' = seqs
        /\ chain' = chain /\ OfflineValid' = OfflineValid /\ confirmed' = confirmed
        /\ file' = file
    BY <2>1, Frame DEF IInv, input
  <2>3. Seen' = Seen
    BY <2>1, <2>2 DEF Seen, loop
  <2>4. LoopOK' /\ StartOK'
    BY <2>1, <2>2 DEF IInv, LoopOK, StartOK, loop
  <2>5. OfflineOK' /\ ChainOK'
    BY <2>1, <2>2, <2>3 DEF IInv, OfflineOK, ChainOK, MinOver, LowestOf, loop
  <2>6. Verdict'
    BY <2>1, <2>2 DEF IInv, Verdict, NoContradictedProofVerified, ReportsLowestBlock,
                      UnreachableChainDegrades, LowestOf, loop
  <2> QED BY <2>2, <2>4, <2>5, <2>6 DEF IInv
<1> QED BY <1>1, <1>2, <1>3, <1>4, <1>5, <1>6, <1>7, <1>8, <1>9 DEF Next

\* The parts hold in every state of every call.
LEMMA Invariant == Spec => []IInv
  BY InitInvariant, NextInvariant, PTL DEF Spec

\* Type correctness of the verifier's state, the loop indices included.
THEOREM TypeCorrect == Spec => []TypeOK
<1>1. IInv => TypeOK
  <2> SUFFICES ASSUME IInv PROVE TypeOK
    OBVIOUS
  <2>1. i \in 1..MaxSeqs + 1
    BY BoundAssumption DEF IInv, InputOK, LoopOK
  <2>2. fetched \subseteq 1..MaxSeqs
    BY BoundAssumption DEF IInv, InputOK, LoopOK, InProof
  <2> QED BY <2>1, <2>2 DEF IInv, InputOK, LoopOK, TypeOK
<1> QED BY <1>1, Invariant, PTL

\* VerifyProof and verifyAgainstChain never call a proof verified that does not
\* replay or that a fetched block contradicts, for proofs of any length.
THEOREM VerdictSafety == Spec => []NoContradictedProofVerified
<1>1. IInv => NoContradictedProofVerified
  BY DEF IInv, Verdict
<1> QED BY <1>1, Invariant, PTL

\* The height that is reported is the lowest attested one unless a lookup failed,
\* and with a chain source it and the time are those of the lowest confirmed block.
THEOREM LowestSafety == Spec => []ReportsLowestBlock
<1>1. IInv => ReportsLowestBlock
  BY DEF IInv, Verdict
<1> QED BY <1>1, Invariant, PTL

\* A chain source that is down degrades the answer and never refuses a proof.
THEOREM DegradeSafety == Spec => []UnreachableChainDegrades
<1>1. IInv => UnreachableChainDegrades
  BY DEF IInv, Verdict
<1> QED BY <1>1, Invariant, PTL
=============================================================================
