---------------------------- MODULE PrefillDecode ----------------------------
(***************************************************************************)
(* A prefill instance P and a decode instance D (two of Scheduler) driven  *)
(* by one loop: a request is routed to P, and in the turn in which P's     *)
(* batch with the end of its prompt is over, transfer_prefill_request      *)
(* gives the same Request object to D.  Its fields are therefore shared,   *)
(* and what P still has in flight with it sees D's changes.                *)
(***************************************************************************)
EXTENDS Integers, FiniteSets, Sequences, SequencesExt

CONSTANTS
  Hashes, NoHash, Reqs, Chain, BlockSize, Tiers, Prompt, Output,
  MaxNumSeqs, MaxBatchedTokens, LongPrefillThreshold, EnableChunkedPrefill,
  ReserveFullISL, NumNpus,
  PrefillCaching, PrefillBlocks, PrefillStages,   (* of P                  *)
  DecodeCaching, DecodeBlocks, DecodeStages       (* of D                  *)

VARIABLES
  status, computed, reached, isInit,              (* the requests          *)
  pKv, pWaiting, pRunning, pInflight, pNextId, pFinished, pShipping, pRan, pBusy, pStep,
  dKv, dWaiting, dRunning, dInflight, dNextId, dFinished, dShipping, dRan, dBusy, dStep

requests == <<status, computed, reached, isInit>>
prefill  == <<pKv, pWaiting, pRunning, pInflight, pNextId, pFinished, pShipping,
              pRan, pBusy, pStep>>
decode   == <<dKv, dWaiting, dRunning, dInflight, dNextId, dFinished, dShipping,
              dRan, dBusy, dStep>>
pair     == <<requests, prefill, decode>>

P == INSTANCE Scheduler WITH
  PdType <- "prefill", EnableCaching <- PrefillCaching, NumBlocks <- PrefillBlocks,
  PPSize <- PrefillStages,
  kv <- pKv, waiting <- pWaiting, running <- pRunning, inflight <- pInflight,
  nextId <- pNextId, finished <- pFinished, shipping <- pShipping, ran <- pRan,
  busy <- pBusy, step <- pStep

D == INSTANCE Scheduler WITH
  PdType <- "decode", EnableCaching <- DecodeCaching, NumBlocks <- DecodeBlocks,
  PPSize <- DecodeStages,
  kv <- dKv, waiting <- dWaiting, running <- dRunning, inflight <- dInflight,
  nextId <- dNextId, finished <- dFinished, shipping <- dShipping, ran <- dRan,
  busy <- dBusy, step <- dStep

(* What each of the two instances assumes of its constants. *)
ASSUME PairAssumption ==
  /\ P!HashAssumption /\ P!KVAssumption /\ P!SchedulerAssumption
  /\ D!HashAssumption /\ D!KVAssumption /\ D!SchedulerAssumption

PairInit == P!Init /\ D!Init

(* The router knows prefill instances only. *)
Arrive == D!At("idle") /\ \E r \in Reqs : P!AddRequest(r) /\ UNCHANGED decode

(* One handshake at a time, on either instance. *)
PrefillHandshake(n) == D!At("idle") /\ P!Handshake(n) /\ UNCHANGED decode
DecodeHandshake(n)  == P!At("idle") /\ D!Handshake(n) /\ UNCHANGED prefill
PrefillInStep == (P!InStep \/ P!CompletePrefill) /\ UNCHANGED decode
DecodeInStep  == D!InStep /\ UNCHANGED prefill

(* transfer_prefill_request with one decode instance. *)
Transfer ==
  \E r \in Reqs :
    P!HandOver(r) /\ (D!AddDecode(r) \/ D!AddDecodeRaises(r))

PairNext ==
  \/ Arrive
  \/ \E n \in P!Npus : PrefillHandshake(n)
  \/ \E n \in D!Npus : DecodeHandshake(n)
  \/ PrefillInStep \/ DecodeInStep
  \/ Transfer

PairSpec == PairInit /\ [][PairNext]_pair

(* A handshake goes on to its end, the trace is handed over to its end,    *)
(* and ASTRA-Sim goes round the NPUs of both.  The conjuncts for the steps *)
(* are their weak fairness with ENABLED written out: one of them can be    *)
(* taken in every state but those named.                                   *)
FairPairSpec ==
  /\ PairSpec
  /\ []<>(P!At("idle") \/ P!At("handover") \/ P!Stranded) \/ []<><<PrefillInStep>>_pair
  /\ []<>(D!At("idle") \/ D!At("raised") \/ D!Stranded) \/ []<><<DecodeInStep>>_pair
  /\ []<>(~P!At("handover") \/ D!At("raised")) \/ []<><<Transfer>>_pair
  /\ SF_pair(Arrive)
  /\ \A n \in P!Npus : SF_pair(D!At("idle") /\ P!HandBack(n) /\ UNCHANGED decode)
                       /\ SF_pair(D!At("idle") /\ P!Poll(n) /\ UNCHANGED decode)
  /\ \A n \in D!Npus : SF_pair(P!At("idle") /\ D!HandBack(n) /\ UNCHANGED prefill)
                       /\ SF_pair(P!At("idle") /\ D!Poll(n) /\ UNCHANGED prefill)
-----------------------------------------------------------------------------
(* What P's batches have sent covers the prompt when the request goes over. *)
(* A prompt that is preempted and computed again is sent again.            *)
ShipsWholePrompt ==
  P!At("handover") => \A r \in ToSet(pStep.handed) : pShipping.sent[r] >= Prompt[r]

(* A request holds blocks on one side at a time, whatever D finds of it in *)
(* its cache and counts twice (a handover adds the hits to a prompt that   *)
(* already contains them); and when every request is served both pools     *)
(* have all their blocks back (free, add_decode).                          *)
OneSide == \A r \in Reqs : pKv.table[r] = << >> \/ dKv.table[r] = << >>

BlocksOnOneSide ==
  OneSide /\ (Reqs \subseteq ToSet(dFinished) => P!IsFree(pKv.npu) /\ D!IsFree(dKv.npu))

(* P lets go of what it hands over: no batch of P's is in flight with a    *)
(* request that D runs, which would complete it twice.                     *)
PrefillLetsGo ==
  \A r \in Reqs :
    r \in ToSet(dRunning) \cup ToSet(dFinished) => ~P!InFlight(r)

(* Unless a handover raises, every request gets its whole output, on D.    *)
ServedOrRaised ==
  \A r \in Reqs : <>((r \in ToSet(dFinished) /\ reached[r] = Output[r]) \/ D!At("raised"))
=============================================================================
