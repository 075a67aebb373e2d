------------------------- MODULE WithdrawalStoreProofs -------------------------
(***************************************************************************)
(* Proofs about the withdraw request store: AddWithdrawal never stores a  *)
(* request twice, for any sets of delegators, validators and request IDs, *)
(* any bound on the calls and with or without failing database calls.     *)
(***************************************************************************)
EXTENDS WithdrawalStore, TLAPS

USE WithdrawalStoreAssumption

(* Requests are records, so a request shares its own (addr, to) pair: a   *)
(* stored request always makes its pair taken.                             *)
LEMMA OwnPairTaken ==
    ASSUME NEW w \in Requests, Stored(w)
    PROVE  PairTaken(w)
BY DEF PairTaken

(* What InsertWithdrawal does: a refused or failed InsertOne changes no  *)
(* document; a successful one adds a document of w, only when the unique *)
(* index does not hold w's pair, and leaves the Once spent with the index *)
(* created or the process panicked.                                        *)
LEMMA InsertEffect ==
    ASSUME NEW w \in Requests, InsertWithdrawal(w)
    PROVE  \/ /\ UNCHANGED <<docs, indexed, onceDone, panicked>>
              /\ acked' = acked /\ failed' = failed \cup {w}
           \/ /\ ~(indexed /\ PairTaken(w))
              /\ docs' = [docs EXCEPT ![w] = @ + 1]
              /\ acked' = acked \cup {w} /\ failed' = failed
              /\ onceDone' = TRUE
              /\ onceDone => UNCHANGED <<indexed, panicked>>
              /\ ~onceDone => indexed' = TRUE \/ panicked' = TRUE
              /\ indexed' \in {TRUE, indexed} /\ panicked' \in {TRUE, panicked}
<1>1. PICK ok \in DbOk :
        IF ~ok \/ (indexed /\ PairTaken(w))
        THEN Answer(w, FALSE) /\ UNCHANGED <<docs, indexed, onceDone, panicked>>
        ELSE /\ docs' = [docs EXCEPT ![w] = @ + 1]
             /\ Answer(w, TRUE)
             /\ IF onceDone THEN UNCHANGED <<indexed, onceDone, panicked>>
                ELSE /\ onceDone' = TRUE
                     /\ IF indexed \/ ~PairDuplicated'
                          THEN indexed' = TRUE /\ UNCHANGED panicked
                          ELSE panicked' = TRUE /\ UNCHANGED indexed
  BY DEF InsertWithdrawal
<1>2. CASE ~ok \/ (indexed /\ PairTaken(w))
  BY <1>1, <1>2, Zenon DEF Answer
<1>3. CASE ~(~ok \/ (indexed /\ PairTaken(w)))
  <2>1. CASE onceDone
    BY <1>1, <1>3, <2>1, Zenon DEF Answer
  <2>2. CASE ~onceDone
    BY <1>1, <1>3, <2>2, Zenon DEF Answer
  <2>3. QED BY <2>1, <2>2
<1>4. QED BY <1>2, <1>3

(* What AddWithdrawal does: the call is counted; then either the update  *)
(* path, which changes no document and no index, or InsertWithdrawal.     *)
LEMMA AddEffect ==
    ASSUME NEW w \in Requests, AddWithdrawal(w)
    PROVE  /\ ~panicked /\ calls[w] < MaxCalls
           /\ calls' = [calls EXCEPT ![w] = @ + 1]
           /\ \/ /\ UNCHANGED <<docs, indexed, onceDone, panicked>>
                 /\ acked' \in {acked, acked \cup {w}}
                 /\ failed' \in {failed, failed \cup {w}}
              \/ InsertWithdrawal(w)
<1>1. PICK found \in DbOk :
        IF IsWithdrawalKnown(w, found)
          THEN UpdateWithdrawal(w) /\ UNCHANGED <<indexed, onceDone, panicked>>
          ELSE InsertWithdrawal(w)
  BY DEF AddWithdrawal
<1>2. CASE IsWithdrawalKnown(w, found)
  BY <1>1, <1>2, Zenon DEF AddWithdrawal, UpdateWithdrawal, Answer
<1>3. CASE ~IsWithdrawalKnown(w, found)
  BY <1>1, <1>3, Zenon DEF AddWithdrawal
<1>4. QED BY <1>2, <1>3

(* Every step keeps SStoreTypeOK.                                          *)
LEMMA StoreTypeStep == SStoreTypeOK /\ [SNext]_svars => SStoreTypeOK'
<1> SUFFICES ASSUME SStoreTypeOK, [SNext]_svars PROVE SStoreTypeOK'
  OBVIOUS
<1>1. ASSUME NEW w \in Requests, AddWithdrawal(w) PROVE SStoreTypeOK'
  <2>1. calls' \in [Requests -> 0..MaxCalls]
    BY <1>1, AddEffect DEF SStoreTypeOK
  <2>2. CASE /\ UNCHANGED <<docs, indexed, onceDone, panicked>>
             /\ acked' \in {acked, acked \cup {w}}
             /\ failed' \in {failed, failed \cup {w}}
    <3>1. indexed' \in BOOLEAN /\ onceDone' \in BOOLEAN /\ panicked' \in BOOLEAN
      BY <2>2, Zenon DEF SStoreTypeOK
    <3>2. QED BY <2>1, <2>2, <3>1 DEF SStoreTypeOK
  <2>3. CASE InsertWithdrawal(w)
    <3>1. indexed' \in BOOLEAN /\ onceDone' \in BOOLEAN /\ panicked' \in BOOLEAN
      BY <2>3, InsertEffect, Zenon DEF SStoreTypeOK
    <3>2. docs' \in [Requests -> Nat]
      <4>1. docs' = docs \/ docs' = [docs EXCEPT ![w] = @ + 1]
        BY <2>3, InsertEffect
      <4>2. QED BY <4>1 DEF SStoreTypeOK
    <3>3. acked' \subseteq Requests /\ failed' \subseteq Requests
      <4>1. acked' \subseteq acked \cup {w} /\ failed' \subseteq failed \cup {w}
        BY <2>3, InsertEffect
      <4>2. QED BY <4>1 DEF SStoreTypeOK
    <3>4. QED BY <2>1, <3>1, <3>2, <3>3 DEF SStoreTypeOK
  <2>4. QED BY <1>1, <2>2, <2>3, AddEffect
<1>2. CASE UNCHANGED svars
  BY <1>2 DEF SStoreTypeOK, svars
<1>3. QED BY <1>1, <1>2 DEF SNext

(* The empty collection is well typed.                                     *)
LEMMA StoreTypeInit == SInit => SStoreTypeOK
<1>1. SInit => indexed \in BOOLEAN /\ onceDone \in BOOLEAN /\ panicked \in BOOLEAN
  BY Zenon DEF SInit
<1>2. QED BY <1>1 DEF SInit, SStoreTypeOK

(* SStoreTypeOK holds in every reachable state.                            *)
THEOREM StoreTypeCorrect == SSpec => []SStoreTypeOK
BY StoreTypeInit, StoreTypeStep, PTL DEF SSpec

-----------------------------------------------------------------------------
(* StoreInv is inductive: an insert happens either before the Once has   *)
(* run, when nothing is stored, or after it, when the unique index       *)
(* refuses a stored request's pair; an update never adds a document.      *)
LEMMA StoreInvInductive == StoreInv /\ [SNext]_svars => StoreInv'
<1> SUFFICES ASSUME StoreInv, [SNext]_svars PROVE StoreInv'
  OBVIOUS
<1>1. SStoreTypeOK'
  BY StoreTypeStep DEF StoreInv
<1>2. ASSUME NEW w \in Requests, AddWithdrawal(w)
      PROVE  /\ NoDuplicateRequest'
             /\ ~onceDone' => \A v \in Requests : docs'[v] = 0
             /\ onceDone' => indexed' \/ panicked'
  <2>1. ~panicked
    BY <1>2, AddEffect
  <2>2. CASE UNCHANGED <<docs, indexed, onceDone, panicked>>
    BY <2>2 DEF StoreInv, NoDuplicateRequest
  <2>3. CASE InsertWithdrawal(w)
    <3>1. CASE UNCHANGED <<docs, indexed, onceDone, panicked>>
      BY <3>1 DEF StoreInv, NoDuplicateRequest
    <3>2. CASE /\ ~(indexed /\ PairTaken(w))
               /\ docs' = [docs EXCEPT ![w] = @ + 1]
               /\ onceDone' = TRUE
               /\ onceDone => UNCHANGED <<indexed, panicked>>
               /\ ~onceDone => indexed' = TRUE \/ panicked' = TRUE
      <4>1. docs[w] = 0
        <5>1. CASE onceDone
          <6>1. indexed
            BY <5>1, <2>1 DEF StoreInv
          <6>2. ~Stored(w)
            BY <6>1, <3>2, OwnPairTaken
          <6>3. QED BY <6>2 DEF Stored, StoreInv, SStoreTypeOK
        <5>2. CASE ~onceDone
          BY <5>2 DEF StoreInv
        <5>3. QED BY <5>1, <5>2
      <4>2. NoDuplicateRequest'
        BY <3>2, <4>1 DEF StoreInv, SStoreTypeOK, NoDuplicateRequest
      <4>3. indexed' \/ panicked'
        <5>1. CASE onceDone
          <6>1. indexed' = indexed /\ indexed
            BY <5>1, <3>2, <2>1 DEF StoreInv
          <6>2. QED BY <6>1
        <5>2. CASE ~onceDone
          BY <5>2, <3>2
        <5>3. QED BY <5>1, <5>2
      <4>4. QED BY <3>2, <4>2, <4>3
    <3>3. QED BY <2>3, <3>1, <3>2, InsertEffect
  <2>4. QED BY <1>2, <2>2, <2>3, AddEffect
<1>3. CASE UNCHANGED svars
  BY <1>3 DEF StoreInv, SStoreTypeOK, NoDuplicateRequest, svars
<1>4. QED BY <1>1, <1>2, <1>3 DEF StoreInv, SNext

(* AddWithdrawal never stores a withdraw request twice, whatever lookups  *)
(* and writes fail and however often a request is added.                  *)
THEOREM NoDuplicates == SSpec => []NoDuplicateRequest
<1>1. SInit => StoreInv
  <2>1. SInit => SStoreTypeOK /\ ~onceDone
    BY StoreTypeInit, Zenon DEF SInit
  <2>2. QED BY <2>1 DEF SInit, StoreInv, NoDuplicateRequest
<1>2. StoreInv => NoDuplicateRequest
  BY DEF StoreInv
<1>3. QED BY <1>1, <1>2, StoreInvInductive, PTL DEF SSpec

=============================================================================
