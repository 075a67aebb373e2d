--------------------------- MODULE WithdrawalStore ---------------------------
(***************************************************************************)
(* The writes of withdraw requests in internal/repository/db/withdrawal.go:*)
(* AddWithdrawal with isWithdrawalKnown, UpdateWithdrawal and the one-time *)
(* initWithdrawalsCollection, called by the log handlers of the            *)
(* (single) log dispatcher goroutine, one call after another.             *)
(*                                                                         *)
(* A request is identified as the code's lookups identify it: delegator   *)
(* address, validator and request ID.  initWithdrawalsCollection creates a *)
(* unique index on (address, validator) only, after the first insert.      *)
(***************************************************************************)
EXTENDS Naturals

CONSTANTS
    Delegators,   \* delegator addresses
    Validators,   \* validator IDs
    ReqIds,       \* withdraw request IDs
    MaxCalls,     \* bound on the AddWithdrawal calls per request
    DbMayFail     \* a database call may return an error

ASSUME WithdrawalStoreAssumption ==
    /\ MaxCalls \in Nat
    /\ DbMayFail \in BOOLEAN

Requests == [addr : Delegators, to : Validators, req : ReqIds]

(* Outcomes of a database call other than a duplicate key: TRUE is ok.    *)
DbOk == IF DbMayFail THEN BOOLEAN ELSE {TRUE}

VARIABLES
    docs,      \* docs[w]: documents of request w in the collection
    indexed,   \* the unique (addr, to) index exists
    onceDone,  \* db.initWithdrawals has run (the sync.Once is spent)
    panicked,  \* Panicf in initWithdrawalsCollection
    calls,     \* calls[w]: AddWithdrawal calls made for w
    acked,     \* requests an AddWithdrawal call returned nil for
    failed     \* requests an AddWithdrawal call returned an error for

svars == <<docs, indexed, onceDone, panicked, calls, acked, failed>>

Stored(w) == docs[w] > 0

(* A document with the same (addr, to) pair as w: the unique index key.    *)
PairTaken(w) == \E d \in Requests : Stored(d) /\ d.addr = w.addr /\ d.to = w.to

(* The index keys of two different stored documents coincide.              *)
PairDuplicated ==
    \E d, e \in Requests :
        /\ Stored(d) /\ Stored(e) /\ d.addr = e.addr /\ d.to = e.to
        /\ (d # e \/ docs[d] > 1)

SInit ==
    /\ docs = [w \in Requests |-> 0]
    /\ indexed = FALSE /\ onceDone = FALSE /\ panicked = FALSE
    /\ calls = [w \in Requests |-> 0]
    /\ acked = {} /\ failed = {}

(* The call returns nil or an error for w.                                 *)
Answer(w, ok) ==
    /\ acked' = IF ok THEN acked \cup {w} ELSE acked
    /\ failed' = IF ok THEN failed ELSE failed \cup {w}

(* isWithdrawalKnown: the lookup by (addr, to, req_id) reports w known   *)
(* when it is stored and the lookup succeeded; an error reads "unknown".  *)
IsWithdrawalKnown(w, found) == Stored(w) /\ found

(* isWithdrawalKnown found w: UpdateWithdrawal, an upsert on the request's *)
(* three fields.  Documents are never deleted, so it always matches w and  *)
(* the "not found" error after a match count of 0 cannot happen.           *)
UpdateWithdrawal(w) ==
    \E ok \in DbOk : Answer(w, ok) /\ UNCHANGED docs

(* Mutant: the (addr, to) index is created without Unique.               *)
InsertWithdrawalNoUnique(w) ==
    \E ok \in DbOk :
        IF ~ok
        THEN Answer(w, FALSE) /\ UNCHANGED <<docs, indexed, onceDone, panicked>>
        ELSE /\ docs' = [docs EXCEPT ![w] = @ + 1]
             /\ Answer(w, TRUE)
             /\ IF onceDone THEN UNCHANGED <<indexed, onceDone, panicked>>
                ELSE onceDone' = TRUE /\ indexed' = TRUE /\ UNCHANGED panicked

(* isWithdrawalKnown did not find w (or its lookup failed): InsertOne,     *)
(* refused by the unique index on a taken (addr, to) pair; after the       *)
(* first successful insert initWithdrawalsCollection creates the indexes,  *)
(* and panics if existing documents break the unique one.                  *)
InsertWithdrawal(w) ==
    \E ok \in DbOk :
        IF ~ok \/ (indexed /\ PairTaken(w))
        THEN Answer(w, FALSE) /\ UNCHANGED <<docs, indexed, onceDone, panicked>>
        ELSE /\ docs' = [docs EXCEPT ![w] = @ + 1]
             /\ Answer(w, TRUE)
             /\ IF onceDone THEN UNCHANGED <<indexed, onceDone, panicked>>
                ELSE /\ onceDone' = TRUE
                     /\ IF indexed \/ ~PairDuplicated'
                          THEN indexed' = TRUE /\ UNCHANGED panicked
                          ELSE panicked' = TRUE /\ UNCHANGED indexed

(* A log handler calls AddWithdrawal(w): isWithdrawalKnown, which answers *)
(* "unknown" on a lookup error, then the update or the insert.            *)
AddWithdrawal(w) ==
    /\ ~panicked /\ calls[w] < MaxCalls
    /\ calls' = [calls EXCEPT ![w] = @ + 1]
    /\ \E found \in DbOk :
         IF IsWithdrawalKnown(w, found)
           THEN UpdateWithdrawal(w) /\ UNCHANGED <<indexed, onceDone, panicked>>
           ELSE InsertWithdrawal(w)

SNext == \E w \in Requests : AddWithdrawal(w)

SSpec == SInit /\ [][SNext]_svars

-----------------------------------------------------------------------------
SStoreTypeOK ==
    /\ docs \in [Requests -> Nat] /\ calls \in [Requests -> 0..MaxCalls]
    /\ indexed \in BOOLEAN /\ onceDone \in BOOLEAN /\ panicked \in BOOLEAN
    /\ acked \subseteq Requests /\ failed \subseteq Requests

(* isWithdrawalKnown and UpdateWithdrawal treat (addr, to, req_id) as the *)
(* identity of a request: whatever lookups fail, the collection never     *)
(* holds two documents of one request.                                     *)
NoDuplicateRequest == \A w \in Requests : docs[w] <= 1

(* The inductive strengthening of NoDuplicateRequest: nothing is stored  *)
(* before the Once has run, and once it has run the unique index exists  *)
(* (or the process has panicked and stops adding).                         *)
StoreInv ==
    /\ SStoreTypeOK
    /\ NoDuplicateRequest
    /\ ~onceDone => \A w \in Requests : docs[w] = 0
    /\ onceDone => indexed \/ panicked

(* The specification (4.2, 7.): a handler's write fails only on a         *)
(* database error; every withdraw request added without one is stored.    *)
AddedAreStored ==
    ~DbMayFail => \A w \in Requests : calls[w] > 0 => Stored(w)

=============================================================================
