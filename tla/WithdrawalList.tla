--------------------------- MODULE WithdrawalList ---------------------------
(***************************************************************************)
(* The keyset pagination of withdraw requests in                           *)
(* internal/repository/db/withdrawal.go: Withdrawals, wrListInit,          *)
(* wrListCollectRangeMarks, wrListBorderPk, wrListFilter, wrListOptions    *)
(* and wrListLoad, run by one client against a collection that            *)
(* AddWithdrawal keeps inserting into.                                     *)
(*                                                                         *)
(* A document is its primary key (_id) and its creation time (cr_time).  *)
(* The list is sorted by (cr_time, _id), newest first, while the range    *)
(* condition of wrListFilter compares _id alone.  Withdrawals makes three *)
(* separate queries (CountDocuments, FindOne of the border, Find of the   *)
(* page); inserts may land between them.                                   *)
(***************************************************************************)
EXTENDS Integers, Sequences, FiniteSets

CONSTANTS
    Pks,              \* primary keys (_id values)
    Times,            \* creation times (cr_time values)
    Counts,           \* the signed page sizes a client may request
    NoCursor,         \* a nil cursor
    PkFollowsCreated  \* every insert has the largest _id and cr_time so far

ASSUME WithdrawalListAssumption ==
    /\ Pks \subseteq Nat /\ Times \subseteq Nat
    /\ Counts \subseteq Int
    /\ NoCursor \notin Pks
    /\ PkFollowsCreated \in BOOLEAN

Docs == [pk : Pks, cr : Times]

(* d is newer than e in the list order: cr_time, then _id.                 *)
Newer(d, e) == d.cr > e.cr \/ (d.cr = e.cr /\ d.pk > e.pk)

(* The documents of S sorted newest first (sort -1) or oldest first (1).  *)
SortDesc(S) ==
    [i \in 1..Cardinality(S) |->
        CHOOSE d \in S : Cardinality({e \in S : Newer(e, d)}) = i - 1]
SortAsc(S) ==
    [i \in 1..Cardinality(S) |->
        CHOOSE d \in S : Cardinality({e \in S : Newer(d, e)}) = i - 1]

Abs(n) == IF n < 0 THEN -n ELSE n

(* The first n elements of s (the Find limit).                             *)
Take(s, n) == IF Len(s) <= n THEN s ELSE SubSeq(s, 1, n)

Reversed(s) == [i \in 1..Len(s) |-> s[Len(s) - i + 1]]

(* wrListBorderPk with the sort of wrListCollectRangeMarks: the _id of the *)
(* newest document for a positive count, of the oldest for a negative one.*)
BorderPk(S, count) ==
    LET d == IF count > 0 THEN SortDesc(S)[1] ELSE SortAsc(S)[1] IN d.pk

(* wrListFilter: the _id range condition added to the filter.              *)
InRange(pk, cursor, count, first) ==
    IF cursor = NoCursor
      THEN IF count > 0 THEN pk >= first ELSE pk <= first
      ELSE IF count > 0 THEN pk > first ELSE pk < first

(* wrListOptions and the Find: sorted by the count's direction, limited to *)
(* |count| + 1 documents.                                                  *)
Fetch(S, cursor, count, first) ==
    LET sel == {d \in S : InRange(d.pk, cursor, count, first)}
    IN  Take(IF count > 0 THEN SortDesc(sel) ELSE SortAsc(sel), Abs(count) + 1)

(* wrListLoad's loop keeps every fetched row but the last in Collection.  *)
Collection(f) == IF f = <<>> THEN <<>> ELSE SubSeq(f, 1, Len(f) - 1)

(* wrListLoad's boundary marks.                                             *)
LoadIsEnd(f, cursor, count) ==
    \/ cursor = NoCursor /\ count < 0
    \/ count > 0 /\ Len(Collection(f)) < count
LoadIsStart(f, cursor, count) ==
    \/ cursor = NoCursor /\ count > 0
    \/ count < 0 /\ Len(Collection(f)) < -count

(* Mutant: the list of a negative count is not reversed.                  *)
LoadItemsNoReverse(f, cursor, count) ==
    IF (LoadIsStart(f, cursor, count) \/ LoadIsEnd(f, cursor, count))
       /\ f # <<>>
    THEN f ELSE Collection(f)

(* wrListLoad appends the last fetched row when a boundary was hit, then  *)
(* Withdrawals reverses the list for a negative count.                     *)
LoadItems(f, cursor, count) ==
    LET kept == IF (LoadIsStart(f, cursor, count) \/ LoadIsEnd(f, cursor, count))
                   /\ f # <<>>
                THEN f ELSE Collection(f)
    IN  IF count < 0 THEN Reversed(kept) ELSE kept

NoResult == [kind |-> "none"]
ErrResult == [kind |-> "error"]

VARIABLES
    docs,    \* the withdraws collection
    pc,      \* "idle", "marks" (wrListCollectRangeMarks) or "load"
    req,     \* the request: [cursor, count]
    total,   \* list.Total from CountDocuments
    first,   \* list.First from wrListBorderPk
    result,  \* the last list Withdrawals returned, or an error
    snap     \* the collection the last answer was computed from

vars == <<docs, pc, req, total, first, result, snap>>

(* A returned list, with the request it answers.                           *)
Window(rq, items, tot, fst, isStart, isEnd) ==
    [kind |-> "list", req |-> rq, items |-> items, total |-> tot,
     first |-> fst, isStart |-> isStart, isEnd |-> isEnd]

Init ==
    /\ docs = {}
    /\ pc = "idle"
    /\ req = [cursor |-> NoCursor, count |-> 0]
    /\ total = 0 /\ first = 0
    /\ result = NoResult
    /\ snap = {}

(* AddWithdrawal of a request not known yet: InsertOne.                    *)
AddWithdrawal ==
    \E d \in Docs :
        /\ d.pk \notin {e.pk : e \in docs}
        /\ PkFollowsCreated =>
              \A e \in docs : e.pk < d.pk /\ e.cr <= d.cr
        /\ docs' = docs \cup {d}
        /\ UNCHANGED <<pc, req, total, first, result, snap>>

(* Mutant: Withdrawals without the zero count check.                       *)
WithdrawalsNoZeroCheck ==
    /\ pc = "idle"
    /\ \E cursor \in Pks \cup {NoCursor}, count \in Counts :
         /\ req' = [cursor |-> cursor, count |-> count]
         /\ total' = Cardinality(docs)
         /\ IF docs = {}
              THEN /\ result' = Window(req', <<>>, 0, 0, TRUE, TRUE)
                   /\ UNCHANGED pc
              ELSE /\ pc' = "marks"
                   /\ UNCHANGED result
    /\ UNCHANGED <<docs, first, snap>>

(* Withdrawals: a zero count is refused before any query; otherwise        *)
(* wrListInit counts the collection and returns the empty list at once    *)
(* when it is empty.                                                       *)
Withdrawals ==
    /\ pc = "idle"
    /\ \E cursor \in Pks \cup {NoCursor}, count \in Counts :
         /\ req' = [cursor |-> cursor, count |-> count]
         /\ IF count = 0
              THEN /\ result' = ErrResult
                   /\ UNCHANGED <<pc, total>>
              ELSE /\ total' = Cardinality(docs)
                   /\ IF docs = {}
                        THEN /\ result' = Window(req', <<>>, 0, 0, TRUE, TRUE)
                             /\ UNCHANGED pc
                        ELSE /\ pc' = "marks"
                             /\ UNCHANGED result
    /\ UNCHANGED <<docs, first, snap>>

(* wrListCollectRangeMarks: the border _id without a cursor.  With one,  *)
(* wrListBorderPk looks up {_id: *cursor}: the cursor is the caller's     *)
(* string while _id is a number, so no document matches (and a string _id *)
(* would not decode into the uint64 row); Decode fails and Withdrawals    *)
(* returns that error.                                                     *)
CollectRangeMarks ==
    /\ pc = "marks"
    /\ IF req.cursor = NoCursor
         THEN /\ first' = BorderPk(docs, req.count)
              /\ pc' = "load"
              /\ UNCHANGED <<result, snap>>
         ELSE /\ result' = ErrResult
              /\ pc' = "idle"
              /\ snap' = docs
              /\ UNCHANGED first
    /\ UNCHANGED <<docs, req, total>>

(* wrListLoad and the final Reverse of Withdrawals.                        *)
ListLoad ==
    /\ pc = "load"
    /\ LET f == Fetch(docs, req.cursor, req.count, first)
       IN  result' = Window(req, LoadItems(f, req.cursor, req.count), total,
                            first,
                            LoadIsStart(f, req.cursor, req.count),
                            LoadIsEnd(f, req.cursor, req.count))
    /\ pc' = "idle"
    /\ snap' = docs
    /\ UNCHANGED <<docs, req, total, first>>

Next == AddWithdrawal \/ Withdrawals \/ CollectRangeMarks \/ ListLoad

Spec == Init /\ [][Next]_vars

-----------------------------------------------------------------------------
Results ==
    {NoResult, ErrResult}
    \cup [kind : {"list"}, req : [cursor : Pks \cup {NoCursor}, count : Counts \ {0}],
          items : Seq(Docs), total : Nat, first : Nat,
          isStart : BOOLEAN, isEnd : BOOLEAN]

(* Every variable holds a value of its kind.                               *)
TypeOK ==
    /\ docs \subseteq Docs /\ snap \subseteq Docs
    /\ pc \in {"idle", "marks", "load"}
    /\ req \in [cursor : Pks \cup {NoCursor}, count : Counts \cup {0}]
    /\ total \in Nat /\ first \in Nat
    /\ result \in Results

IsList == result.kind = "list"
Items == result.items

(* Withdrawals returns every page newest first, whichever direction it    *)
(* was loaded in (the Reverse on a negative count).                        *)
WindowNewestFirst ==
    IsList => \A i \in 1..(Len(Items) - 1) : Newer(Items[i], Items[i + 1])

(* The specification (3. DATA MODEL, 8.): a window never holds more than  *)
(* |count| items.                                                          *)
WindowWithinCount == IsList => Len(Items) <= Abs(result.req.count)

(* The specification (3. DATA MODEL, 8.): isStart holds iff no document   *)
(* of the collection is newer than the window's first item, and isEnd iff *)
(* none is older than its last item.                                       *)
BoundaryFlagsExact ==
    IsList /\ Items # <<>> =>
        /\ result.isStart <=> ~\E d \in snap : Newer(d, Items[1])
        /\ result.isEnd <=> ~\E d \in snap : Newer(Items[Len(Items)], d)

(* The specification (4.5 step 2, 7., scenario A): a cursor naming a     *)
(* document of the collection is resolved and the page after it loaded;  *)
(* only a cursor that resolves to no key makes the request fail.          *)
CursorResolves ==
    pc = "idle" /\ result = ErrResult /\ req.count # 0 =>
        req.cursor \notin {d.pk : d \in snap}

-----------------------------------------------------------------------------
(* The inductive strengthening of the page invariants: the collection is  *)
(* finite, a query in progress has a non-zero count, the border is taken  *)
(* from a non-empty collection, and only a request without a cursor gets  *)
(* as far as wrListLoad.                                                   *)
ListInv ==
    /\ TypeOK
    /\ IsFiniteSet(docs)
    /\ pc # "idle" => req.count # 0
    /\ pc = "marks" => docs # {}
    /\ pc = "load" => req.cursor = NoCursor
    /\ WindowNewestFirst

=============================================================================
