------------------------- MODULE WithdrawalListProofs -------------------------
(***************************************************************************)
(* Proofs about the keyset pagination of withdraw requests: every page    *)
(* Withdrawals returns is newest first, whatever inserts land between its *)
(* queries, for any keys, creation times and page sizes.                  *)
(*                                                                         *)
(* The sorts of wrListOptions are modelled by rank: the i-th document is  *)
(* the one with i - 1 documents before it.  The lemmas of the first part *)
(* show, for any strict total order given as a set of pairs, that such a *)
(* document exists at every position of a finite set and that the        *)
(* positions follow the order; they are used for the newest-first and   *)
(* for the oldest-first sort.                                              *)
(***************************************************************************)
EXTENDS WithdrawalList, FiniteSetTheorems, TLAPS

USE WithdrawalListAssumption

(* The elements of S before d in the order R, and R being a strict total  *)
(* order on S.                                                             *)
Below(S, R, d) == {e \in S : <<e, d>> \in R}

StrictTotal(S, R) ==
    /\ \A a \in S : <<a, a>> \notin R
    /\ \A a, b, c \in S : <<a, b>> \in R /\ <<b, c>> \in R => <<a, c>> \in R
    /\ \A a, b \in S : a # b => <<a, b>> \in R \/ <<b, a>> \in R

(* The rank of an element is one of 0 .. |S| - 1.                        *)
LEMMA RankBound ==
    ASSUME NEW S, IsFiniteSet(S), NEW R, StrictTotal(S, R), NEW d \in S
    PROVE  /\ IsFiniteSet(Below(S, R, d))
           /\ Cardinality(Below(S, R, d)) \in 0..(Cardinality(S) - 1)
<1>1. Below(S, R, d) \subseteq S \ {d}
  BY DEF Below, StrictTotal
<1>2. IsFiniteSet(S \ {d}) /\ Cardinality(S \ {d}) = Cardinality(S) - 1
  BY FS_RemoveElement
<1>3. IsFiniteSet(Below(S, R, d))
      /\ Cardinality(Below(S, R, d)) <= Cardinality(S) - 1
  BY <1>1, <1>2, FS_Subset
<1>4. Cardinality(Below(S, R, d)) \in Nat
  BY <1>3, FS_CardinalityType
<1>5. QED BY <1>3, <1>4

(* An element before another has a smaller rank.                           *)
LEMMA RankMonotone ==
    ASSUME NEW S, IsFiniteSet(S), NEW R, StrictTotal(S, R),
           NEW a \in S, NEW b \in S, <<a, b>> \in R
    PROVE  Cardinality(Below(S, R, a)) < Cardinality(Below(S, R, b))
<1>1. Below(S, R, a) \cup {a} \subseteq Below(S, R, b)
  BY DEF Below, StrictTotal
<1>2. a \notin Below(S, R, a)
  BY DEF Below, StrictTotal
<1>3. IsFiniteSet(Below(S, R, a)) /\ IsFiniteSet(Below(S, R, b))
      /\ Cardinality(Below(S, R, a)) \in Nat
      /\ Cardinality(Below(S, R, b)) \in Nat
  BY RankBound
<1>4. Cardinality(Below(S, R, a) \cup {a}) = Cardinality(Below(S, R, a)) + 1
  BY <1>2, <1>3, FS_AddElement
<1>5. Cardinality(Below(S, R, a) \cup {a}) <= Cardinality(Below(S, R, b))
  BY <1>1, <1>3, FS_Subset
<1>6. QED BY <1>3, <1>4, <1>5

(* Every rank 0 .. |S| - 1 is taken: the ranks are |S| distinct values   *)
(* of a set of |S| values.                                                 *)
LEMMA RankOnto ==
    ASSUME NEW S, IsFiniteSet(S), NEW R, StrictTotal(S, R),
           NEW i \in 0..(Cardinality(S) - 1)
    PROVE  \E d \in S : Cardinality(Below(S, R, d)) = i
<1> DEFINE n == Cardinality(S)
           rk == [d \in S |-> Cardinality(Below(S, R, d))]
<1>1. n \in Nat
  BY FS_CardinalityType
<1>2. rk \in [S -> 0..(n - 1)]
  BY RankBound
<1>3. IsInjective(rk)
  <2> SUFFICES ASSUME NEW a \in S, NEW b \in S, a # b PROVE rk[a] # rk[b]
    BY DEF IsInjective
  <2>1. <<a, b>> \in R \/ <<b, a>> \in R
    BY DEF StrictTotal
  <2>0. Cardinality(Below(S, R, a)) \in Nat /\ Cardinality(Below(S, R, b)) \in Nat
    BY RankBound
  <2>2. CASE <<a, b>> \in R
    <3>1. Cardinality(Below(S, R, a)) < Cardinality(Below(S, R, b))
      BY <2>2, RankMonotone
    <3>2. QED BY <2>0, <3>1 DEF rk
  <2>3. CASE <<b, a>> \in R
    <3>1. Cardinality(Below(S, R, b)) < Cardinality(Below(S, R, a))
      BY <2>3, RankMonotone
    <3>2. QED BY <2>0, <3>1 DEF rk
  <2>4. QED BY <2>1, <2>2, <2>3
<1>4. IsFiniteSet(0..(n - 1)) /\ Cardinality(0..(n - 1)) = n
  BY <1>1, FS_Interval
<1>5. rk \in Surjection(S, 0..(n - 1))
  <2>1. rk \in Injection(S, 0..(n - 1))
    BY <1>2, <1>3 DEF Injection
  <2>2. QED BY <1>4, <2>1, FS_Injection
<1>6. QED BY <1>5 DEF Surjection

(* Choosing at position i an element of rank i - 1, whenever there is   *)
(* one, lists S in the order R.                                            *)
LEMMA SortedByRank ==
    ASSUME NEW S, IsFiniteSet(S), NEW R, StrictTotal(S, R), NEW srt,
           \A i \in 1..Cardinality(S) :
              (\E d \in S : Cardinality(Below(S, R, d)) = i - 1)
                 => srt[i] \in S /\ Cardinality(Below(S, R, srt[i])) = i - 1
    PROVE  /\ Cardinality(S) \in Nat
           /\ \A i \in 1..Cardinality(S) : srt[i] \in S
           /\ \A i \in 1..(Cardinality(S) - 1) : <<srt[i], srt[i + 1]>> \in R
<1>1. Cardinality(S) \in Nat
  BY FS_CardinalityType
<1>2. \A i \in 1..Cardinality(S) :
        srt[i] \in S /\ Cardinality(Below(S, R, srt[i])) = i - 1
  <2> SUFFICES ASSUME NEW i \in 1..Cardinality(S)
               PROVE  srt[i] \in S /\ Cardinality(Below(S, R, srt[i])) = i - 1
    OBVIOUS
  <2>1. \E d \in S : Cardinality(Below(S, R, d)) = i - 1
    BY <1>1, RankOnto
  <2>2. QED BY <2>1
<1>3. ASSUME NEW i \in 1..(Cardinality(S) - 1)
      PROVE  <<srt[i], srt[i + 1]>> \in R
  <2>0. i \in 1..Cardinality(S) /\ i + 1 \in 1..Cardinality(S)
    BY <1>1
  <2>1. /\ srt[i] \in S /\ srt[i + 1] \in S
        /\ Cardinality(Below(S, R, srt[i])) = i - 1
        /\ Cardinality(Below(S, R, srt[i + 1])) = (i + 1) - 1
    BY <2>0, <1>2
  <2>2. srt[i] # srt[i + 1]
    BY <2>1
  <2>3. ~(<<srt[i + 1], srt[i]>> \in R)
    BY <2>1, RankMonotone
  <2>4. QED BY <2>1, <2>2, <2>3 DEF StrictTotal
<1>4. QED BY <1>1, <1>2, <1>3

-----------------------------------------------------------------------------
(* The list order of documents, newest first, and its converse, as sets   *)
(* of pairs.                                                                *)
NewerRel == {p \in Docs \X Docs : Newer(p[1], p[2])}
OlderRel == {p \in Docs \X Docs : Newer(p[2], p[1])}

(* (cr_time, _id) orders documents strictly and totally: two documents   *)
(* with the same creation time and _id are the same document.             *)
LEMMA NewerOrder ==
    ASSUME NEW S \in SUBSET Docs
    PROVE  StrictTotal(S, NewerRel) /\ StrictTotal(S, OlderRel)
<1>1. \A d \in S : d.pk \in Nat /\ d.cr \in Nat
  BY DEF Docs
<1>2. \A a, b \in S : a # b => a.pk # b.pk \/ a.cr # b.cr
  BY DEF Docs
<1>3. StrictTotal(S, NewerRel)
  BY <1>1, <1>2 DEF StrictTotal, NewerRel, Newer
<1>4. StrictTotal(S, OlderRel)
  BY <1>1, <1>2 DEF StrictTotal, OlderRel, Newer
<1>5. QED BY <1>3, <1>4

(* A finite sequence of documents listed newest first, or oldest first.  *)
NewestFirst(s) == \A i \in 1..(Len(s) - 1) : Newer(s[i], s[i + 1])
OldestFirst(s) == \A i \in 1..(Len(s) - 1) : Newer(s[i + 1], s[i])

(* The sort of wrListOptions for a positive count lists a finite set of  *)
(* documents newest first.                                                 *)
LEMMA SortDescSorted ==
    ASSUME NEW S \in SUBSET Docs, IsFiniteSet(S)
    PROVE  /\ SortDesc(S) \in Seq(S)
           /\ Len(SortDesc(S)) = Cardinality(S)
           /\ NewestFirst(SortDesc(S))
<1>1. \A d \in S : Below(S, NewerRel, d) = {e \in S : Newer(e, d)}
  BY DEF Below, NewerRel
<1>2. \A i \in 1..Cardinality(S) :
        (\E d \in S : Cardinality(Below(S, NewerRel, d)) = i - 1)
           => SortDesc(S)[i] \in S /\ Cardinality(Below(S, NewerRel, SortDesc(S)[i])) = i - 1
  <2> SUFFICES ASSUME NEW i \in 1..Cardinality(S),
                      \E d \in S : Cardinality(Below(S, NewerRel, d)) = i - 1
               PROVE  /\ SortDesc(S)[i] \in S
                      /\ Cardinality(Below(S, NewerRel, SortDesc(S)[i])) = i - 1
    OBVIOUS
  <2>1. \E d \in S : Cardinality({e \in S : Newer(e, d)}) = i - 1
    BY <1>1
  <2>2. SortDesc(S)[i] = CHOOSE d \in S : Cardinality({e \in S : Newer(e, d)}) = i - 1
    BY DEF SortDesc
  <2>3. /\ SortDesc(S)[i] \in S
        /\ Cardinality({e \in S : Newer(e, SortDesc(S)[i])}) = i - 1
    BY <2>1, <2>2, Zenon
  <2>4. QED BY <1>1, <2>3
<1>3. /\ Cardinality(S) \in Nat
      /\ \A i \in 1..Cardinality(S) : SortDesc(S)[i] \in S
      /\ \A i \in 1..(Cardinality(S) - 1) :
            <<SortDesc(S)[i], SortDesc(S)[i + 1]>> \in NewerRel
  BY <1>2, NewerOrder, SortedByRank
<1>4. SortDesc(S) \in [1..Cardinality(S) -> S]
  BY <1>3 DEF SortDesc
<1>5. SortDesc(S) \in Seq(S) /\ Len(SortDesc(S)) = Cardinality(S)
  BY <1>3, <1>4
<1>6. NewestFirst(SortDesc(S))
  <2> SUFFICES ASSUME NEW i \in 1..(Len(SortDesc(S)) - 1)
               PROVE  <<SortDesc(S)[i], SortDesc(S)[i + 1]>> \in NewerRel
    BY DEF NewestFirst, NewerRel
  <2>1. QED BY <1>3, <1>5
<1>7. QED BY <1>5, <1>6

(* The sort of wrListOptions for a negative count lists a finite set of  *)
(* documents oldest first.                                                 *)
LEMMA SortAscSorted ==
    ASSUME NEW S \in SUBSET Docs, IsFiniteSet(S)
    PROVE  /\ SortAsc(S) \in Seq(S)
           /\ Len(SortAsc(S)) = Cardinality(S)
           /\ OldestFirst(SortAsc(S))
<1>1. \A d \in S : Below(S, OlderRel, d) = {e \in S : Newer(d, e)}
  BY DEF Below, OlderRel
<1>2. \A i \in 1..Cardinality(S) :
        (\E d \in S : Cardinality(Below(S, OlderRel, d)) = i - 1)
           => SortAsc(S)[i] \in S /\ Cardinality(Below(S, OlderRel, SortAsc(S)[i])) = i - 1
  <2> SUFFICES ASSUME NEW i \in 1..Cardinality(S),
                      \E d \in S : Cardinality(Below(S, OlderRel, d)) = i - 1
               PROVE  /\ SortAsc(S)[i] \in S
                      /\ Cardinality(Below(S, OlderRel, SortAsc(S)[i])) = i - 1
    OBVIOUS
  <2>1. \E d \in S : Cardinality({e \in S : Newer(d, e)}) = i - 1
    BY <1>1
  <2>2. SortAsc(S)[i] = CHOOSE d \in S : Cardinality({e \in S : Newer(d, e)}) = i - 1
    BY DEF SortAsc
  <2>3. /\ SortAsc(S)[i] \in S
        /\ Cardinality({e \in S : Newer(SortAsc(S)[i], e)}) = i - 1
    BY <2>1, <2>2, Zenon
  <2>4. QED BY <1>1, <2>3
<1>3. /\ Cardinality(S) \in Nat
      /\ \A i \in 1..Cardinality(S) : SortAsc(S)[i] \in S
      /\ \A i \in 1..(Cardinality(S) - 1) :
            <<SortAsc(S)[i], SortAsc(S)[i + 1]>> \in OlderRel
  BY <1>2, NewerOrder, SortedByRank
<1>4. SortAsc(S) \in [1..Cardinality(S) -> S]
  BY <1>3 DEF SortAsc
<1>5. SortAsc(S) \in Seq(S) /\ Len(SortAsc(S)) = Cardinality(S)
  BY <1>3, <1>4
<1>6. OldestFirst(SortAsc(S))
  <2> SUFFICES ASSUME NEW i \in 1..(Len(SortAsc(S)) - 1)
               PROVE  <<SortAsc(S)[i], SortAsc(S)[i + 1]>> \in OlderRel
    BY DEF OldestFirst, OlderRel
  <2>1. QED BY <1>3, <1>5
<1>7. QED BY <1>5, <1>6

-----------------------------------------------------------------------------
(* The Find limit keeps a prefix of at most n rows.                        *)
LEMMA TakePrefix ==
    ASSUME NEW T, NEW s \in Seq(T), NEW n \in Nat
    PROVE  /\ Take(s, n) \in Seq(T)
           /\ Len(Take(s, n)) <= n /\ Len(Take(s, n)) <= Len(s)
           /\ \A i \in 1..Len(Take(s, n)) : Take(s, n)[i] = s[i]
BY DEF Take

(* The Find of wrListLoad: at most |count| + 1 documents of S, all in the *)
(* range of wrListFilter, newest first for a positive count and oldest    *)
(* first for a negative one.                                               *)
LEMMA FetchShape ==
    ASSUME NEW S \in SUBSET Docs, IsFiniteSet(S), NEW cursor,
           NEW count \in Int \ {0}, NEW fst
    PROVE  /\ Fetch(S, cursor, count, fst) \in Seq(Docs)
           /\ Len(Fetch(S, cursor, count, fst)) <= Abs(count) + 1
           /\ \A i \in 1..Len(Fetch(S, cursor, count, fst)) :
                 InRange(Fetch(S, cursor, count, fst)[i].pk, cursor, count, fst)
           /\ count > 0 => NewestFirst(Fetch(S, cursor, count, fst))
           /\ count < 0 => OldestFirst(Fetch(S, cursor, count, fst))
<1> DEFINE sel == {d \in S : InRange(d.pk, cursor, count, fst)}
           lim == Abs(count) + 1
<1>1. sel \in SUBSET Docs /\ IsFiniteSet(sel)
  BY FS_Subset
<1>2. lim \in Nat
  BY DEF Abs
<1>3. CASE count > 0
  <2>1. Fetch(S, cursor, count, fst) = Take(SortDesc(sel), lim)
    BY <1>3 DEF Fetch
  <2>2. SortDesc(sel) \in Seq(sel) /\ NewestFirst(SortDesc(sel))
    BY <1>1, SortDescSorted
  <2>3. /\ Take(SortDesc(sel), lim) \in Seq(sel)
        /\ Len(Take(SortDesc(sel), lim)) <= lim
        /\ Len(Take(SortDesc(sel), lim)) <= Len(SortDesc(sel))
        /\ \A i \in 1..Len(Take(SortDesc(sel), lim)) :
              Take(SortDesc(sel), lim)[i] = SortDesc(sel)[i]
    BY <1>2, <2>2, TakePrefix
  <2>4. NewestFirst(Take(SortDesc(sel), lim))
    BY <2>2, <2>3 DEF NewestFirst
  <2>5. \A i \in 1..Len(Take(SortDesc(sel), lim)) :
          /\ Take(SortDesc(sel), lim)[i] \in Docs
          /\ InRange(Take(SortDesc(sel), lim)[i].pk, cursor, count, fst)
    BY <2>3 DEF sel
  <2>6. Take(SortDesc(sel), lim) \in Seq(Docs)
    BY <1>1, <2>3
  <2>7. QED BY <1>3, <2>1, <2>3, <2>4, <2>5, <2>6 DEF lim
<1>4. CASE count < 0
  <2>1. Fetch(S, cursor, count, fst) = Take(SortAsc(sel), lim)
    BY <1>4 DEF Fetch
  <2>2. SortAsc(sel) \in Seq(sel) /\ OldestFirst(SortAsc(sel))
    BY <1>1, SortAscSorted
  <2>3. /\ Take(SortAsc(sel), lim) \in Seq(sel)
        /\ Len(Take(SortAsc(sel), lim)) <= lim
        /\ Len(Take(SortAsc(sel), lim)) <= Len(SortAsc(sel))
        /\ \A i \in 1..Len(Take(SortAsc(sel), lim)) :
              Take(SortAsc(sel), lim)[i] = SortAsc(sel)[i]
    BY <1>2, <2>2, TakePrefix
  <2>4. OldestFirst(Take(SortAsc(sel), lim))
    BY <2>2, <2>3 DEF OldestFirst
  <2>5. \A i \in 1..Len(Take(SortAsc(sel), lim)) :
          /\ Take(SortAsc(sel), lim)[i] \in Docs
          /\ InRange(Take(SortAsc(sel), lim)[i].pk, cursor, count, fst)
    BY <2>3 DEF sel
  <2>6. Take(SortAsc(sel), lim) \in Seq(Docs)
    BY <1>1, <2>3
  <2>7. QED BY <1>4, <2>1, <2>3, <2>4, <2>5, <2>6 DEF lim
<1>5. QED BY <1>3, <1>4

(* What Withdrawals returns from a Find: fetched rows only, no more than  *)
(* were fetched, and newest first in both directions.                      *)
LEMMA LoadShape ==
    ASSUME NEW f \in Seq(Docs), NEW cursor, NEW count \in Int \ {0},
           count > 0 => NewestFirst(f), count < 0 => OldestFirst(f)
    PROVE  /\ LoadItems(f, cursor, count) \in Seq(Docs)
           /\ Len(LoadItems(f, cursor, count)) <= Len(f)
           /\ \A i \in 1..Len(LoadItems(f, cursor, count)) :
                 \E j \in 1..Len(f) : LoadItems(f, cursor, count)[i] = f[j]
           /\ NewestFirst(LoadItems(f, cursor, count))
<1> DEFINE keep == LoadIsStart(f, cursor, count) \/ LoadIsEnd(f, cursor, count)
           kept == IF keep /\ f # << >> THEN f ELSE Collection(f)
(* The rows wrListLoad keeps are a prefix of the fetched ones: all of    *)
(* them when a boundary is marked, all but the last otherwise.             *)
<1>1. /\ kept \in Seq(Docs) /\ Len(kept) <= Len(f)
      /\ \A i \in 1..Len(kept) : kept[i] = f[i]
  <2>1. CASE keep /\ f # << >>
    BY <2>1 DEF kept
  <2>2. CASE ~(keep /\ f # << >>)
    BY <2>2 DEF kept, Collection
  <2>3. QED BY <2>1, <2>2
<1>2. LoadItems(f, cursor, count) = IF count < 0 THEN Reversed(kept) ELSE kept
  BY DEF LoadItems
<1>3. CASE count > 0
  <2>1. LoadItems(f, cursor, count) = kept
    BY <1>2, <1>3
  <2>2. NewestFirst(kept)
    BY <1>1, <1>3 DEF NewestFirst
  <2>3. QED BY <1>1, <2>1, <2>2
<1>4. CASE count < 0
  <2> DEFINE L == Len(kept)
  <2>1. LoadItems(f, cursor, count) = Reversed(kept)
    BY <1>2, <1>4
  <2>2. /\ Reversed(kept) \in Seq(Docs) /\ Len(Reversed(kept)) = L
        /\ \A i \in 1..L : Reversed(kept)[i] = kept[L - i + 1]
        /\ \A i \in 1..L : L - i + 1 \in 1..L
    BY <1>1 DEF Reversed
  <2>3. NewestFirst(Reversed(kept))
    <3> SUFFICES ASSUME NEW i \in 1..(L - 1)
                 PROVE  Newer(kept[L - i + 1], kept[(L - i - 1) + 1])
      BY <2>2 DEF NewestFirst
    <3>1. L - i \in 1..(Len(f) - 1) /\ L - i + 1 \in 1..Len(f)
      BY <1>1
    <3>2. Newer(f[(L - i) + 1], f[L - i])
      BY <1>4, <3>1 DEF OldestFirst
    <3>3. kept[L - i + 1] = f[L - i + 1] /\ kept[L - i] = f[L - i]
      BY <1>1
    <3>4. QED BY <3>2, <3>3
  <2>4. \A i \in 1..L : \E j \in 1..Len(f) : Reversed(kept)[i] = f[j]
    <3> SUFFICES ASSUME NEW i \in 1..L
                 PROVE  \E j \in 1..Len(f) : Reversed(kept)[i] = f[j]
      OBVIOUS
    <3>0. L \in Nat /\ L <= Len(f)
      BY <1>1 DEF L
    <3>1. L - i + 1 \in 1..L /\ Reversed(kept)[i] = kept[L - i + 1]
      BY <2>2, <3>0
    <3>2. L - i + 1 \in 1..Len(f) /\ kept[L - i + 1] = f[L - i + 1]
      BY <1>1, <3>0, <3>1 DEF L
    <3>3. QED BY <3>1, <3>2
  <2>5. QED BY <1>1, <2>1, <2>2, <2>3, <2>4
<1>5. QED BY <1>3, <1>4

-----------------------------------------------------------------------------
(* The page invariants read the returned list alone.                       *)
LEMMA PagesFrame ==
    ASSUME result' = result, WindowNewestFirst
    PROVE  WindowNewestFirst'
BY DEF WindowNewestFirst, IsList, Items

(* An empty collection holds no withdraw request and no list is returned. *)
LEMMA ListInit == Init => ListInv
<1> SUFFICES ASSUME Init PROVE ListInv
  OBVIOUS
<1>1. TypeOK
  BY DEF Init, TypeOK, Results, NoResult
<1>2. IsFiniteSet(docs)
  BY FS_EmptySet DEF Init
<1>3. ~IsList
  BY DEF Init, IsList, NoResult
<1>4. QED
  BY <1>1, <1>2, <1>3
  DEF Init, ListInv, WindowNewestFirst

(* AddWithdrawal inserts one document and touches no query.                *)
LEMMA AddStep ==
    ASSUME ListInv, AddWithdrawal
    PROVE  ListInv'
<1>1. PICK d \in Docs : docs' = docs \cup {d}
                        /\ UNCHANGED <<pc, req, total, first, result, snap>>
  BY DEF AddWithdrawal
<1>2. IsFiniteSet(docs') /\ docs' \subseteq Docs /\ docs' # {}
  BY <1>1, FS_AddElement DEF ListInv, TypeOK
<1>3. QED BY <1>1, <1>2, PagesFrame DEF ListInv, TypeOK

(* Withdrawals refuses a zero count, answers an empty collection with the *)
(* empty list and otherwise starts the query on a non-empty collection.   *)
LEMMA WithdrawalsStep ==
    ASSUME ListInv, Withdrawals
    PROVE  ListInv'
<1>1. /\ pc = "idle"
      /\ UNCHANGED <<docs, first, snap>>
  BY DEF Withdrawals
<1>2. PICK cursor \in Pks \cup {NoCursor}, count \in Counts :
        /\ req' = [cursor |-> cursor, count |-> count]
        /\ IF count = 0
             THEN /\ result' = ErrResult
                  /\ UNCHANGED <<pc, total>>
             ELSE /\ total' = Cardinality(docs)
                  /\ IF docs = {}
                       THEN /\ result' = Window(req', <<>>, 0, 0, TRUE, TRUE)
                            /\ UNCHANGED pc
                       ELSE /\ pc' = "marks"
                            /\ UNCHANGED result
  BY DEF Withdrawals
<1>3. req' \in [cursor : Pks \cup {NoCursor}, count : Counts \cup {0}]
  BY <1>2
<1>4. CASE count = 0
  <2>1. ~IsList' /\ ErrResult \in Results
    BY <1>2, <1>4 DEF IsList, ErrResult, Results
  <2>2. QED
    BY <1>1, <1>2, <1>3, <1>4, <2>1
    DEF ListInv, TypeOK, WindowNewestFirst
<1>5. CASE count # 0 /\ docs = {}
  <2>1. Cardinality(docs) \in Nat
    BY <1>5, FS_EmptySet
  <2>2. result' \in Results
    <3>1. req' \in [cursor : Pks \cup {NoCursor}, count : Counts \ {0}]
      BY <1>2, <1>5
    <3>2. result' = Window(req', << >>, 0, 0, TRUE, TRUE)
      BY <1>2, <1>5
    <3>3. << >> \in Seq(Docs) /\ TRUE \in BOOLEAN
      OBVIOUS
    <3>4. QED BY <3>1, <3>2, <3>3 DEF Window, Results
  <2>3. Items' = << >>
    BY <1>2, <1>5 DEF Items, Window
  <2>4. WindowNewestFirst'
    BY <2>3 DEF WindowNewestFirst
  <2>5. QED BY <1>1, <1>2, <1>3, <1>5, <2>1, <2>2, <2>4 DEF ListInv, TypeOK
<1>6. CASE count # 0 /\ docs # {}
  <2>1. Cardinality(docs) \in Nat
    BY FS_CardinalityType DEF ListInv
  <2>2. pc' = "marks" /\ result' = result /\ req'.count # 0
    BY <1>2, <1>6
  <2>3. QED BY <1>1, <1>2, <1>3, <1>6, <2>1, <2>2, PagesFrame
        DEF ListInv, TypeOK
<1>7. QED BY <1>4, <1>5, <1>6

(* The first row of either sort of a non-empty finite collection is one  *)
(* of its documents, so the border _id is a key.                           *)
LEMMA BorderIsKey ==
    ASSUME NEW S \in SUBSET Docs, IsFiniteSet(S), S # {}, NEW count
    PROVE  BorderPk(S, count) \in Pks
<1>1. Cardinality(S) \in Nat /\ Cardinality(S) # 0
  BY FS_CardinalityType, FS_EmptySet
<1>2. SortDesc(S)[1] \in S
  <2>1. SortDesc(S) \in Seq(S) /\ Len(SortDesc(S)) = Cardinality(S)
    BY SortDescSorted
  <2>2. QED BY <1>1, <2>1
<1>3. SortAsc(S)[1] \in S
  <2>1. SortAsc(S) \in Seq(S) /\ Len(SortAsc(S)) = Cardinality(S)
    BY SortAscSorted
  <2>2. QED BY <1>1, <2>1
<1>4. QED BY <1>2, <1>3 DEF BorderPk, Docs

(* wrListCollectRangeMarks: without a cursor the range starts at the     *)
(* border _id; with one the lookup fails and the request ends in error.   *)
LEMMA MarksStep ==
    ASSUME ListInv, CollectRangeMarks
    PROVE  ListInv'
<1>1. /\ pc = "marks" /\ docs # {} /\ req.count # 0
      /\ UNCHANGED <<docs, req, total>>
  BY DEF CollectRangeMarks, ListInv
<1>2. CASE req.cursor = NoCursor
  <2>1. /\ first' = BorderPk(docs, req.count) /\ pc' = "load"
        /\ result' = result /\ snap' = snap
    BY <1>2 DEF CollectRangeMarks
  <2>2. first' \in Nat
    BY <1>1, <2>1, BorderIsKey DEF ListInv, TypeOK
  <2>3. QED BY <1>1, <1>2, <2>1, <2>2, PagesFrame DEF ListInv, TypeOK
<1>3. CASE req.cursor # NoCursor
  <2>1. result' = ErrResult /\ pc' = "idle" /\ first' = first /\ snap' = docs
    BY <1>3 DEF CollectRangeMarks
  <2>2. ~IsList' /\ ErrResult \in Results
    BY <2>1 DEF IsList, ErrResult, Results
  <2>3. QED
    BY <1>1, <2>1, <2>2 DEF ListInv, TypeOK, WindowNewestFirst
<1>4. QED BY <1>2, <1>3

(* wrListLoad and the final Reverse: the page is a newest-first list of   *)
(* rows of the range.                                                      *)
LEMMA LoadStep ==
    ASSUME ListInv, ListLoad
    PROVE  ListInv'
<1> DEFINE rows == Fetch(docs, req.cursor, req.count, first)
           page == LoadItems(rows, req.cursor, req.count)
<1>1. /\ pc = "load" /\ pc' = "idle" /\ snap' = docs
      /\ UNCHANGED <<docs, req, total, first>>
      /\ result' = Window(req, page, total, first,
                          LoadIsStart(rows, req.cursor, req.count),
                          LoadIsEnd(rows, req.cursor, req.count))
  BY DEF ListLoad
<1>2. /\ req.count \in Int \ {0} /\ req.count \in Counts \ {0}
      /\ req \in [cursor : Pks \cup {NoCursor}, count : Counts \ {0}]
      /\ docs \subseteq Docs /\ IsFiniteSet(docs)
      /\ total \in Nat /\ first \in Nat
  BY <1>1 DEF ListInv, TypeOK
<1>3. /\ rows \in Seq(Docs) /\ Len(rows) <= Abs(req.count) + 1
      /\ \A i \in 1..Len(rows) : InRange(rows[i].pk, req.cursor, req.count, first)
      /\ req.count > 0 => NewestFirst(rows)
      /\ req.count < 0 => OldestFirst(rows)
  BY <1>2, FetchShape
<1>4. /\ page \in Seq(Docs) /\ Len(page) <= Len(rows)
      /\ \A i \in 1..Len(page) : \E j \in 1..Len(rows) : page[i] = rows[j]
      /\ NewestFirst(page)
  <2>1. /\ rows \in Seq(Docs) /\ req.count \in Int \ {0}
        /\ req.count > 0 => NewestFirst(rows)
        /\ req.count < 0 => OldestFirst(rows)
    BY <1>2, <1>3
  <2>2. /\ LoadItems(rows, req.cursor, req.count) \in Seq(Docs)
        /\ Len(LoadItems(rows, req.cursor, req.count)) <= Len(rows)
        /\ \A i \in 1..Len(LoadItems(rows, req.cursor, req.count)) :
              \E j \in 1..Len(rows) :
                 LoadItems(rows, req.cursor, req.count)[i] = rows[j]
        /\ NewestFirst(LoadItems(rows, req.cursor, req.count))
    BY <2>1, LoadShape
  <2>3. QED BY <2>2 DEF page
<1>5. result' \in Results
  <2>1. /\ LoadIsStart(rows, req.cursor, req.count) \in BOOLEAN
        /\ LoadIsEnd(rows, req.cursor, req.count) \in BOOLEAN
    BY Zenon DEF LoadIsStart, LoadIsEnd
  <2>2. QED BY <1>1, <1>2, <1>4, <2>1 DEF Window, Results
<1>6. IsList' /\ Items' = page /\ result'.req = req
  BY <1>1 DEF IsList, Items, Window
<1>7. WindowNewestFirst'
  BY <1>4, <1>6 DEF WindowNewestFirst, NewestFirst
<1>8. QED BY <1>1, <1>2, <1>5, <1>7 DEF ListInv, TypeOK

(* Every step of the client and of AddWithdrawal keeps ListInv.            *)
LEMMA ListStep == ListInv /\ [Next]_vars => ListInv'
<1> SUFFICES ASSUME ListInv, [Next]_vars PROVE ListInv'
  OBVIOUS
<1>1. CASE AddWithdrawal
  BY <1>1, AddStep
<1>2. CASE Withdrawals
  BY <1>2, WithdrawalsStep
<1>3. CASE CollectRangeMarks
  BY <1>3, MarksStep
<1>4. CASE ListLoad
  BY <1>4, LoadStep
<1>5. CASE UNCHANGED vars
  BY <1>5 DEF vars, ListInv, TypeOK, WindowNewestFirst, IsList, Items
<1>6. QED BY <1>1, <1>2, <1>3, <1>4, <1>5 DEF Next

(* Every state the pagination reaches is well typed: in particular each  *)
(* returned list answers a request with a non-zero count.                  *)
THEOREM ListTypeCorrect == Spec => []TypeOK
BY ListInit, ListStep, PTL DEF Spec, ListInv

(* Withdrawals returns every page newest first, for a positive count as  *)
(* sorted by wrListOptions and for a negative one after the final        *)
(* Reverse, whatever inserts land between its queries.                     *)
THEOREM PagesNewestFirst == Spec => []WindowNewestFirst
BY ListInit, ListStep, PTL DEF Spec, ListInv

=============================================================================
