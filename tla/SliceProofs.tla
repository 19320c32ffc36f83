----------------------------- MODULE SliceProofs -----------------------------
(***************************************************************************)
(* Proofs about the slices of a list, for every list and every bound on    *)
(* the subscriptions of a stream.                                          *)
(***************************************************************************)
EXTENDS SymbolSlices, SequenceTheorems, FiniteSetTheorems, TLAPS

USE MaxPerStreamAssumption

-----------------------------------------------------------------------------
(* Positions *)

(* The slice of a position is a number from 1 on.                          *)
LEMMA SliceOfType ==
  ASSUME NEW p \in Nat \ {0}
  PROVE  SliceOf(p) \in Nat \ {0}
<1>1. p - 1 \in Nat
  OBVIOUS
<1>2. (p - 1) \div MaxPerStream \in Nat
  BY <1>1
<1> QED
  BY <1>2 DEF SliceOf

(* Positions further on are in the same slice or in a later one.           *)
LEMMA SliceOfMonotonic ==
  ASSUME NEW p \in Nat \ {0}, NEW q \in Nat \ {0}, p <= q
  PROVE  SliceOf(p) <= SliceOf(q)
<1>1. /\ p - 1 \in Nat /\ q - 1 \in Nat /\ p - 1 <= q - 1
      /\ (p - 1) \div MaxPerStream \in Nat /\ (q - 1) \div MaxPerStream \in Nat
  OBVIOUS
<1>2. (p - 1) \div MaxPerStream <= (q - 1) \div MaxPerStream
  BY <1>1
<1> QED
  BY <1>1, <1>2 DEF SliceOf

(* The positions that are in slice i.                                      *)
LEMMA SliceBounds ==
  ASSUME NEW p \in Nat \ {0}, NEW i \in Nat \ {0}
  PROVE  SliceOf(p) = i <=> (i - 1) * MaxPerStream < p /\ p <= i * MaxPerStream
<1> DEFINE q == (p - 1) \div MaxPerStream
           r == (p - 1) % MaxPerStream
<1>1. q \in Nat /\ r \in 0 .. MaxPerStream - 1 /\ p - 1 = MaxPerStream * q + r
  OBVIOUS
<1>2. q + 1 = i <=> (i - 1) * MaxPerStream < p /\ p <= i * MaxPerStream
  <2> HIDE DEF q, r
  <2>1. ASSUME q + 1 = i
        PROVE  (i - 1) * MaxPerStream < p /\ p <= i * MaxPerStream
    BY <1>1, <2>1
  <2>2. ASSUME (i - 1) * MaxPerStream < p, p <= i * MaxPerStream
        PROVE  q + 1 = i
    <3>1. ~(q < i - 1)
      <4> SUFFICES ASSUME q + 1 <= i - 1 PROVE FALSE
        BY <1>1
      <4>1. MaxPerStream * (q + 1) <= MaxPerStream * (i - 1)
        BY <1>1
      <4> QED
        BY <4>1, <1>1, <2>2
    <3>2. ~(i <= q)
      <4> SUFFICES ASSUME i <= q PROVE FALSE
        OBVIOUS
      <4>1. MaxPerStream * i <= MaxPerStream * q
        BY <1>1
      <4> QED
        BY <4>1, <1>1, <2>2
    <3> QED
      BY <3>1, <3>2, <1>1
  <2> QED
    BY <2>1, <2>2
<1> QED
  BY <1>2 DEF SliceOf

(* The positions of slice i are within MaxPerStream of each other.         *)
LEMMA SliceWidth ==
  ASSUME NEW p \in Nat \ {0}
  PROVE  p - (SliceOf(p) - 1) * MaxPerStream \in 1 .. MaxPerStream
<1> DEFINE q == (p - 1) \div MaxPerStream
           r == (p - 1) % MaxPerStream
<1>1. q \in Nat /\ r \in 0 .. MaxPerStream - 1 /\ p - 1 = MaxPerStream * q + r
  OBVIOUS
<1>2. SliceOf(p) = q + 1
  BY DEF SliceOf
<1> HIDE DEF q, r
<1>3. (SliceOf(p) - 1) * MaxPerStream = MaxPerStream * q
  BY <1>1, <1>2
<1> QED
  BY <1>1, <1>3

(* The number of slices is a natural number.                               *)
LEMMA SizeType ==
  ASSUME NEW T, NEW list \in Seq(T)
  PROVE  Size(list) \in Nat
<1>1. CASE list = <<>>
  BY <1>1 DEF Size
<1>2. CASE list # <<>>
  <2>1. Len(list) \in Nat \ {0}
    BY <1>2, EmptySeq
  <2> QED
    BY <1>2, <2>1, SliceOfType DEF Size
<1> QED
  BY <1>1, <1>2

(* The slices in use are those up to Size, without a gap.                  *)
LEMMA SlicesInUse ==
  ASSUME NEW T, NEW list \in Seq(T)
  PROVE  {SliceOf(p) : p \in DOMAIN list} = 1 .. Size(list)
<1>1. DOMAIN list = 1 .. Len(list) /\ Len(list) \in Nat
  OBVIOUS
<1>2. CASE list = <<>>
  BY <1>2 DEF Size
<1>3. CASE list # <<>>
  <2>1. Len(list) \in Nat \ {0} /\ Size(list) = SliceOf(Len(list))
    BY <1>3, EmptySeq DEF Size
  <2>2. ASSUME NEW p \in 1 .. Len(list)
        PROVE  SliceOf(p) \in 1 .. Size(list)
    BY <2>1, SliceOfType, SliceOfMonotonic
  <2>3. ASSUME NEW k \in 1 .. Size(list)
        PROVE  \E p \in 1 .. Len(list) : SliceOf(p) = k
    <3> DEFINE first == (k - 1) * MaxPerStream
    <3>1. k - 1 \in Nat /\ first \in Nat
      BY <2>1, SliceOfType
    <3>2. SliceOf(first + 1) = k
      <4>1. first \div MaxPerStream = k - 1
        BY <3>1
      <4> HIDE DEF first
      <4> QED
        BY <4>1, <3>1 DEF SliceOf
    <3>3. first + 1 <= Len(list)
      <4>1. k - 1 <= (Len(list) - 1) \div MaxPerStream
        BY <2>1, SliceOfType DEF SliceOf
      <4>2. /\ Len(list) - 1 \in Nat
            /\ (Len(list) - 1) \div MaxPerStream \in Nat
            /\ MaxPerStream * ((Len(list) - 1) \div MaxPerStream) <= Len(list) - 1
        BY <2>1
      <4>3. first <= MaxPerStream * ((Len(list) - 1) \div MaxPerStream)
        BY <3>1, <4>1, <4>2
      <4> HIDE DEF first
      <4> QED
        BY <3>1, <4>2, <4>3, <2>1
    <3> HIDE DEF first
    <3> QED
      BY <3>1, <3>2, <3>3
  <2> QED
    BY <1>1, <2>2, <2>3
<1> QED
  BY <1>2, <1>3

-----------------------------------------------------------------------------
(* Updates of the list *)

(* What a list of new symbols is: a sequence that names each once.         *)
LEMMA OrdersFacts ==
  ASSUME NEW S, IsFiniteSet(S), NEW new \in Orders(S)
  PROVE  /\ new \in Seq(S)
         /\ Range(new) = S
         /\ IsInjective(new)
<1>1. Cardinality(S) \in Nat
  BY FS_CardinalityType
<1>2. /\ new \in [1 .. Cardinality(S) -> S]
      /\ \A x, y \in DOMAIN new : new[x] = new[y] => x = y
      /\ \A t \in S : \E x \in DOMAIN new : new[x] = t
  BY DEF Orders, Bijection, Injection, Surjection, IsInjective, Range
<1>3. new \in Seq(S)
  BY <1>1, <1>2, SeqDef
<1>4. Range(new) = S
  BY <1>2 DEF Range
<1> QED
  BY <1>2, <1>3, <1>4 DEF IsInjective

(* The list after an update: the old one, then the new symbols; each name  *)
(* still occurs once.                                                      *)
LEMMA AppendFacts ==
  ASSUME NEW T, NEW old \in Seq(T), IsInjective(old),
         NEW S \in SUBSET T, IsFiniteSet(T), S \cap Range(old) = {},
         NEW new \in Orders(S)
  PROVE  LET list == old \o new
         IN  /\ list \in Seq(T)
             /\ IsInjective(list)
             /\ Range(list) = Range(old) \cup S
             /\ DOMAIN old \subseteq DOMAIN list
             /\ \A p \in DOMAIN list : p > Len(old) <=> p \notin DOMAIN old
             /\ \A p \in DOMAIN old : list[p] = old[p]
<1> DEFINE list == old \o new
<1>0. IsFiniteSet(S)
  BY FS_Subset
<1>1. /\ new \in Seq(S)
      /\ Range(new) = S
      /\ IsInjective(new)
  BY <1>0, OrdersFacts
<1>2. new \in Seq(T)
  BY <1>1, SeqMonotonic
<1>3. /\ Len(old) \in Nat /\ Len(new) \in Nat
      /\ DOMAIN old = 1 .. Len(old) /\ DOMAIN new = 1 .. Len(new)
      /\ list \in Seq(T)
      /\ DOMAIN list = 1 .. Len(old) + Len(new)
      /\ \A p \in 1 .. Len(old) : list[p] = old[p]
      /\ \A p \in 1 .. Len(old) + Len(new) : p > Len(old) => list[p] = new[p - Len(old)]
  BY <1>2
<1>4. \A p \in DOMAIN list : p > Len(old) =>
          p - Len(old) \in DOMAIN new /\ list[p] = new[p - Len(old)] /\ list[p] \in S
  BY <1>1, <1>3
<1>5. \A p \in DOMAIN old : list[p] = old[p] /\ list[p] \in Range(old)
  BY <1>3 DEF Range
<1>6. IsInjective(list)
  <2> SUFFICES ASSUME NEW p \in DOMAIN list, NEW q \in DOMAIN list, list[p] = list[q]
               PROVE  p = q
    BY DEF IsInjective
  <2>1. CASE p <= Len(old) /\ q <= Len(old)
    BY <2>1, <1>3 DEF IsInjective
  <2>2. CASE p > Len(old) /\ q > Len(old)
    <3>1. p - Len(old) = q - Len(old)
      BY <2>2, <1>1, <1>4 DEF IsInjective
    <3> QED
      BY <3>1, <1>3
  <2>3. CASE p <= Len(old) /\ q > Len(old)
    BY <2>3, <1>3, <1>4, <1>5
  <2>4. CASE p > Len(old) /\ q <= Len(old)
    BY <2>4, <1>3, <1>4, <1>5
  <2> QED
    BY <2>1, <2>2, <2>3, <2>4, <1>3
<1>7. Range(list) = Range(old) \cup S
  <2>1. Range(list) \subseteq Range(old) \cup S
    BY <1>3, <1>4, <1>5 DEF Range
  <2>2. Range(old) \subseteq Range(list)
    BY <1>3 DEF Range
  <2>3. ASSUME NEW t \in S PROVE t \in Range(list)
    <3>1. PICK k \in DOMAIN new : new[k] = t
      BY <1>1 DEF Range
    <3>2. /\ Len(old) + k \in DOMAIN list
          /\ list[Len(old) + k] = t
      BY <3>1, <1>3
    <3> QED
      BY <3>2 DEF Range
  <2> QED
    BY <2>1, <2>2, <2>3
<1> QED
  BY <1>3, <1>6, <1>7

(* What is in a slice after an update was in it or comes after the old end.*)
LEMMA SliceAppend ==
  ASSUME NEW T, NEW old \in Seq(T), NEW new \in Seq(T), NEW i
  PROVE  GetSlice(old \o new, i, 0) =
            GetSlice(old, i, 0) \cup GetSlice(old \o new, i, Len(old))
<1> DEFINE list == old \o new
<1>1. /\ Len(old) \in Nat /\ Len(list) \in Nat /\ Len(old) <= Len(list)
      /\ DOMAIN old = 1 .. Len(old) /\ DOMAIN list = 1 .. Len(list)
      /\ \A p \in DOMAIN old : list[p] = old[p]
  BY ConcatProperties
<1> HIDE DEF list
<1>2. GetSlice(list, i, 0) = GetSlice(old, i, 0) \cup GetSlice(list, i, Len(old))
  BY <1>1 DEF GetSlice
<1> QED
  BY <1>2 DEF list

(* A slice of the list after an update: what it was, and separately what   *)
(* get_slice(index, start_from) returns.                                   *)
LEMMA SliceSplit ==
  ASSUME NEW T, NEW old \in Seq(T), IsInjective(old),
         NEW S \in SUBSET T, IsFiniteSet(T), S \cap Range(old) = {},
         NEW new \in Orders(S),
         NEW i, NEW s
  PROVE  LET list == old \o new
         IN  /\ s \in GetSlice(list, i, 0)
                  <=> s \in GetSlice(old, i, 0) \/ s \in GetSlice(list, i, Len(old))
             /\ ~(s \in GetSlice(old, i, 0) /\ s \in GetSlice(list, i, Len(old)))
<1> DEFINE list == old \o new
<1>1. /\ list \in Seq(T)
      /\ IsInjective(list)
      /\ DOMAIN old \subseteq DOMAIN list
      /\ \A p \in DOMAIN list : p > Len(old) <=> p \notin DOMAIN old
      /\ \A p \in DOMAIN old : list[p] = old[p]
  BY AppendFacts
<1>2. (\A p \in DOMAIN list : p > 0) /\ (\A p \in DOMAIN old : p > 0)
  BY <1>1
<1>3. s \in GetSlice(list, i, 0) <=> \E p \in DOMAIN list : SliceOf(p) = i /\ s = list[p]
  BY <1>2 DEF GetSlice
<1>4. s \in GetSlice(old, i, 0) <=> \E p \in DOMAIN old : SliceOf(p) = i /\ s = list[p]
  BY <1>1, <1>2 DEF GetSlice
<1>5. s \in GetSlice(list, i, Len(old)) <=>
          \E p \in DOMAIN list : p \notin DOMAIN old /\ SliceOf(p) = i /\ s = list[p]
  BY <1>1 DEF GetSlice
<1>6. s \in GetSlice(list, i, 0)
        <=> s \in GetSlice(old, i, 0) \/ s \in GetSlice(list, i, Len(old))
  BY <1>1, <1>3, <1>4, <1>5
<1>7. ~(s \in GetSlice(old, i, 0) /\ s \in GetSlice(list, i, Len(old)))
  BY <1>1, <1>4, <1>5 DEF IsInjective
<1> QED
  BY <1>6, <1>7

-----------------------------------------------------------------------------
(* The slice of a symbol *)

(* The slice of a symbol is that of its place, and no other.               *)
LEMMA StreamOfFacts ==
  ASSUME NEW T, NEW list \in Seq(T), IsInjective(list), NEW s \in Range(list)
  PROVE  /\ StreamOf(list, s) \in Nat \ {0}
         /\ \A i : s \in GetSlice(list, i, 0) <=> StreamOf(list, s) = i
<1>1. PICK p \in DOMAIN list : list[p] = s
  BY DEF Range
<1>2. \A q \in DOMAIN list : q \in Nat \ {0} /\ q > 0
  OBVIOUS
<1>3. \A q \in DOMAIN list : list[q] = s => q = p
  BY <1>1 DEF IsInjective
<1>4. (CHOOSE q \in DOMAIN list : list[q] = s) = p
  BY <1>1, <1>3
<1>5. StreamOf(list, s) = SliceOf(p)
  BY <1>4 DEF StreamOf
<1>6. \A i : s \in GetSlice(list, i, 0) <=> SliceOf(p) = i
  BY <1>1, <1>2, <1>3 DEF GetSlice
<1> QED
  BY <1>1, <1>2, <1>5, <1>6, SliceOfType

(* New symbols leave the ones before them where they are.                  *)
LEMMA StreamOfAppend ==
  ASSUME NEW T, NEW old \in Seq(T), IsInjective(old),
         NEW S \in SUBSET T, IsFiniteSet(T), S \cap Range(old) = {},
         NEW new \in Orders(S), NEW s \in Range(old)
  PROVE  StreamOf(old \o new, s) = StreamOf(old, s)
<1> DEFINE list == old \o new
<1>1. /\ list \in Seq(T) /\ IsInjective(list)
      /\ Range(list) = Range(old) \cup S
  BY AppendFacts
<1>2. s \in GetSlice(old, StreamOf(old, s), 0)
  BY StreamOfFacts
<1>3. s \in GetSlice(list, StreamOf(old, s), 0)
  BY <1>2, SliceSplit
<1> HIDE DEF list
<1>4. s \in Range(list)
  BY <1>1
<1>5. StreamOf(list, s) = StreamOf(old, s)
  <2> HIDE <1>2
  <2> QED
    BY <1>1, <1>3, <1>4, StreamOfFacts DEF list
<1> QED
  BY <1>5 DEF list

(* No slice has more than MaxPerStream symbols.                            *)
LEMMA SliceCardinality ==
  ASSUME NEW S, NEW list \in Seq(S), IsInjective(list), NEW i
  PROVE  Cardinality({t \in Range(list) : StreamOf(list, t) = i}) <= MaxPerStream
<1> DEFINE T == {t \in Range(list) : StreamOf(list, t) = i}
           place(t) == CHOOSE p \in DOMAIN list : list[p] = t
           offset(p) == p - (SliceOf(p) - 1) * MaxPerStream
           f == [t \in T |-> offset(place(t))]
<1>1. \A t \in T : place(t) \in DOMAIN list /\ list[place(t)] = t
  BY DEF Range
<1>2. \A p \in DOMAIN list : p \in Nat \ {0}
  OBVIOUS
<1>3. \A t \in T : SliceOf(place(t)) = i
  BY DEF StreamOf
<1>4. \A t \in T : offset(place(t)) \in 1 .. MaxPerStream
  BY <1>1, <1>2, SliceWidth
<1>5. ASSUME NEW t \in T, NEW u \in T, offset(place(t)) = offset(place(u))
      PROVE  t = u
  <2>1. place(t) - (i - 1) * MaxPerStream = place(u) - (i - 1) * MaxPerStream
    BY <1>3, <1>5
  <2>2. SliceOf(place(t)) \in Nat \ {0}
    BY <1>1, <1>2, SliceOfType
  <2>3. (i - 1) * MaxPerStream \in Int
    BY <1>3, <2>2
  <2>4. place(t) \in Nat /\ place(u) \in Nat
    BY <1>1, <1>2
  <2>5. place(t) = place(u)
    <3> HIDE DEF place
    <3> QED
      BY <2>1, <2>3, <2>4
  <2> QED
    BY <1>1, <2>5
<1> HIDE DEF place, offset, T
<1>6. f \in Injection(T, 1 .. MaxPerStream)
  <2>1. f \in [T -> 1 .. MaxPerStream]
    BY <1>4
  <2>2. IsInjective(f)
    BY <1>5 DEF IsInjective
  <2> QED
    BY <2>1, <2>2 DEF Injection
<1>7. IsFiniteSet(1 .. MaxPerStream) /\ Cardinality(1 .. MaxPerStream) = MaxPerStream
  BY FS_Interval
<1>8. Cardinality(T) <= MaxPerStream
  BY <1>6, <1>7, FS_Injection
<1> QED
  BY <1>8 DEF T
=============================================================================
