------------------------- MODULE MemoryStoreProofs -------------------------
(***************************************************************************)
(* MemoryStore's bound and the consistency of its answers, for any threads *)
(* and queries, any number of chunks and any limit.                        *)
(***************************************************************************)
EXTENDS MemoryStore, FiniteSetTheorems, SequenceTheorems, TLAPS

-----------------------------------------------------------------------------
(* The three changes of the dictionary. *)

LEMMA AppendFacts ==
    ASSUME NEW docs \in Seq(Ids), NEW d \in Ids
    PROVE  /\ Append(docs, d) \in Seq(Ids)
           /\ Len(Append(docs, d)) = Len(docs) + 1
           /\ \A e \in Ids : Contains(Append(docs, d), e) <=> Contains(docs, e) \/ e = d
  <1>1. /\ Append(docs, d) \in Seq(Ids)
        /\ Len(Append(docs, d)) = Len(docs) + 1
        /\ Append(docs, d)[Len(docs) + 1] = d
        /\ \A i \in 1..Len(docs) : Append(docs, d)[i] = docs[i]
    OBVIOUS
  <1>2. 1..(Len(docs) + 1) = 1..Len(docs) \cup {Len(docs) + 1}
    OBVIOUS
  <1> QED  BY <1>1, <1>2 DEF Contains

LEMMA TailFacts ==
    ASSUME NEW docs \in Seq(Ids), docs # << >>
    PROVE  /\ Tail(docs) \in Seq(Ids)
           /\ Len(Tail(docs)) = Len(docs) - 1
           /\ docs[1] \in Ids
           /\ \A e \in Ids : Contains(docs, e) => Contains(Tail(docs), e) \/ e = docs[1]
  <1>1. /\ Tail(docs) \in Seq(Ids) /\ Len(Tail(docs)) = Len(docs) - 1
        /\ Len(docs) \in Nat \ {0}
        /\ \A i \in 1..Len(docs) - 1 : Tail(docs)[i] = docs[i + 1]
    OBVIOUS
  <1>2. docs[1] \in Ids
    BY <1>1
  <1>3. ASSUME NEW e \in Ids, Contains(docs, e), e # docs[1] PROVE Contains(Tail(docs), e)
    <2>1. PICK i \in 1..Len(docs) : docs[i] = e
      BY <1>3 DEF Contains
    <2>2. i - 1 \in 1..Len(docs) - 1 /\ Tail(docs)[i - 1] = e
      BY <2>1, <1>1, <1>3
    <2> QED  BY <2>2, <1>1 DEF Contains
  <1> QED  BY <1>1, <1>2, <1>3

LEMMA WithoutElements ==
    ASSUME NEW docs \in Seq(Ids), NEW d \in Ids, Contains(docs, d)
    PROVE  \E n \in 1..Len(docs) :
              /\ docs[n] = d
              /\ Without(docs, d) \in Seq(Ids)
              /\ Len(Without(docs, d)) = Len(docs) - 1
              /\ \A i \in 1..Len(docs) - 1 :
                   Without(docs, d)[i] = IF i <= n - 1 THEN docs[i] ELSE docs[i + 1]
  <1> DEFINE n == CHOOSE i \in 1..Len(docs) : docs[i] = d
             u == SubSeq(docs, 1, n - 1)
             v == SubSeq(docs, n + 1, Len(docs))
  <1>1. n \in 1..Len(docs) /\ docs[n] = d /\ Len(docs) \in Nat
    BY DEF Contains
  <1>2. Without(docs, d) = u \o v
    BY DEF Without, RemoveAt
  <1> HIDE DEF n
  <1>3. /\ u \in Seq(Ids) /\ Len(u) = n - 1
        /\ \A i \in 1..n - 1 : u[i] = docs[i]
    BY <1>1
  <1>4. /\ v \in Seq(Ids) /\ Len(v) = Len(docs) - n
        /\ \A i \in 1..Len(docs) - n : v[i] = docs[n + i]
    BY <1>1
  <1> HIDE DEF u, v
  <1>5. /\ u \o v \in Seq(Ids)
        /\ Len(u \o v) = Len(u) + Len(v)
        /\ \A i \in 1..Len(u) + Len(v) :
             (u \o v)[i] = IF i <= Len(u) THEN u[i] ELSE v[i - Len(u)]
    BY <1>3, <1>4, ConcatProperties, Zenon
  <1> DEFINE w == u \o v
  <1>6. w \in Seq(Ids) /\ Len(w) = Len(u) + Len(v)
    BY <1>5, Zenon
  <1>7. \A i \in 1..Len(u) + Len(v) : w[i] = IF i <= Len(u) THEN u[i] ELSE v[i - Len(u)]
    BY <1>5, Zenon
  <1>8. Without(docs, d) = w
    BY <1>2, Zenon
  <1> HIDE DEF w
  <1>9. ASSUME NEW i \in 1..Len(docs) - 1
        PROVE  w[i] = IF i <= n - 1 THEN docs[i] ELSE docs[i + 1]
    <2>1. CASE i <= n - 1
      <3>1. i \in 1..Len(u) + Len(v) /\ i <= Len(u) /\ i \in 1..n - 1
        BY <2>1, <1>1, <1>3, <1>4
      <3> QED  BY <3>1, <2>1, <1>3, <1>7
    <2>2. CASE ~ (i <= n - 1)
      <3>1. i - (n - 1) \in 1..Len(docs) - n /\ n + (i - (n - 1)) = i + 1
        BY <2>2, <1>1
      <3> QED  BY <3>1, <2>2, <1>1, <1>3, <1>4, <1>7
    <2> QED  BY <2>1, <2>2
  <1>10. Len(w) = Len(docs) - 1
    BY <1>1, <1>3, <1>4, <1>6
  <1> QED  BY <1>1, <1>6, <1>8, <1>9, <1>10

LEMMA WithoutFacts ==
    ASSUME NEW docs \in Seq(Ids), NEW d \in Ids
    PROVE  /\ Without(docs, d) \in Seq(Ids)
           /\ Len(Without(docs, d)) =
                IF Contains(docs, d) THEN Len(docs) - 1 ELSE Len(docs)
           /\ \A e \in Ids : e # d => (Contains(Without(docs, d), e) <=> Contains(docs, e))
  <1>1. CASE ~ Contains(docs, d)
    BY <1>1 DEF Without
  <1>2. CASE Contains(docs, d)
    <2>1. PICK n \in 1..Len(docs) :
            /\ docs[n] = d
            /\ Without(docs, d) \in Seq(Ids)
            /\ Len(Without(docs, d)) = Len(docs) - 1
            /\ \A i \in 1..Len(docs) - 1 :
                 Without(docs, d)[i] = IF i <= n - 1 THEN docs[i] ELSE docs[i + 1]
      BY <1>2, WithoutElements
    <2> DEFINE w == Without(docs, d)
    <2>2. /\ docs[n] = d /\ w \in Seq(Ids)
          /\ Len(w) = Len(docs) - 1 /\ Len(docs) \in Nat
      BY <2>1
    <2>3. \A i \in 1..Len(docs) - 1 : w[i] = IF i <= n - 1 THEN docs[i] ELSE docs[i + 1]
      BY <2>1
    <2> HIDE DEF w
    <2>4. ASSUME NEW e \in Ids, e # d PROVE Contains(w, e) <=> Contains(docs, e)
      <3>1. ASSUME Contains(w, e) PROVE Contains(docs, e)
        <4>1. PICK i \in 1..Len(docs) - 1 : w[i] = e
          BY <3>1, <2>2 DEF Contains
        <4>2. (i < n /\ docs[i] = e) \/ (i >= n /\ docs[i + 1] = e)
          BY <4>1, <2>2, <2>3
        <4> QED  BY <4>1, <4>2, <2>2 DEF Contains
      <3>2. ASSUME Contains(docs, e) PROVE Contains(w, e)
        <4>1. PICK i \in 1..Len(docs) : docs[i] = e
          BY <3>2 DEF Contains
        <4>2. i # n
          BY <4>1, <2>2, <2>4
        <4>3. CASE i < n
          <5>1. i \in 1..Len(docs) - 1 /\ i <= n - 1
            BY <4>3, <2>2
          <5> QED  BY <5>1, <4>1, <2>2, <2>3 DEF Contains
        <4>4. CASE i > n
          <5>1. /\ i - 1 \in 1..Len(docs) - 1 /\ ~ (i - 1 <= n - 1)
                /\ (i - 1) + 1 = i
            BY <4>4, <2>2
          <5> QED  BY <5>1, <4>1, <2>2, <2>3 DEF Contains
        <4> QED  BY <4>2, <4>3, <4>4, <2>2
      <3> QED  BY <3>1, <3>2
    <2>5. /\ w \in Seq(Ids) /\ Len(w) = Len(docs) - 1
          /\ \A e \in Ids : e # d => (Contains(w, e) <=> Contains(docs, e))
      BY <2>2, <2>4
    <2> QED  BY <2>5, <1>2 DEF w
  <1> QED  BY <1>1, <1>2

\* None of the three makes a key occur twice.
LEMMA InjectiveKept ==
    ASSUME NEW docs \in Seq(Ids), IsInjective(docs), NEW d \in Ids
    PROVE  /\ ~ Contains(docs, d) => IsInjective(Append(docs, d))
           /\ docs # << >> => IsInjective(Tail(docs))
           /\ IsInjective(Without(docs, d)) /\ ~ Contains(Without(docs, d), d)
  <1>0. \A i, j \in 1..Len(docs) : docs[i] = docs[j] => i = j
    BY LenProperties DEF IsInjective
  <1>1. ASSUME ~ Contains(docs, d) PROVE IsInjective(Append(docs, d))
    <2>1. /\ DOMAIN Append(docs, d) = 1..(Len(docs) + 1) /\ Len(docs) \in Nat
          /\ Append(docs, d)[Len(docs) + 1] = d
          /\ \A i \in 1..Len(docs) : Append(docs, d)[i] = docs[i]
      OBVIOUS
    <2>2. \A i \in 1..Len(docs) : docs[i] # d
      BY <1>1 DEF Contains
    <2> QED  BY <1>0, <2>1, <2>2 DEF IsInjective
  <1>2. ASSUME docs # << >> PROVE IsInjective(Tail(docs))
    <2>1. /\ Tail(docs) \in Seq(Ids) /\ Len(Tail(docs)) = Len(docs) - 1
          /\ Len(docs) \in Nat \ {0}
          /\ \A i \in 1..Len(docs) - 1 : Tail(docs)[i] = docs[i + 1]
      BY <1>2
    <2>2. DOMAIN Tail(docs) = 1..Len(docs) - 1
      BY <2>1, LenProperties
    <2> QED  BY <1>0, <2>1, <2>2 DEF IsInjective
  <1>3. IsInjective(Without(docs, d)) /\ ~ Contains(Without(docs, d), d)
    <2>1. CASE ~ Contains(docs, d)
      BY <2>1 DEF Without
    <2>2. CASE Contains(docs, d)
      <3>1. PICK n \in 1..Len(docs) :
              /\ docs[n] = d
              /\ Without(docs, d) \in Seq(Ids)
              /\ Len(Without(docs, d)) = Len(docs) - 1
              /\ \A i \in 1..Len(docs) - 1 :
                   Without(docs, d)[i] = IF i <= n - 1 THEN docs[i] ELSE docs[i + 1]
        BY <2>2, WithoutElements
      <3> DEFINE w == Without(docs, d)
      <3>2. DOMAIN w = 1..Len(docs) - 1 /\ Len(docs) \in Nat
        BY <3>1, LenProperties
      <3> HIDE DEF w
      <3>3. \A i \in 1..Len(docs) - 1 :
              \E k \in 1..Len(docs) :
                 k # n /\ w[i] = docs[k] /\ k = IF i <= n - 1 THEN i ELSE i + 1
        BY <3>1, <3>2 DEF w
      <3>4. IsInjective(w)
        <4> SUFFICES ASSUME NEW i \in 1..Len(docs) - 1, NEW j \in 1..Len(docs) - 1,
                            w[i] = w[j]
                     PROVE  i = j
          BY <3>2 DEF IsInjective
        <4>1. PICK k \in 1..Len(docs) :
                 w[i] = docs[k] /\ k = IF i <= n - 1 THEN i ELSE i + 1
          BY <3>3
        <4>2. PICK m \in 1..Len(docs) :
                 w[j] = docs[m] /\ m = IF j <= n - 1 THEN j ELSE j + 1
          BY <3>3
        <4>3. k = m
          BY <4>1, <4>2, <1>0
        <4> QED  BY <4>1, <4>2, <4>3, <3>2
      <3>5. ~ Contains(w, d)
        <4> SUFFICES ASSUME NEW i \in 1..Len(docs) - 1, w[i] = d PROVE FALSE
          BY <3>1 DEF Contains, w
        <4> QED  BY <3>1, <3>3, <1>0
      <3> QED  BY <3>4, <3>5 DEF w
    <2> QED  BY <2>1, <2>2
  <1> QED  BY <1>1, <1>2, <1>3

-----------------------------------------------------------------------------
(* The inductive invariant. *)

Present == {r \in Adding : Contains(documents, Doc(r))}

\* What lies above the limit belongs to threads that are adding and whose
\* document is still there: a thread whose document was evicted fails, and
\* gives up its allowance with it.
PresentBound == Len(documents) <= Limit + Cardinality(Present)

\* An ingest's chunks to come are not in the store.
Fresh ==
    \A r \in Ingests : \A k \in 1..Chunks :
        /\ pc[r] = "insert" /\ k >= chunk[r] => ~ Contains(documents, <<r, k>>)
        /\ r \in Adding /\ k > chunk[r] => ~ Contains(documents, <<r, k>>)

\* A query has been given the documents of its first moment, up to its cursor.
Consistent(q) ==
    /\ reader[q] = "idle" => read[q] = << >> /\ q \notin spoilt
    /\ reader[q] = "answered" => read[q] = first[q]
    /\ reader[q] = "walking" /\ cursor[q] = End => read[q] = first[q]
    /\ reader[q] = "walking" /\ q \notin spoilt /\ cursor[q] # End =>
         /\ documents = first[q]
         /\ Len(read[q]) < Len(first[q])
         /\ cursor[q] = first[q][Len(read[q]) + 1]
         /\ \A i \in 1..Len(read[q]) : read[q][i] = first[q][i]

QueryTypes == read \in [Queries -> Seq(Ids)] /\ first \in [Queries -> Seq(Ids)]

IInv ==
    /\ TypeOK
    /\ QueryTypes
    /\ Fresh
    /\ PresentBound
    /\ \A q \in Queries : Consistent(q)

LEMMA Counting ==
    ASSUME NEW A, NEW B, IsFiniteSet(A), IsFiniteSet(B)
    PROVE  /\ Cardinality(A) \in Nat /\ Cardinality(B) \in Nat
           /\ A \subseteq B => Cardinality(A) <= Cardinality(B)
           /\ \A x : A \ {x} \subseteq B => Cardinality(A) <= Cardinality(B) + 1
           /\ \A x : x \notin A /\ A \cup {x} \subseteq B =>
                Cardinality(A) + 1 <= Cardinality(B)
  <1>1. Cardinality(A) \in Nat /\ Cardinality(B) \in Nat
    BY FS_CardinalityType
  <1>2. \A C : IsFiniteSet(C) /\ C \subseteq B => Cardinality(C) <= Cardinality(B)
    BY FS_Subset
  <1>3. ASSUME NEW x, A \ {x} \subseteq B PROVE Cardinality(A) <= Cardinality(B) + 1
    <2>1. /\ IsFiniteSet(A \ {x})
          /\ Cardinality(A \ {x}) = IF x \in A THEN Cardinality(A) - 1 ELSE Cardinality(A)
      BY FS_RemoveElement
    <2>2. Cardinality(A \ {x}) <= Cardinality(B)
      BY <1>2, <1>3, <2>1
    <2> QED  BY <1>1, <2>1, <2>2
  <1>4. ASSUME NEW x, x \notin A, A \cup {x} \subseteq B
        PROVE  Cardinality(A) + 1 <= Cardinality(B)
    <2>1. /\ IsFiniteSet(A \cup {x})
          /\ Cardinality(A \cup {x}) = IF x \in A THEN Cardinality(A) ELSE Cardinality(A) + 1
      BY FS_AddElement
    <2> QED  BY <1>2, <1>4, <2>1
  <1> QED  BY <1>1, <1>2, <1>3, <1>4

LEMMA PresentFinite ==
    IsFiniteSet(Present) /\ IsFiniteSet(Present') /\ IsFiniteSet(Adding)
  <1>1. /\ Present \in SUBSET Ingests /\ Present' \in SUBSET Ingests
        /\ Adding \in SUBSET Ingests
    BY DEF Present, Adding
  <1> QED  BY <1>1, IngestsFinite, FS_Subset

LEMMA DocType ==
    ASSUME TypeOK, NEW r \in Ingests
    PROVE  Doc(r) \in Ids /\ chunk[r] \in 1..Chunks
  BY DEF TypeOK, Doc, Ids

LEMMA EndIsNoKey == End \notin Ids
  <1> SUFFICES ASSUME NEW r, NEW k, << >> = <<r, k>> PROVE FALSE
    BY DEF End, Ids
  <1>1. Len(<< >>) = 0 /\ Len(<<r, k>>) = 2
    OBVIOUS
  <1> QED  BY <1>1

\* A change of the dictionary leaves the queries that are walking raising or
\* at their end.
LEMMA BecomeKeeps ==
    ASSUME IInv, NEW docs, Become(docs)
    PROVE  /\ reader' \in [Queries -> {"idle", "walking", "answered", "raised"}]
           /\ cursor' \in [Queries -> Ids \cup {End}]
           /\ spoilt' \subseteq Queries
           /\ QueryTypes'
           /\ \A q \in Queries : Consistent(q)'
  <1>1. /\ UNCHANGED <<reader, cursor, read, first>>
        /\ documents' = docs
        /\ spoilt' = IF docs = documents THEN spoilt
                     ELSE spoilt \cup {q \in Queries : reader[q] = "walking"}
    BY DEF Become
  <1>2. ASSUME NEW q \in Queries PROVE Consistent(q)'
    <2>1. Consistent(q)
      BY DEF IInv
    <2> QED  BY <1>1, <2>1 DEF Consistent
  <1> QED  BY <1>1, <1>2 DEF IInv, TypeOK, QueryTypes

LEMMA StillKeeps ==
    ASSUME IInv, UNCHANGED <<documents, queryVars>>
    PROVE  /\ reader' \in [Queries -> {"idle", "walking", "answered", "raised"}]
           /\ cursor' \in [Queries -> Ids \cup {End}]
           /\ spoilt' \subseteq Queries
           /\ QueryTypes'
           /\ \A q \in Queries : Consistent(q)'
           /\ documents' \in Seq(Ids) /\ IsInjective(documents')
           /\ Len(documents') = Len(documents)
           /\ \A e \in Ids : Contains(documents', e) <=> Contains(documents, e)
  <1>1. ASSUME NEW q \in Queries PROVE Consistent(q)'
    <2>1. Consistent(q)
      BY DEF IInv
    <2> QED  BY <2>1 DEF Consistent, queryVars
  <1> QED  BY <1>1 DEF IInv, TypeOK, QueryTypes, queryVars

LEMMA InsertKeeps ==
    ASSUME IInv, NEW r \in Ingests, Insert(r)
    PROVE  IInv'
  <1> DEFINE d == Doc(r)
             docs == Append(documents, d)
  <1>1. /\ pc[r] = "insert" /\ pc' = [pc EXCEPT ![r] = "move"]
        /\ Become(docs) /\ documents' = docs /\ chunk' = chunk
    BY DEF Insert, GoTo, Become
  <1>2. documents \in Seq(Ids) /\ IsInjective(documents) /\ d \in Ids
    BY DocType DEF IInv, TypeOK
  <1>3. ~ Contains(documents, d)
    BY <1>1, DocType DEF IInv, Fresh, Doc
  <1> HIDE DEF d
  <1>4. /\ docs \in Seq(Ids) /\ Len(docs) = Len(documents) + 1
        /\ \A e \in Ids : Contains(docs, e) <=> Contains(documents, e) \/ e = d
    BY <1>2, AppendFacts
  <1>5. IsInjective(docs)
    BY <1>2, <1>3, InjectiveKept
  <1> HIDE DEF docs
  <1>6. TypeOK' /\ QueryTypes' /\ \A q \in Queries : Consistent(q)'
    BY <1>1, <1>4, <1>5, BecomeKeeps DEF IInv, TypeOK
  <1>7. Adding' = Adding \cup {r} /\ r \notin Adding
    BY <1>1 DEF Adding, IInv, TypeOK
  <1>8. PresentBound'
    <2>1. \A s \in Ingests : Doc(s)' = Doc(s) /\ Doc(s) \in Ids
      BY <1>1, DocType DEF Doc, IInv
    <2>2. Present \cup {r} \subseteq Present' /\ r \notin Present
      BY <1>1, <1>4, <1>7, <2>1 DEF Present, Adding, d
    <2>3. /\ Cardinality(Present) \in Nat /\ Cardinality(Present') \in Nat
          /\ Cardinality(Present) + 1 <= Cardinality(Present')
      BY <2>2, PresentFinite, Counting
    <2> QED  BY <1>1, <1>2, <1>4, <2>3, LimitPositive, LenProperties
             DEF PresentBound, IInv
  <1>9. Fresh'
    <2> SUFFICES ASSUME NEW s \in Ingests, NEW k \in 1..Chunks
                 PROVE  /\ pc[s]' = "insert" /\ k >= chunk[s]' => ~ Contains(documents', <<s, k>>)
                        /\ s \in Adding' /\ k > chunk[s]' => ~ Contains(documents', <<s, k>>)
      BY DEF Fresh
    <2>1. <<s, k>> \in Ids
      BY DEF Ids
    <2>2. CASE s = r
      <3>1. pc[s]' = "move"
        BY <1>1, <2>2 DEF IInv, TypeOK
      <3>2. ASSUME k > chunk[r] PROVE ~ Contains(documents', <<r, k>>)
        <4>0. chunk[r] \in 1..Chunks /\ k # chunk[r] /\ k >= chunk[r]
          BY <3>2, DocType DEF IInv
        <4>1. <<r, k>> # d /\ k >= chunk[r]
          BY <4>0 DEF d, Doc
        <4>2. ~ Contains(documents, <<r, k>>)
          BY <4>1, <1>1 DEF IInv, Fresh
        <4> QED  BY <4>1, <4>2, <1>1, <1>4, <2>1, <2>2
      <3> QED  BY <3>1, <3>2, <2>2, <1>1
    <2>3. CASE s # r
      <3>1. <<s, k>> # d
        BY <2>3 DEF d, Doc
      <3>2. pc[s]' = pc[s] /\ (s \in Adding' <=> s \in Adding)
        BY <1>1, <1>7, <2>3 DEF IInv, TypeOK
      <3> QED  BY <3>1, <3>2, <2>1, <1>1, <1>4 DEF IInv, Fresh
    <2> QED  BY <2>2, <2>3
  <1> QED  BY <1>6, <1>8, <1>9 DEF IInv

LEMMA MoveKeeps ==
    ASSUME IInv, NEW r \in Ingests, Move(r)
    PROVE  IInv'
  <1>1. documents \in Seq(Ids) /\ IsInjective(documents) /\ Doc(r) \in Ids
    BY DocType DEF IInv, TypeOK
  <1>2. \A s \in Ingests : chunk' = chunk /\ Doc(s)' = Doc(s) /\ Doc(s) \in Ids
    BY DocType DEF Move, Doc, IInv
  <1>3. CASE /\ Contains(documents, Doc(r))
             /\ GoTo(r, "move", "measure")
             /\ Become(Append(Without(documents, Doc(r)), Doc(r)))
    <2> DEFINE d == Doc(r)
               w == Without(documents, d)
               docs == Append(w, d)
    <2>1. /\ pc[r] = "move" /\ pc' = [pc EXCEPT ![r] = "measure"]
          /\ Become(docs) /\ documents' = docs /\ Contains(documents, d)
      BY <1>3 DEF GoTo, Become
    <2> HIDE DEF d
    <2>2. /\ w \in Seq(Ids) /\ Len(w) = Len(documents) - 1
          /\ \A e \in Ids : e # d => (Contains(w, e) <=> Contains(documents, e))
          /\ IsInjective(w) /\ ~ Contains(w, d)
      BY <2>1, <1>1, WithoutFacts, InjectiveKept DEF d
    <2> HIDE DEF w
    <2>3. /\ docs \in Seq(Ids) /\ Len(docs) = Len(w) + 1
          /\ \A e \in Ids : Contains(docs, e) <=> Contains(w, e) \/ e = d
          /\ IsInjective(docs)
      BY <2>2, <1>1, AppendFacts, InjectiveKept DEF d
    <2> HIDE DEF docs
    <2>4. Len(documents') = Len(documents)
      BY <1>1, <2>1, <2>2, <2>3, LenProperties
    <2>5. \A e \in Ids : Contains(documents', e) <=> Contains(documents, e)
      BY <2>1, <2>2, <2>3
    <2>6. TypeOK' /\ QueryTypes' /\ \A q \in Queries : Consistent(q)'
      BY <2>1, <2>3, <1>2, BecomeKeeps DEF IInv, TypeOK, Move
    <2>7. Adding' = Adding
      BY <2>1 DEF Adding, IInv, TypeOK
    <2>8. Present' = Present
      BY <2>5, <2>7, <1>2 DEF Present, Adding
    <2>9. PresentBound'
      BY <2>4, <2>8 DEF PresentBound, IInv
    <2>10. Fresh'
      <3> SUFFICES ASSUME NEW s \in Ingests, NEW k \in 1..Chunks
                   PROVE  /\ pc[s]' = "insert" /\ k >= chunk[s]' => ~ Contains(documents', <<s, k>>)
                          /\ s \in Adding' /\ k > chunk[s]' => ~ Contains(documents', <<s, k>>)
        BY DEF Fresh
      <3>1. <<s, k>> \in Ids
        BY DEF Ids
      <3>2. pc[s]' = "insert" => pc[s] = "insert"
        BY <2>1 DEF IInv, TypeOK
      <3> QED  BY <3>1, <3>2, <2>5, <2>7, <1>2 DEF IInv, Fresh
    <2> QED  BY <2>6, <2>9, <2>10 DEF IInv
  <1>4. CASE /\ ~ Contains(documents, Doc(r))
             /\ GoTo(r, "move", "failed")
             /\ UNCHANGED <<documents, queryVars>>
    <2>1. /\ pc[r] = "move" /\ pc' = [pc EXCEPT ![r] = "failed"]
          /\ documents' = documents /\ ~ Contains(documents, Doc(r))
      BY <1>4 DEF GoTo
    <2>2. TypeOK' /\ QueryTypes' /\ \A q \in Queries : Consistent(q)'
      BY <1>2, <1>4, <2>1, StillKeeps DEF IInv, TypeOK, Move
    <2>3. Adding' = Adding \ {r} /\ r \notin Present
      BY <2>1 DEF Adding, Present, IInv, TypeOK
    <2>4. Present' = Present
      BY <2>1, <2>3, <1>2 DEF Present, Adding
    <2>5. PresentBound'
      BY <2>1, <2>4 DEF PresentBound, IInv
    <2>6. Fresh'
      <3>1. \A s \in Ingests : pc[s]' = "insert" => pc[s] = "insert"
        BY <2>1 DEF IInv, TypeOK
      <3> QED  BY <3>1, <2>1, <2>3, <1>2 DEF IInv, Fresh
    <2> QED  BY <2>2, <2>5, <2>6 DEF IInv
  <1> QED  BY <1>3, <1>4 DEF Move

LEMMA MeasureKeeps ==
    ASSUME IInv, NEW r \in Ingests, Measure(r)
    PROVE  IInv'
  <1>0. UNCHANGED <<documents, queryVars>> /\ documents' = documents
    BY DEF Measure
  <1>1. CASE /\ Len(documents) > Limit
             /\ GoTo(r, "measure", "evict")
             /\ UNCHANGED chunk
    <2>1. pc[r] = "measure" /\ pc' = [pc EXCEPT ![r] = "evict"] /\ chunk' = chunk
      BY <1>1 DEF GoTo
    <2>2. TypeOK' /\ QueryTypes' /\ \A q \in Queries : Consistent(q)'
      BY <1>0, <2>1, StillKeeps DEF IInv, TypeOK
    <2>3. Adding' = Adding
      BY <2>1 DEF Adding, IInv, TypeOK
    <2>4. Present' = Present
      BY <1>0, <2>1, <2>3 DEF Present, Doc
    <2>5. Fresh'
      <3>1. \A s \in Ingests : pc[s]' = "insert" => pc[s] = "insert"
        BY <2>1 DEF IInv, TypeOK
      <3> QED  BY <3>1, <1>0, <2>1, <2>3 DEF IInv, Fresh
    <2> QED  BY <1>0, <2>2, <2>4, <2>5 DEF IInv, PresentBound
  <1>2. CASE /\ Len(documents) <= Limit
             /\ GoTo(r, "measure", IF chunk[r] < Chunks THEN "insert" ELSE "added")
             /\ chunk' = [chunk EXCEPT ![r] = IF @ < Chunks THEN @ + 1 ELSE 1]
    <2>0. chunk[r] \in 1..Chunks /\ Chunks \in Nat \ {0}
      BY DocType, LimitPositive DEF IInv
    <2>1. /\ pc[r] = "measure"
          /\ pc' = [pc EXCEPT ![r] = IF chunk[r] < Chunks THEN "insert" ELSE "added"]
          /\ chunk' = [chunk EXCEPT ![r] = IF chunk[r] < Chunks THEN chunk[r] + 1 ELSE 1]
      BY <1>2 DEF GoTo
    <2>2. TypeOK' /\ QueryTypes' /\ \A q \in Queries : Consistent(q)'
      <3>1. (IF chunk[r] < Chunks THEN chunk[r] + 1 ELSE 1) \in 1..Chunks
        BY <2>0
      <3>2. chunk' \in [Ingests -> 1..Chunks]
        BY <3>1, <2>1 DEF IInv, TypeOK
      <3> QED  BY <3>2, <1>0, <2>1, StillKeeps DEF IInv, TypeOK
    <2>3. PresentBound'
      <3>1. Cardinality(Present') \in Nat /\ Len(documents) \in Nat
        BY PresentFinite, FS_CardinalityType, LenProperties DEF IInv, TypeOK
      <3> QED  BY <3>1, <1>0, <1>2, LimitPositive DEF PresentBound
    <2>4. Fresh'
      <3> SUFFICES ASSUME NEW s \in Ingests, NEW k \in 1..Chunks
                   PROVE  /\ pc[s]' = "insert" /\ k >= chunk[s]' => ~ Contains(documents, <<s, k>>)
                          /\ s \in Adding' /\ k > chunk[s]' => ~ Contains(documents, <<s, k>>)
        BY <1>0 DEF Fresh
      <3>1. CASE s = r
        <4>1. r \in Adding /\ r \notin Adding'
          BY <2>1 DEF Adding, IInv, TypeOK
        <4>2. ASSUME pc[r]' = "insert", k >= chunk[r]' PROVE k > chunk[r]
          BY <4>2, <2>0, <2>1 DEF IInv, TypeOK
        <4> QED  BY <3>1, <4>1, <4>2 DEF IInv, Fresh
      <3>2. CASE s # r
        <4>1. pc[s]' = pc[s] /\ chunk[s]' = chunk[s] /\ (s \in Adding' <=> s \in Adding)
          BY <3>2, <2>1 DEF Adding, IInv, TypeOK
        <4> QED  BY <4>1 DEF IInv, Fresh
      <3> QED  BY <3>1, <3>2
    <2> QED  BY <2>2, <2>3, <2>4 DEF IInv
  <1> QED  BY <1>1, <1>2 DEF Measure

LEMMA EvictKeeps ==
    ASSUME IInv, NEW r \in Ingests, Evict(r)
    PROVE  IInv'
  <1>1. documents \in Seq(Ids) /\ IsInjective(documents) /\ chunk' = chunk
    BY DEF Evict, IInv, TypeOK
  <1>2. CASE /\ documents # << >>
             /\ GoTo(r, "evict", "measure")
             /\ Become(Tail(documents))
    <2> DEFINE docs == Tail(documents)
    <2>1. /\ pc[r] = "evict" /\ pc' = [pc EXCEPT ![r] = "measure"]
          /\ Become(docs) /\ documents' = docs
      BY <1>2 DEF GoTo, Become
    <2>2. /\ docs \in Seq(Ids) /\ Len(docs) = Len(documents) - 1
          /\ documents[1] \in Ids
          /\ \A e \in Ids : Contains(documents, e) => Contains(docs, e) \/ e = documents[1]
          /\ \A e \in Ids : Contains(docs, e) => Contains(documents, e)
          /\ IsInjective(docs)
      <3>1. \A e \in Ids : Contains(docs, e) => Contains(documents, e)
        <4>1. /\ Len(docs) = Len(documents) - 1 /\ Len(documents) \in Nat
              /\ \A i \in 1..Len(documents) - 1 : docs[i] = documents[i + 1]
          BY <1>1, <1>2
        <4> QED  BY <4>1 DEF Contains
      <3>2. documents[1] \in Ids
        BY <1>1, <1>2, TailFacts
      <3> QED  BY <3>1, <3>2, <1>1, <1>2, TailFacts, InjectiveKept
    <2> HIDE DEF docs
    <2>3. TypeOK' /\ QueryTypes' /\ \A q \in Queries : Consistent(q)'
      BY <2>1, <2>2, <1>1, BecomeKeeps DEF IInv, TypeOK
    <2>4. Adding' = Adding
      BY <2>1 DEF Adding, IInv, TypeOK
    <2>5. PICK head \in Ingests : \E k \in 1..Chunks : documents[1] = <<head, k>>
      BY <2>2 DEF Ids
    <2>6. Present \ {head} \subseteq Present'
      <3> SUFFICES ASSUME NEW s \in Present, s # head PROVE s \in Present'
        OBVIOUS
      <3>1. s \in Adding /\ s \in Ingests /\ Contains(documents, Doc(s))
        BY DEF Present, Adding
      <3>2. Doc(s) # documents[1] /\ Doc(s) \in Ids /\ Doc(s)' = Doc(s)
        BY <2>5, <3>1, <1>1, DocType DEF Doc, IInv
      <3> QED  BY <3>1, <3>2, <2>1, <2>2, <2>4 DEF Present
    <2>7. PresentBound'
      <3>1. /\ Cardinality(Present) \in Nat /\ Cardinality(Present') \in Nat
            /\ Cardinality(Present) <= Cardinality(Present') + 1
        BY <2>6, PresentFinite, Counting
      <3> QED  BY <3>1, <1>1, <2>1, <2>2, LimitPositive, LenProperties
               DEF PresentBound, IInv
    <2>8. Fresh'
      <3> SUFFICES ASSUME NEW s \in Ingests, NEW k \in 1..Chunks
                   PROVE  /\ pc[s]' = "insert" /\ k >= chunk[s]' => ~ Contains(documents', <<s, k>>)
                          /\ s \in Adding' /\ k > chunk[s]' => ~ Contains(documents', <<s, k>>)
        BY DEF Fresh
      <3>1. <<s, k>> \in Ids
        BY DEF Ids
      <3>2. pc[s]' = "insert" => pc[s] = "insert"
        BY <2>1 DEF IInv, TypeOK
      <3> QED  BY <3>1, <3>2, <2>1, <2>2, <2>4, <1>1 DEF IInv, Fresh
    <2> QED  BY <2>3, <2>7, <2>8 DEF IInv
  <1>3. CASE /\ documents = << >>
             /\ GoTo(r, "evict", "failed")
             /\ UNCHANGED <<documents, queryVars>>
    <2>1. /\ pc[r] = "evict" /\ pc' = [pc EXCEPT ![r] = "failed"]
          /\ documents' = documents
      BY <1>3 DEF GoTo
    <2>2. TypeOK' /\ QueryTypes' /\ \A q \in Queries : Consistent(q)'
      BY <1>1, <1>3, <2>1, StillKeeps DEF IInv, TypeOK
    <2>3. Cardinality(Present') \in Nat /\ Len(documents) = 0
      BY <1>3, PresentFinite, FS_CardinalityType
    <2>4. PresentBound'
      BY <2>1, <2>3, LimitPositive DEF PresentBound
    <2>5. Fresh'
      <3>1. \A s \in Ingests, k \in 1..Chunks : ~ Contains(documents, <<s, k>>)
        BY <2>3 DEF Contains
      <3> QED  BY <3>1, <2>1 DEF Fresh
    <2> QED  BY <2>2, <2>4, <2>5 DEF IInv
  <1> QED  BY <1>1, <1>2, <1>3 DEF Evict

LEMMA SettleKeeps ==
    ASSUME IInv, NEW r \in Ingests, Settle(r)
    PROVE  IInv'
  <1>1. /\ pc[r] = "added"
        /\ \E to \in {"kept", "remove"} : pc' = [pc EXCEPT ![r] = to]
        /\ UNCHANGED <<documents, queryVars>>
        /\ documents' = documents /\ chunk' = chunk
    BY DEF Settle, GoTo
  <1>2. TypeOK' /\ QueryTypes' /\ \A q \in Queries : Consistent(q)'
    BY <1>1, StillKeeps DEF IInv, TypeOK
  <1>3. Adding' = Adding
    BY <1>1 DEF Adding, IInv, TypeOK
  <1>4. Present' = Present
    BY <1>1, <1>3 DEF Present, Doc
  <1>5. \A s \in Ingests : pc[s]' = "insert" => pc[s] = "insert"
    BY <1>1 DEF IInv, TypeOK
  <1>6. Fresh'
    BY <1>1, <1>3, <1>5 DEF IInv, Fresh
  <1> QED  BY <1>1, <1>2, <1>4, <1>6 DEF IInv, PresentBound

LEMMA PopKeeps ==
    ASSUME IInv, NEW r \in Ingests, Pop(r)
    PROVE  IInv'
  <1> DEFINE d == Doc(r)
             docs == Without(documents, d)
  <1>1. documents \in Seq(Ids) /\ IsInjective(documents) /\ d \in Ids
    BY DocType DEF IInv, TypeOK
  <1>2. /\ pc[r] = "remove"
        /\ pc' = [pc EXCEPT ![r] = IF chunk[r] < Chunks THEN "remove" ELSE "removed"]
        /\ chunk' = [chunk EXCEPT ![r] = IF chunk[r] < Chunks THEN chunk[r] + 1 ELSE chunk[r]]
        /\ Become(docs) /\ documents' = docs
    BY DEF Pop, GoTo, Become
  <1>3. /\ docs \in Seq(Ids) /\ IsInjective(docs)
        /\ \A e \in Ids : e # d => (Contains(docs, e) <=> Contains(documents, e))
        /\ Len(docs) <= Len(documents)
    <2> HIDE DEF d
    <2>1. Len(documents) \in Nat
      BY <1>1, LenProperties
    <2>2. /\ docs \in Seq(Ids)
          /\ \A e \in Ids : e # d => (Contains(docs, e) <=> Contains(documents, e))
          /\ Len(docs) = IF Contains(documents, d) THEN Len(documents) - 1
                         ELSE Len(documents)
      BY <1>1, WithoutFacts
    <2>3. IsInjective(docs)
      BY <1>1, InjectiveKept
    <2> QED  BY <2>1, <2>2, <2>3
  <1>4. chunk[r] \in 1..Chunks /\ Chunks \in Nat \ {0}
    BY DocType, LimitPositive DEF IInv
  <1> HIDE DEF docs, d
  <1>5. TypeOK' /\ QueryTypes' /\ \A q \in Queries : Consistent(q)'
    <2>1. (IF chunk[r] < Chunks THEN chunk[r] + 1 ELSE chunk[r]) \in 1..Chunks
      BY <1>4
    <2>2. chunk' \in [Ingests -> 1..Chunks]
      BY <2>1, <1>2 DEF IInv, TypeOK
    <2> QED  BY <2>2, <1>2, <1>3, BecomeKeeps DEF IInv, TypeOK
  <1>6. Adding' = Adding /\ r \notin Adding
    BY <1>2 DEF Adding, IInv, TypeOK
  <1>7. \A s \in Ingests : s # r =>
          chunk[s]' = chunk[s] /\ Doc(s)' = Doc(s) /\ Doc(s) # d /\ Doc(s) \in Ids
    <2> SUFFICES ASSUME NEW s \in Ingests, s # r
                 PROVE  chunk[s]' = chunk[s] /\ Doc(s)' = Doc(s) /\ Doc(s) # d /\ Doc(s) \in Ids
      OBVIOUS
    <2>1. chunk[s]' = chunk[s]
      BY <1>2 DEF IInv, TypeOK
    <2>2. Doc(s) # d /\ Doc(s)' = Doc(s)
      BY <2>1 DEF Doc, d
    <2> QED  BY <2>1, <2>2, DocType DEF IInv
  <1>8. Present' = Present
    <2>1. \A s \in Ingests : s # r => (s \in Present' <=> s \in Present)
      BY <1>2, <1>3, <1>6, <1>7 DEF Present
    <2>2. r \notin Present /\ r \notin Present' /\ Present \subseteq Ingests /\ Present' \subseteq Ingests
      BY <1>6 DEF Present, Adding
    <2> QED  BY <2>1, <2>2
  <1>9. PresentBound'
    <2>1. Cardinality(Present) \in Nat /\ Len(documents) \in Nat /\ Len(docs) \in Nat
      BY PresentFinite, FS_CardinalityType, <1>1, <1>3, LenProperties
    <2> QED  BY <2>1, <1>2, <1>3, <1>8, LimitPositive DEF PresentBound, IInv
  <1>10. Fresh'
    <2> SUFFICES ASSUME NEW s \in Ingests, NEW k \in 1..Chunks
                 PROVE  /\ pc[s]' = "insert" /\ k >= chunk[s]' => ~ Contains(documents', <<s, k>>)
                        /\ s \in Adding' /\ k > chunk[s]' => ~ Contains(documents', <<s, k>>)
      BY DEF Fresh
    <2>1. CASE s = r
      <3>1. pc[r]' # "insert"
        BY <1>2 DEF IInv, TypeOK
      <3> QED  BY <2>1, <3>1, <1>6
    <2>2. CASE s # r
      <3>1. <<s, k>> # d /\ <<s, k>> \in Ids
        BY <2>2 DEF d, Doc, Ids
      <3>2. pc[s]' = pc[s] /\ chunk[s]' = chunk[s]
        BY <1>2, <2>2 DEF IInv, TypeOK
      <3> QED  BY <3>1, <3>2, <1>2, <1>3, <1>6 DEF IInv, Fresh
    <2> QED  BY <2>1, <2>2
  <1> QED  BY <1>5, <1>9, <1>10 DEF IInv

LEMMA WalkKeeps ==
    ASSUME IInv, NEW q \in Queries, Walk(q)
    PROVE  IInv'
  <1>1. /\ reader[q] = "idle" /\ reader' = [reader EXCEPT ![q] = "walking"]
        /\ cursor' = [cursor EXCEPT ![q] = KeyAt(1)]
        /\ first' = [first EXCEPT ![q] = documents]
        /\ documents' = documents /\ pc' = pc /\ chunk' = chunk
        /\ read' = read /\ spoilt' = spoilt
    BY DEF Walk, ingestVars
  <1>2. documents \in Seq(Ids) /\ Len(documents) \in Nat
    BY LenProperties DEF IInv, TypeOK
  <1>3. /\ KeyAt(1) \in Ids \cup {End}
        /\ KeyAt(1) = End => documents = << >>
        /\ KeyAt(1) # End => Len(documents) > 0 /\ KeyAt(1) = documents[1]
    BY <1>2, EndIsNoKey DEF KeyAt
  <1>4. TypeOK' /\ QueryTypes'
    BY <1>1, <1>2, <1>3 DEF IInv, TypeOK, QueryTypes
  <1>5. Adding' = Adding /\ Present' = Present
    BY <1>1 DEF Adding, Present, Doc
  <1>6. PresentBound' /\ Fresh'
    BY <1>1, <1>5 DEF IInv, PresentBound, Fresh
  <1>7. ASSUME NEW p \in Queries PROVE Consistent(p)'
    <2>1. CASE p = q
      <3>1. /\ reader'[q] = "walking" /\ cursor'[q] = KeyAt(1)
            /\ first'[q] = documents /\ read'[q] = read[q]
        BY <1>1 DEF IInv, TypeOK, QueryTypes
      <3>2. read[q] = << >>
        BY <1>1 DEF IInv, Consistent
      <3>3. Len(read[q]) = 0
        BY <3>2
      <3> QED  BY <2>1, <3>1, <3>2, <3>3, <1>1, <1>3 DEF Consistent
    <2>2. CASE p # q
      <3>1. /\ reader'[p] = reader[p] /\ cursor'[p] = cursor[p]
            /\ first'[p] = first[p] /\ read'[p] = read[p]
        BY <1>1, <2>2 DEF IInv, TypeOK, QueryTypes
      <3>2. Consistent(p)
        BY DEF IInv
      <3> QED  BY <3>1, <3>2, <1>1 DEF Consistent
    <2> QED  BY <2>1, <2>2
  <1> QED  BY <1>4, <1>6, <1>7 DEF IInv

LEMMA NextDocumentKeeps ==
    ASSUME IInv, NEW q \in Queries, NextDocument(q)
    PROVE  IInv'
  <1>1. /\ reader[q] = "walking"
        /\ documents' = documents /\ pc' = pc /\ chunk' = chunk
        /\ spoilt' = spoilt /\ first' = first
    BY DEF NextDocument, ingestVars
  <1>2. Consistent(q) /\ cursor[q] \in Ids \cup {End}
    BY DEF IInv, TypeOK
  <1>3. PresentBound' /\ Fresh'
    <2>1. Adding' = Adding /\ Present' = Present
      BY <1>1 DEF Adding, Present, Doc
    <2> QED  BY <1>1, <2>1 DEF IInv, PresentBound, Fresh
  <1>4. ASSUME NEW p \in Queries, p # q,
               reader'[p] = reader[p], cursor'[p] = cursor[p], read'[p] = read[p]
        PROVE  Consistent(p)'
    BY <1>1, <1>4 DEF IInv, Consistent
  <1>5. CASE /\ \/ cursor[q] = End /\ reader' = [reader EXCEPT ![q] = "answered"]
                \/ cursor[q] # End /\ reader' = [reader EXCEPT ![q] = "raised"]
             /\ cursor' = cursor /\ read' = read
    <2>1. TypeOK' /\ QueryTypes'
      BY <1>1, <1>5 DEF IInv, TypeOK, QueryTypes
    <2>2. Consistent(q)'
      <3>1. \/ reader'[q] = "answered" /\ read'[q] = first'[q]
            \/ reader'[q] = "raised"
        BY <1>1, <1>2, <1>5 DEF IInv, TypeOK, Consistent
      <3> QED  BY <3>1 DEF Consistent
    <2>3. ASSUME NEW p \in Queries, p # q PROVE Consistent(p)'
      BY <1>4, <1>5, <2>3 DEF IInv, TypeOK
    <2> QED  BY <1>3, <2>1, <2>2, <2>3 DEF IInv
  <1>6. CASE /\ cursor[q] # End /\ q \notin spoilt
             /\ read' = [read EXCEPT ![q] = Append(@, cursor[q])]
             /\ cursor' = [cursor EXCEPT ![q] = KeyAt(Len(read[q]) + 2)]
             /\ reader' = reader
    <2> DEFINE old == read[q]
               new == Append(old, cursor[q])
               at == KeyAt(Len(old) + 2)
    <2>1. /\ documents = first[q] /\ documents \in Seq(Ids) /\ Len(documents) \in Nat
          /\ old \in Seq(Ids) /\ Len(old) \in Nat
          /\ Len(old) < Len(documents)
          /\ cursor[q] = documents[Len(old) + 1] /\ cursor[q] \in Ids
          /\ \A i \in 1..Len(old) : old[i] = documents[i]
      BY <1>1, <1>2, <1>6, LenProperties DEF IInv, TypeOK, QueryTypes, Consistent
    <2>2. /\ new \in Seq(Ids) /\ Len(new) = Len(old) + 1
          /\ \A i \in 1..Len(old) : new[i] = old[i]
          /\ new[Len(old) + 1] = cursor[q]
      BY <2>1, AppendProperties
    <2>3. /\ at \in Ids \cup {End}
          /\ at = End => Len(documents) = Len(old) + 1
          /\ at # End => Len(old) + 1 < Len(documents) /\ at = documents[Len(old) + 2]
      BY <2>1, EndIsNoKey DEF KeyAt
    <2>4. reader' = reader /\ read' = [read EXCEPT ![q] = new]
          /\ cursor' = [cursor EXCEPT ![q] = at]
      BY <1>6
    <2> HIDE DEF old, new, at
    <2>5. \A i \in 1..Len(new) : new[i] = documents[i]
      <3> SUFFICES ASSUME NEW i \in 1..Len(old) + 1 PROVE new[i] = documents[i]
        BY <2>2
      <3>1. i \in 1..Len(old) \/ i = Len(old) + 1
        BY <2>1
      <3> QED  BY <3>1, <2>1, <2>2
    <2>6. at = End => new = documents
      BY <2>1, <2>2, <2>3, <2>5, SeqEqual
    <2>7. TypeOK' /\ QueryTypes'
      BY <1>1, <2>2, <2>3, <2>4 DEF IInv, TypeOK, QueryTypes
    <2>8. Consistent(q)'
      <3>1. reader'[q] = "walking" /\ read'[q] = new /\ cursor'[q] = at /\ first'[q] = documents
        BY <1>1, <2>1, <2>4 DEF IInv, TypeOK, QueryTypes
      <3>2. at # End => Len(new) < Len(documents) /\ at = documents[Len(new) + 1]
        BY <2>1, <2>2, <2>3
      <3> QED  BY <3>1, <3>2, <2>5, <2>6, <1>1 DEF Consistent
    <2>9. ASSUME NEW p \in Queries, p # q PROVE Consistent(p)'
      BY <1>4, <2>4, <2>9 DEF IInv, TypeOK, QueryTypes
    <2> QED  BY <1>3, <2>7, <2>8, <2>9 DEF IInv
  <1> QED  BY <1>5, <1>6 DEF NextDocument

-----------------------------------------------------------------------------

LEMMA InitIInv == Init => IInv
  <1> SUFFICES ASSUME Init PROVE IInv
    OBVIOUS
  <1>1. << >> \in Seq(Ids) /\ Len(<< >>) = 0 /\ DOMAIN << >> = {}
    OBVIOUS
  <1>2. TypeOK /\ QueryTypes
    BY <1>1, LimitPositive DEF Init, TypeOK, QueryTypes, IsInjective, End
  <1>3. Cardinality(Present) \in Nat
    BY PresentFinite, FS_CardinalityType
  <1>4. PresentBound
    BY <1>1, <1>3, LimitPositive DEF Init, PresentBound
  <1>5. Fresh
    BY <1>1 DEF Init, Fresh, Contains
  <1>6. \A q \in Queries : Consistent(q)
    BY DEF Init, Consistent
  <1> QED  BY <1>2, <1>4, <1>5, <1>6 DEF IInv

LEMMA NextIInv == IInv /\ [Next]_vars => IInv'
  <1> SUFFICES ASSUME IInv, [Next]_vars PROVE IInv'
    OBVIOUS
  <1>1. ASSUME NEW r \in Ingests,
               Insert(r) \/ Move(r) \/ Measure(r) \/ Evict(r) \/ Settle(r) \/ Pop(r)
        PROVE  IInv'
    BY <1>1, InsertKeeps, MoveKeeps, MeasureKeeps, EvictKeeps, SettleKeeps, PopKeeps
  <1>2. ASSUME NEW q \in Queries, Walk(q) \/ NextDocument(q) PROVE IInv'
    BY <1>2, WalkKeeps, NextDocumentKeeps
  <1>3. CASE UNCHANGED vars
    <2>1. /\ UNCHANGED <<documents, queryVars>> /\ documents' = documents
          /\ pc' = pc /\ chunk' = chunk
      BY <1>3 DEF vars, ingestVars, queryVars
    <2>2. TypeOK' /\ QueryTypes' /\ \A q \in Queries : Consistent(q)'
      BY <2>1, StillKeeps DEF IInv, TypeOK
    <2>3. Adding' = Adding /\ Present' = Present
      BY <2>1 DEF Adding, Present, Doc
    <2> QED  BY <2>1, <2>2, <2>3 DEF IInv, Fresh, PresentBound
  <1> QED  BY <1>1, <1>2, <1>3 DEF Next

\* Every run of the store keeps the inductive invariant.
THEOREM Invariance == Spec => []IInv
  BY InitIInv, NextIInv, PTL DEF Spec

\* No key occurs twice, whoever adds, evicts and removes (the dictionary's
\* keys of RetrievalStore).
THEOREM StoreTypes == Spec => []TypeOK
  <1>1. IInv => TypeOK
    BY DEF IInv
  <1> QED  BY <1>1, Invariance, PTL

\* _remember without a lock: above the limit there are never more documents
\* than threads that are adding, for any number of threads.
THEOREM StaysBounded == Spec => []MemoryBounded
  <1>1. IInv => MemoryBounded
    <2> SUFFICES ASSUME IInv PROVE MemoryBounded
      OBVIOUS
    <2>1. Present \subseteq Adding
      BY DEF Present
    <2>2. /\ Cardinality(Present) \in Nat /\ Cardinality(Adding) \in Nat
          /\ Cardinality(Present) <= Cardinality(Adding)
      BY <2>1, PresentFinite, Counting
    <2>3. Len(documents) \in Nat
      BY LenProperties DEF IInv, TypeOK
    <2> QED  BY <2>2, <2>3, LimitPositive DEF IInv, PresentBound, MemoryBounded
  <1> QED  BY <1>1, Invariance, PTL

\* query: an answer is made from what the store held at one moment, for any
\* number of chunks and any limit; otherwise the iteration raises.
THEOREM OneMoment == Spec => []AnswersFromOneMoment
  <1>1. IInv => AnswersFromOneMoment
    BY DEF IInv, Consistent, AnswersFromOneMoment
  <1> QED  BY <1>1, Invariance, PTL

-----------------------------------------------------------------------------
(* How far below the limit threads that measure at once can take the store:  *)
(* each that is at its eviction has seen the store too full, and each that   *)
(* has evicted since has taken one document.                                 *)

Evicting == {r \in Ingests : pc[r] = "evict"}
NoRollback == \A r \in Ingests : pc[r] \notin {"remove", "removed"}

Unspent ==
    NoRollback /\ Evicting # {} =>
        Len(documents) + Cardinality(Ingests) >= Limit + 1 + Cardinality(Evicting)

LEMMA EvictingFinite ==
    /\ IsFiniteSet(Evicting) /\ Cardinality(Evicting) \in Nat /\ Cardinality(Ingests) \in Nat
    /\ Cardinality(Evicting) <= Cardinality(Ingests)
  <1>1. Evicting \subseteq Ingests
    BY DEF Evicting
  <1> QED  BY <1>1, IngestsFinite, FS_Subset, FS_CardinalityType

LEMMA UnspentKept == IInv /\ Unspent /\ [Next]_vars => Unspent'
  <1> SUFFICES ASSUME IInv, Unspent, [Next]_vars PROVE Unspent'
    OBVIOUS
  <1>1. /\ documents \in Seq(Ids) /\ Len(documents) \in Nat
        /\ Limit \in Nat /\ Cardinality(Ingests) \in Nat
        /\ \A r \in Ingests : pc' = [pc EXCEPT ![r] = pc'[r]] =>
              \A s \in Ingests : s # r => pc'[s] = pc[s]
        /\ \A r \in Ingests : \A to : pc' = [pc EXCEPT ![r] = to] => pc'[r] = to
    BY LimitPositive, EvictingFinite, LenProperties DEF IInv, TypeOK
  <1>2. ASSUME NoRollback' => NoRollback, Evicting' = Evicting,
               Len(documents)' \in Nat, Len(documents)' >= Len(documents)
        PROVE  Unspent'
    BY <1>1, <1>2, EvictingFinite DEF Unspent
  <1>3. ASSUME NEW r \in Ingests, NEW from, NEW to, GoTo(r, from, to),
               from # "evict", to # "evict", from \notin {"remove", "removed"}
        PROVE  (NoRollback' => NoRollback) /\ Evicting' = Evicting
    BY <1>1, <1>3 DEF GoTo, NoRollback, Evicting, IInv, TypeOK
  <1>4. ASSUME NEW r \in Ingests, Insert(r) PROVE Unspent'
    <2>1. documents' = Append(documents, Doc(r)) /\ GoTo(r, "insert", "move")
      BY <1>4 DEF Insert, Become
    <2>2. Len(documents)' = Len(documents) + 1
      BY <1>1, <2>1, DocType, AppendFacts DEF IInv
    <2>3. Len(documents)' \in Nat /\ Len(documents)' >= Len(documents)
      BY <1>1, <2>2
    <2> QED  BY <1>2, <1>3, <2>1, <2>3
  <1>5. ASSUME NEW r \in Ingests, Move(r) PROVE Unspent'
    <2>1. CASE GoTo(r, "move", "failed") /\ documents' = documents
      BY <1>1, <1>2, <1>3, <2>1
    <2>2. CASE /\ GoTo(r, "move", "measure") /\ Contains(documents, Doc(r))
               /\ documents' = Append(Without(documents, Doc(r)), Doc(r))
      <3>1. Doc(r) \in Ids
        BY DocType DEF IInv
      <3>2. Len(documents') = Len(documents) - 1 + 1
        BY <1>1, <2>2, <3>1, WithoutFacts, AppendFacts
      <3> QED  BY <1>1, <1>2, <1>3, <2>2, <3>2
    <2> QED  BY <1>5, <2>1, <2>2 DEF Move, Become
  <1>6. ASSUME NEW r \in Ingests, Measure(r) PROVE Unspent'
    <2>1. documents' = documents
      BY <1>6 DEF Measure
    <2>2. CASE Len(documents) > Limit
      <3>1. Cardinality(Evicting') <= Cardinality(Ingests) /\ Cardinality(Evicting') \in Nat
        <4>1. Evicting' \subseteq Ingests
          BY DEF Evicting
        <4> QED  BY <4>1, IngestsFinite, FS_Subset, FS_CardinalityType
      <3> QED  BY <1>1, <2>1, <2>2, <3>1 DEF Unspent
    <2>3. CASE \E to \in {"insert", "added"} : GoTo(r, "measure", to)
      BY <1>1, <1>2, <1>3, <2>1, <2>3
    <2> QED  BY <1>6, <2>2, <2>3 DEF Measure
  <1>7. ASSUME NEW r \in Ingests, Evict(r) PROVE Unspent'
    <2>1. /\ pc[r] = "evict" /\ \E to \in {"measure", "failed"} : pc' = [pc EXCEPT ![r] = to]
          /\ Len(documents)' \in Nat /\ Len(documents)' + 1 >= Len(documents)
      <3>1. CASE documents # << >> /\ documents' = Tail(documents)
        BY <1>1, <1>7, <3>1, TailFacts DEF Evict, GoTo
      <3>2. CASE documents' = documents
        BY <1>1, <1>7, <3>2 DEF Evict, GoTo
      <3> QED  BY <1>7, <3>1, <3>2 DEF Evict, Become
    <2>2. r \in Evicting /\ Evicting' = Evicting \ {r} /\ (NoRollback' => NoRollback)
      BY <1>1, <2>1 DEF Evicting, NoRollback, IInv, TypeOK
    <2>3. Cardinality(Evicting') = Cardinality(Evicting) - 1
      BY <2>2, EvictingFinite, FS_RemoveElement
    <2> QED  BY <1>1, <2>1, <2>2, <2>3, EvictingFinite DEF Unspent
  <1>8. ASSUME NEW r \in Ingests, Settle(r) PROVE Unspent'
    <2>1. documents' = documents /\ \E to \in {"kept", "remove"} : GoTo(r, "added", to)
      BY <1>8 DEF Settle
    <2> QED  BY <1>1, <1>2, <1>3, <2>1
  <1>9. ASSUME NEW r \in Ingests, Pop(r) PROVE Unspent'
    <2>1. pc'[r] \in {"remove", "removed"}
      BY <1>9 DEF Pop, GoTo, IInv, TypeOK
    <2> QED  BY <2>1 DEF Unspent, NoRollback
  <1>10. CASE \/ UNCHANGED vars
              \/ \E q \in Queries : Walk(q) \/ NextDocument(q)
    <2>1. documents' = documents /\ pc' = pc
      BY <1>10 DEF vars, ingestVars, Walk, NextDocument
    <2> QED  BY <1>1, <2>1 DEF Unspent, NoRollback, Evicting
  <1> QED  BY <1>4, <1>5, <1>6, <1>7, <1>8, <1>9, <1>10 DEF Next

\* _remember: the evictions of threads that overlap cost the store fewer
\* documents than there are threads, for any threads, chunks and limit, as long
\* as no audit write has failed and made an ingest take its chunks back.
THEOREM FewAreLost == Spec => []EvictionsBounded
  <1>1. Init => Unspent
    BY DEF Init, Unspent, Evicting
  <1>2. Spec => []Unspent
    BY <1>1, UnspentKept, Invariance, PTL DEF Spec
  <1>3. IInv /\ Unspent => EvictionsBounded
    <2> SUFFICES ASSUME IInv, Unspent, NoRollback, NEW r \in Evicting
                 PROVE  Len(documents) + Cardinality(Ingests) >= Limit + 2
      BY DEF EvictionsBounded, NoRollback, Evicting
    <2>1. Cardinality(Evicting) >= 1
      <3>1. Cardinality(Evicting) # 0
        BY EvictingFinite, FS_EmptySet
      <3> QED  BY <3>1, EvictingFinite
    <2>2. Len(documents) \in Nat /\ Limit \in Nat
      BY LimitPositive, LenProperties DEF IInv, TypeOK
    <2> QED  BY <2>1, <2>2, EvictingFinite DEF Unspent
  <1> QED  BY <1>2, <1>3, Invariance, PTL

-----------------------------------------------------------------------------
(* What a thread that failed, or took its chunks back, leaves behind: the    *)
(* chunks of an ingest lie in their order, so those that are evicted are its *)
(* oldest, and where one is gone the older ones are.                         *)

Behind(docs, d, e) ==
    \A a, b \in 1..Len(docs) : docs[a] = d /\ docs[b] = e => a < b

\* How many of its chunks an ingest has put into the store.
Stored(r) ==
    IF pc[r] = "insert" THEN chunk[r] - 1
    ELSE IF pc[r] \in {"move", "measure", "evict", "failed"} THEN chunk[r] ELSE Chunks

Kept(r) ==
    /\ \A j, k \in 1..Chunks : j < k => Behind(documents, <<r, j>>, <<r, k>>)
    /\ \A j, k \in 1..Chunks :
          j < k /\ k <= Stored(r) /\ Contains(documents, <<r, j>>) => Contains(documents, <<r, k>>)
    /\ \A k \in 1..Chunks :
          pc[r] \in {"failed", "removed"} \/ (pc[r] = "remove" /\ k < chunk[r])
             => ~ Contains(documents, <<r, k>>)
    /\ pc[r] = "added" => chunk[r] = 1

NewestKept == \A r \in Ingests : Kept(r)

\* None of the three changes of the dictionary turns two keys round, but for
\* the one that goes to the end.
LEMMA AppendBehind ==
    ASSUME NEW docs \in Seq(Ids), NEW d \in Ids, NEW e, NEW f, e # d, Behind(docs, e, f)
    PROVE  Behind(Append(docs, d), e, f)
  <1> DEFINE new == Append(docs, d)
  <1>1. /\ Len(docs) \in Nat /\ Len(new) = Len(docs) + 1 /\ new[Len(docs) + 1] = d
        /\ \A i \in 1..Len(docs) : new[i] = docs[i]
    BY AppendProperties, LenProperties
  <1> HIDE DEF new
  <1> SUFFICES ASSUME NEW a \in 1..Len(new), NEW b \in 1..Len(new), new[a] = e, new[b] = f
               PROVE  a < b
    BY DEF Behind, new
  <1>2. a \in 1..Len(docs) /\ docs[a] = e
    BY <1>1
  <1>3. CASE b = Len(docs) + 1
    BY <1>2, <1>3
  <1>4. CASE b # Len(docs) + 1
    <2>1. b \in 1..Len(docs) /\ docs[b] = f
      BY <1>1, <1>4
    <2> QED  BY <1>2, <2>1 DEF Behind
  <1> QED  BY <1>3, <1>4

LEMMA WithoutBehind ==
    ASSUME NEW docs \in Seq(Ids), NEW d \in Ids, NEW e, NEW f, Behind(docs, e, f)
    PROVE  Behind(Without(docs, d), e, f)
  <1>1. CASE ~ Contains(docs, d)
    BY <1>1 DEF Without
  <1>2. CASE Contains(docs, d)
    <2> DEFINE w == Without(docs, d)
    <2>1. PICK n \in 1..Len(docs) :
             /\ Len(w) = Len(docs) - 1
             /\ \A i \in 1..Len(docs) - 1 : w[i] = IF i <= n - 1 THEN docs[i] ELSE docs[i + 1]
      BY <1>2, WithoutElements
    <2>2. Len(docs) \in Nat
      BY LenProperties
    <2> HIDE DEF w
    <2> DEFINE from(i) == IF i <= n - 1 THEN i ELSE i + 1
    <2>3. ASSUME NEW i \in 1..Len(w) PROVE from(i) \in 1..Len(docs) /\ w[i] = docs[from(i)]
      <3>1. i \in 1..Len(docs) - 1
        BY <2>1
      <3> QED  BY <2>1, <2>2, <3>1
    <2>4. ASSUME NEW a \in 1..Len(w), NEW b \in 1..Len(w), w[a] = e, w[b] = f
          PROVE  a < b
      <3>1. from(a) < from(b)
        <4> HIDE DEF from
        <4> QED  BY <2>3, <2>4 DEF Behind
      <3> QED  BY <2>1, <2>2, <3>1
    <2> QED  BY <2>4 DEF Behind, w
  <1> QED  BY <1>1, <1>2

LEMMA TailBehind ==
    ASSUME NEW docs \in Seq(Ids), docs # << >>, NEW e, NEW f, Behind(docs, e, f)
    PROVE  /\ Behind(Tail(docs), e, f)
           /\ Contains(Tail(docs), e) => Contains(docs, e)
           /\ Contains(Tail(docs), e) /\ Contains(docs, f) => Contains(Tail(docs), f)
  <1> DEFINE t == Tail(docs)
  <1>1. /\ Len(docs) \in Nat /\ Len(t) = Len(docs) - 1
        /\ \A i \in 1..(Len(docs) - 1) : t[i] = docs[i + 1]
    BY HeadTailProperties, LenProperties
  <1> HIDE DEF t
  <1>2. ASSUME NEW i \in 1..Len(t) PROVE i + 1 \in 1..Len(docs) /\ t[i] = docs[i + 1]
    BY <1>1
  <1>3. Behind(t, e, f)
    <2> SUFFICES ASSUME NEW a \in 1..Len(t), NEW b \in 1..Len(t), t[a] = e, t[b] = f
                 PROVE  a < b
      BY DEF Behind
    <2>1. a + 1 < b + 1
      BY <1>2 DEF Behind
    <2> QED  BY <1>1, <2>1
  <1>4. Contains(t, e) => Contains(docs, e)
    BY <1>2 DEF Contains
  <1>5. ASSUME Contains(t, e), Contains(docs, f) PROVE Contains(t, f)
    <2>1. PICK a \in 1..Len(t) : t[a] = e
      BY <1>5 DEF Contains
    <2>2. PICK b \in 1..Len(docs) : docs[b] = f
      BY <1>5 DEF Contains
    <2>3. a + 1 < b
      BY <1>2, <2>1, <2>2 DEF Behind
    <2>4. b - 1 \in 1..Len(t) /\ b - 1 \in 1..(Len(docs) - 1) /\ (b - 1) + 1 = b
      BY <1>1, <2>3
    <2> QED  BY <1>1, <2>2, <2>4 DEF Contains
  <1> QED  BY <1>3, <1>4, <1>5 DEF t

\* The thread of one ingest does not part the chunks of another.
LEMMA OthersKept ==
    ASSUME NEW q \in Ingests, Kept(q), pc'[q] = pc[q], chunk'[q] = chunk[q],
           \A j, k \in 1..Chunks : j < k /\ Behind(documents, <<q, j>>, <<q, k>>)
                                     => Behind(documents', <<q, j>>, <<q, k>>),
           \A k \in 1..Chunks : Contains(documents', <<q, k>>) <=> Contains(documents, <<q, k>>)
    PROVE  Kept(q)'
  BY DEF Kept, Stored

LEMMA InsertKeepsNewest ==
    ASSUME IInv, NewestKept, NEW r \in Ingests, Insert(r), NEW q \in Ingests
    PROVE  Kept(q)'
  <1> DEFINE d == Doc(r)
  <1>1. /\ pc[r] = "insert" /\ pc' = [pc EXCEPT ![r] = "move"] /\ chunk' = chunk
        /\ documents' = Append(documents, d)
    BY DEF Insert, GoTo, Become
  <1>2. /\ documents \in Seq(Ids) /\ d \in Ids /\ d = <<r, chunk[r]>> /\ chunk[r] \in 1..Chunks
        /\ pc \in [Ingests -> {"insert", "move", "measure", "evict", "added",
                               "kept", "remove", "removed", "failed"}]
        /\ Kept(q) /\ \A k \in 1..Chunks : <<q, k>> \in Ids
    BY DocType DEF IInv, TypeOK, NewestKept, Doc, Ids
  <1> HIDE DEF d
  <1>3. \A e \in Ids : Contains(documents', e) <=> Contains(documents, e) \/ e = d
    BY <1>1, <1>2, AppendFacts
  <1>4. \A e, f : e # d /\ Behind(documents, e, f) => Behind(documents', e, f)
    BY <1>1, <1>2, AppendBehind
  <1>5. CASE q # r
    BY <1>1, <1>2, <1>3, <1>4, <1>5, OthersKept
  <1>6. CASE q = r
    <2>1. \A k \in 1..Chunks : k >= chunk[r] => ~ Contains(documents, <<r, k>>)
      BY <1>1 DEF IInv, Fresh
    <2>2. ASSUME NEW j \in 1..Chunks, NEW k \in 1..Chunks, j < k
          PROVE  Behind(documents', <<r, j>>, <<r, k>>)
      <3>1. CASE j < chunk[r]
        BY <1>2, <1>4, <1>6, <2>2, <3>1 DEF Kept
      <3>2. CASE j >= chunk[r]
        <4>1. k > chunk[r] /\ k # chunk[r]
          BY <1>2, <2>2, <3>2
        <4>2. ~ Contains(documents', <<r, k>>)
          BY <1>2, <1>3, <1>6, <2>1, <4>1
        <4> QED  BY <4>2 DEF Behind, Contains
      <3> QED  BY <1>2, <3>1, <3>2
    <2>3. Stored(r) = chunk[r] - 1 /\ Stored(r)' = chunk[r]
      BY <1>1, <1>2 DEF Stored
    <2>4. ASSUME NEW j \in 1..Chunks, NEW k \in 1..Chunks, j < k, k <= chunk[r],
                 Contains(documents', <<r, j>>)
          PROVE  Contains(documents', <<r, k>>)
      <3>1. CASE k = chunk[r]
        BY <1>2, <1>3, <1>6, <3>1
      <3>2. CASE k < chunk[r]
        <4>1. Contains(documents, <<r, j>>)
          BY <1>2, <1>3, <1>6, <2>4, <3>2
        <4>2. k <= Stored(r)
          BY <1>2, <2>3, <3>2
        <4> QED  BY <1>2, <1>3, <1>6, <2>4, <4>1, <4>2 DEF Kept
      <3> QED  BY <1>2, <2>4, <3>1, <3>2
    <2>5. pc'[r] = "move"
      BY <1>1, <1>2
    <2> QED  BY <1>6, <2>2, <2>3, <2>4, <2>5 DEF Kept
  <1> QED  BY <1>5, <1>6

LEMMA MoveKeepsNewest ==
    ASSUME IInv, NewestKept, NEW r \in Ingests, Move(r), NEW q \in Ingests
    PROVE  Kept(q)'
  <1> DEFINE d == Doc(r)
             w == Without(documents, d)
  <1>1. /\ documents \in Seq(Ids) /\ d \in Ids /\ d = <<r, chunk[r]>> /\ chunk[r] \in 1..Chunks
        /\ pc \in [Ingests -> {"insert", "move", "measure", "evict", "added",
                               "kept", "remove", "removed", "failed"}]
        /\ Kept(q) /\ Kept(r) /\ \A s \in Ingests, k \in 1..Chunks : <<s, k>> \in Ids
    BY DocType DEF IInv, TypeOK, NewestKept, Doc, Ids
  <1>2. pc[r] = "move" /\ chunk' = chunk /\ \A s \in Ingests : s # r => pc'[s] = pc[s]
    BY <1>1 DEF Move, GoTo
  <1>3. \A k \in 1..Chunks : k > chunk[r] => ~ Contains(documents, <<r, k>>)
    BY <1>2 DEF IInv, Fresh, Adding
  <1>4. CASE /\ Contains(documents, d) /\ documents' = Append(w, d)
             /\ pc' = [pc EXCEPT ![r] = "measure"]
    <2>1. /\ w \in Seq(Ids)
          /\ \A e \in Ids : e # d => (Contains(w, e) <=> Contains(documents, e))
      BY <1>1, WithoutFacts
    <2>2. \A e, f : Behind(documents, e, f) => Behind(w, e, f)
      BY <1>1, WithoutBehind
    <2> HIDE DEF w
    <2>3. \A e \in Ids : Contains(documents', e) <=> Contains(w, e) \/ e = d
      BY <1>1, <1>4, <2>1, AppendFacts
    <2>4. \A e \in Ids : Contains(documents', e) <=> Contains(documents, e)
      BY <1>4, <2>1, <2>3
    <2>5. \A e, f : e # d /\ Behind(documents, e, f) => Behind(documents', e, f)
      BY <1>1, <1>4, <2>1, <2>2, AppendBehind
    <2>6. CASE q # r
      <3>1. \A k \in 1..Chunks : <<q, k>> # d
        BY <1>1, <2>6
      <3> QED  BY <1>1, <1>2, <2>4, <2>5, <2>6, <3>1, OthersKept
    <2>7. CASE q = r
      <3>1. ASSUME NEW j \in 1..Chunks, NEW k \in 1..Chunks, j < k
            PROVE  Behind(documents', <<r, j>>, <<r, k>>)
        <4>1. CASE j # chunk[r]
          BY <1>1, <2>5, <3>1, <4>1 DEF Kept
        <4>2. CASE j = chunk[r]
          <5>1. ~ Contains(documents', <<r, k>>)
            BY <1>1, <1>3, <2>4, <3>1, <4>2
          <5> QED  BY <5>1 DEF Behind, Contains
        <4> QED  BY <4>1, <4>2
      <3>2. pc'[r] = "measure" /\ Stored(r)' = Stored(r)
        BY <1>1, <1>2, <1>4 DEF Stored
      <3> QED  BY <1>1, <2>4, <2>7, <3>1, <3>2 DEF Kept
    <2> QED  BY <2>6, <2>7
  <1>5. CASE /\ ~ Contains(documents, d) /\ documents' = documents
             /\ pc' = [pc EXCEPT ![r] = "failed"]
    <2>1. CASE q # r
      BY <1>1, <1>2, <1>5, <2>1, OthersKept
    <2>2. CASE q = r
      <3>1. Stored(r) = chunk[r]
        BY <1>2 DEF Stored
      <3>2. \A k \in 1..Chunks : ~ Contains(documents, <<r, k>>)
        <4> HIDE DEF d, w
        <4>1. ~ Contains(documents, <<r, chunk[r]>>) /\ chunk[r] \in Int
          BY <1>1, <1>5
        <4>2. ASSUME NEW k \in 1..Chunks, k < chunk[r] PROVE ~ Contains(documents, <<r, k>>)
          <5>1. chunk[r] <= Stored(r) /\ chunk[r] \in 1..Chunks
            BY <1>1, <3>1, <4>1
          <5> QED  BY <1>1, <4>1, <4>2, <5>1 DEF Kept
        <4>3. \A k \in 1..Chunks : k < chunk[r] \/ k = chunk[r] \/ k > chunk[r]
          BY <4>1
        <4> QED  BY <1>3, <4>1, <4>2, <4>3
      <3> QED  BY <1>1, <1>5, <2>2, <3>2 DEF Kept
    <2> QED  BY <2>1, <2>2
  <1> QED  BY <1>4, <1>5 DEF Move, GoTo, Become

LEMMA EvictKeepsNewest ==
    ASSUME IInv, NewestKept, NEW r \in Ingests, Evict(r), NEW q \in Ingests
    PROVE  Kept(q)'
  <1>1. /\ documents \in Seq(Ids) /\ Kept(q)
        /\ pc \in [Ingests -> {"insert", "move", "measure", "evict", "added",
                               "kept", "remove", "removed", "failed"}]
        /\ pc[r] = "evict" /\ chunk' = chunk
    BY DEF IInv, TypeOK, NewestKept, Evict, GoTo
  <1>2. CASE /\ documents # << >> /\ documents' = Tail(documents)
             /\ pc' = [pc EXCEPT ![r] = "measure"]
    <2>1. \A e, f : Behind(documents, e, f) =>
             /\ Behind(documents', e, f)
             /\ Contains(documents', e) => Contains(documents, e)
             /\ Contains(documents', e) /\ Contains(documents, f) => Contains(documents', f)
      BY <1>1, <1>2, TailBehind
    <2>2. \A e : Contains(documents', e) => Contains(documents, e)
      <3>1. Len(Tail(documents)) = Len(documents) - 1 /\ Len(documents) \in Nat
            /\ \A i \in 1..(Len(documents) - 1) : Tail(documents)[i] = documents[i + 1]
        BY <1>1, <1>2, HeadTailProperties, LenProperties
      <3>2. \A i \in 1..Len(documents') : i + 1 \in 1..Len(documents)
                                           /\ documents'[i] = documents[i + 1]
        BY <1>2, <3>1
      <3> QED  BY <3>2 DEF Contains
    <2>3. Stored(q)' = Stored(q) /\ (pc'[q] = pc[q] \/ pc'[q] = "measure")
      BY <1>1, <1>2 DEF Stored
    <2> QED  BY <1>1, <2>1, <2>2, <2>3 DEF Kept
  <1>3. CASE /\ documents = << >> /\ documents' = documents
             /\ pc' = [pc EXCEPT ![r] = "failed"]
    <2>1. \A e : ~ Contains(documents', e)
      BY <1>3 DEF Contains
    <2>2. \A e, f : Behind(documents', e, f)
      BY <1>3 DEF Behind
    <2>3. pc'[q] = "added" => pc[q] = "added" /\ chunk'[q] = chunk[q]
      BY <1>1, <1>3
    <2> QED  BY <1>1, <2>1, <2>2, <2>3 DEF Kept
  <1> QED  BY <1>2, <1>3 DEF Evict, GoTo, Become

LEMMA PopKeepsNewest ==
    ASSUME IInv, NewestKept, NEW r \in Ingests, Pop(r), NEW q \in Ingests
    PROVE  Kept(q)'
  <1> DEFINE d == Doc(r)
             w == Without(documents, d)
  <1>1. /\ documents \in Seq(Ids) /\ IsInjective(documents)
        /\ d \in Ids /\ d = <<r, chunk[r]>> /\ chunk[r] \in 1..Chunks
        /\ pc \in [Ingests -> {"insert", "move", "measure", "evict", "added",
                               "kept", "remove", "removed", "failed"}]
        /\ chunk \in [Ingests -> 1..Chunks]
        /\ Kept(q) /\ \A s \in Ingests, k \in 1..Chunks : <<s, k>> \in Ids
    BY DocType DEF IInv, TypeOK, NewestKept, Doc, Ids
  <1>2. /\ pc[r] = "remove" /\ documents' = w
        /\ pc' = [pc EXCEPT ![r] = IF chunk[r] < Chunks THEN "remove" ELSE "removed"]
        /\ chunk' = [chunk EXCEPT ![r] = IF chunk[r] < Chunks THEN chunk[r] + 1 ELSE chunk[r]]
    BY DEF Pop, GoTo, Become
  <1>3. \A e \in Ids : e # d => (Contains(documents', e) <=> Contains(documents, e))
    BY <1>1, <1>2, WithoutFacts
  <1>4. \A e, f : Behind(documents, e, f) => Behind(documents', e, f)
    BY <1>1, <1>2, WithoutBehind
  <1>5. ~ Contains(documents', d)
    BY <1>1, <1>2, InjectiveKept
  <1> HIDE DEF d, w
  <1>6. CASE q # r
    <2>1. \A k \in 1..Chunks : <<q, k>> # d
      BY <1>1, <1>6
    <2> QED  BY <1>1, <1>2, <1>3, <1>4, <1>6, <2>1, OthersKept
  <1>7. CASE q = r
    <2>1. /\ Stored(r) = Chunks /\ Stored(r)' = Chunks
          /\ pc'[r] = IF chunk[r] < Chunks THEN "remove" ELSE "removed"
          /\ chunk'[r] = IF chunk[r] < Chunks THEN chunk[r] + 1 ELSE chunk[r]
      BY <1>1, <1>2 DEF Stored
    <2>2. ASSUME NEW k \in 1..Chunks, k <= chunk[r] PROVE ~ Contains(documents', <<r, k>>)
      <3>1. CASE k = chunk[r]
        BY <1>1, <1>5, <3>1
      <3>2. CASE k < chunk[r]
        <4>1. <<r, k>> # d /\ <<r, k>> \in Ids
          BY <1>1, <3>2
        <4> QED  BY <1>1, <1>2, <1>3, <1>7, <3>2, <4>1 DEF Kept
      <3> QED  BY <1>1, <2>2, <3>1, <3>2
    <2>3. ASSUME NEW j \in 1..Chunks, NEW k \in 1..Chunks, j < k, Contains(documents', <<r, j>>)
          PROVE  Contains(documents', <<r, k>>)
      <3>1. j > chunk[r] /\ k > chunk[r]
        BY <1>1, <2>2, <2>3
      <3>2. <<r, j>> # d /\ <<r, k>> # d
        BY <1>1, <3>1
      <3>3. k <= Stored(r)
        BY <2>1, LimitPositive
      <3> QED  BY <1>1, <1>3, <1>7, <2>3, <3>2, <3>3 DEF Kept
    <2>4. ASSUME NEW k \in 1..Chunks,
                 pc'[r] \in {"failed", "removed"} \/ (pc'[r] = "remove" /\ k < chunk'[r])
          PROVE  ~ Contains(documents', <<r, k>>)
      <3>1. k <= chunk[r]
        BY <1>1, <2>1, <2>4, LimitPositive
      <3> QED  BY <2>2, <3>1
    <2>5. \A j, k \in 1..Chunks : j < k => Behind(documents', <<r, j>>, <<r, k>>)
      BY <1>1, <1>4, <1>7 DEF Kept
    <2>6. pc'[r] # "added"
      BY <2>1
    <2> QED  BY <1>7, <2>3, <2>4, <2>5, <2>6 DEF Kept
  <1> QED  BY <1>6, <1>7

LEMMA NewestKeptByAll == IInv /\ NewestKept /\ [Next]_vars => NewestKept'
  <1> SUFFICES ASSUME IInv, NewestKept, [Next]_vars, NEW q \in Ingests PROVE Kept(q)'
    BY DEF NewestKept
  <1>1. /\ pc \in [Ingests -> {"insert", "move", "measure", "evict", "added",
                               "kept", "remove", "removed", "failed"}]
        /\ chunk \in [Ingests -> 1..Chunks] /\ Kept(q) /\ Chunks \in Nat
    BY LimitPositive DEF IInv, TypeOK, NewestKept
  <1>2. ASSUME documents' = documents, Stored(q)' <= Stored(q),
               pc'[q] \in {"failed", "removed"} => pc[q] = pc'[q],
               pc'[q] = "remove" => chunk'[q] = 1 \/ (pc[q] = "remove" /\ chunk'[q] = chunk[q]),
               pc'[q] = "added" => chunk'[q] = 1,
               chunk' \in [Ingests -> 1..Chunks]
        PROVE  Kept(q)'
    <2>1. Stored(q) \in Int /\ Stored(q)' \in Int
      BY <1>1, <1>2 DEF Stored
    <2>2. \A k \in 1..Chunks : k <= Stored(q)' => k <= Stored(q)
      BY <1>2, <2>1
    <2>3. \A k \in 1..Chunks :
             pc'[q] \in {"failed", "removed"} \/ (pc'[q] = "remove" /\ k < chunk'[q])
                => pc[q] \in {"failed", "removed"} \/ (pc[q] = "remove" /\ k < chunk[q])
      BY <1>1, <1>2
    <2> QED  BY <1>1, <1>2, <2>2, <2>3 DEF Kept
  <1>3. ASSUME documents' = documents, pc' = pc, chunk' = chunk PROVE Kept(q)'
    BY <1>1, <1>3 DEF Kept, Stored
  <1>4. ASSUME NEW r \in Ingests, Measure(r) PROVE Kept(q)'
    <2>1. /\ documents' = documents /\ pc[r] = "measure"
          /\ chunk' \in [Ingests -> 1..Chunks]
          /\ \A s \in Ingests : s # r => pc'[s] = pc[s] /\ chunk'[s] = chunk[s]
          /\ \/ pc'[r] = "evict" /\ chunk'[r] = chunk[r]
             \/ pc'[r] = "insert" /\ chunk'[r] = chunk[r] + 1
             \/ pc'[r] = "added" /\ chunk'[r] = 1 /\ chunk[r] = Chunks
      BY <1>1, <1>4 DEF Measure, GoTo
    <2>2. CASE q # r
      BY <1>1, <2>1, <2>2, OthersKept
    <2>3. CASE q = r
      <3>1. Stored(q)' = Stored(q)
        BY <1>1, <2>1, <2>3 DEF Stored
      <3>2. Stored(q) \in Int
        BY <1>1 DEF Stored
      <3>3. Stored(q)' <= Stored(q)
        BY <3>1, <3>2
      <3> QED  BY <1>2, <2>1, <2>3, <3>3
    <2> QED  BY <2>2, <2>3
  <1>5. ASSUME NEW r \in Ingests, Settle(r) PROVE Kept(q)'
    <2>1. /\ documents' = documents /\ chunk' = chunk /\ pc[r] = "added"
          /\ \A s \in Ingests : s # r => pc'[s] = pc[s]
          /\ pc'[r] \in {"kept", "remove"}
      BY <1>1, <1>5 DEF Settle, GoTo
    <2>2. CASE q # r
      BY <1>1, <2>1, <2>2, OthersKept
    <2>3. CASE q = r
      <3>1. Stored(q)' = Chunks /\ Stored(q) = Chunks /\ chunk[q] = 1
        BY <1>1, <2>1, <2>3 DEF Stored, Kept
      <3> QED  BY <1>1, <1>2, <2>1, <2>3, <3>1
    <2> QED  BY <2>2, <2>3
  <1>6. CASE UNCHANGED vars \/ \E p \in Queries : Walk(p) \/ NextDocument(p)
    BY <1>3, <1>6 DEF vars, ingestVars, Walk, NextDocument
  <1> QED  BY <1>4, <1>5, <1>6, InsertKeepsNewest, MoveKeepsNewest, EvictKeepsNewest,
              PopKeepsNewest DEF Next

\* An add that raised in the middle leaves no chunk in the dictionary, although
\* nobody rolls it back, and a rollback leaves none either, whatever the other
\* threads insert and evict meanwhile (RetrievalStore._remember and remove).
THEOREM NothingLeftBehind == Spec => []FailuresLeaveNothing
  <1>1. Init => NewestKept
    <2> SUFFICES ASSUME Init, NEW r \in Ingests PROVE Kept(r)
      BY DEF NewestKept
    <2>1. documents = << >> /\ pc[r] = "insert"
      BY DEF Init
    <2> QED  BY <2>1 DEF Kept, Behind, Contains
  <1>2. Spec => []NewestKept
    BY <1>1, NewestKeptByAll, Invariance, PTL DEF Spec
  <1>3. NewestKept => FailuresLeaveNothing
    <2> SUFFICES ASSUME NewestKept, NEW r \in Ingests, pc[r] \in {"failed", "removed"},
                        NEW k \in 1..Chunks
                 PROVE  ~ Contains(documents, <<r, k>>)
      BY DEF FailuresLeaveNothing
    <2>1. Kept(r)
      BY DEF NewestKept
    <2> QED  BY <2>1 DEF Kept
  <1> QED  BY <1>2, <1>3, PTL

=============================================================================
