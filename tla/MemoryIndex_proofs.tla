------------------------- MODULE MemoryIndex_proofs -------------------------
(***************************************************************************)
(* Type correctness of MemoryIndex and VectorsDescribeRows, for every      *)
(* number of calls, documents, texts and ids.                              *)
(*                                                                         *)
(* VectorsDescribeRows is not inductive: that the row a call stored still  *)
(* holds the text it goes on to embed, and that no vector, of the index in *)
(* memory or on disk, waits at an id that is yet to be handed out, is what *)
(* AUTOINCREMENT gives.                                                    *)
(***************************************************************************)
EXTENDS MemoryIndex, TLAPS

Handed(k) == k[2] < next[k[1]]

\* Nothing is where no id was handed out.
Untouched == \A k \in Keys : ~Handed(k) => text[k] = NoText /\ vectors[k] = NoText /\ saved[k] = NoText

\* An index agrees with the rows that are there.
Agrees(index) == \A k \in Keys : index[k] # NoText /\ text[k] # NoText => index[k] = text[k]

\* What a call will put into the index is the text of its row, unless the row is gone.
CallsAgree ==
    \A w \in Workers :
        /\ at[w] \in {"fact", "index"} => say[w] \in Texts
        /\ at[w] = "index" => new[w] \in Keys /\ Handed(new[w]) /\ text[new[w]] \in {NoText, say[w]}

IInv == MemoryTypeOK /\ Untouched /\ Agrees(vectors) /\ Agrees(saved) /\ CallsAgree

\* A key is a table and an id of it; the id 0 is no key.
LEMMA KeyIsPair ==
    ASSUME NEW k \in Keys
    PROVE  /\ k[1] \in Tables /\ k[2] \in Nat /\ k[2] >= 1 /\ k = <<k[1], k[2]>>
           /\ k # NoKey
  BY MemoryConstants DEF Keys, NoKey, Tables

\* The next id within the bound makes a key.
LEMMA NextIsKey ==
    ASSUME NEW b \in Tables, next[b] \in Nat \ {0}, next[b] <= MaxIds[b]
    PROVE  <<b, next[b]>> \in Keys
  BY MemoryConstants DEF Keys, Tables

\* Initially nothing is stored and no call goes on.
LEMMA InitInv == MemoryInit => IInv
  <1> SUFFICES ASSUME MemoryInit PROVE IInv  OBVIOUS
  <1>1. MemoryTypeOK
    BY MemoryConstants DEF MemoryInit, AtRest, MemoryTypeOK, Index
  <1>2. Untouched /\ Agrees(vectors) /\ Agrees(saved)
    BY DEF MemoryInit, Untouched, Agrees
  <1>3. CallsAgree
    BY KeyIsPair DEF MemoryInit, AtRest, CallsAgree
  <1> QED  BY <1>1, <1>2, <1>3 DEF IInv

\* BeginIngest touches no row and no vector; so do the other steps between two statements.
LEMMA BeginIngestInv == ASSUME IInv, NEW w \in Workers, NEW d \in Docs, BeginIngest(w, d)
                PROVE  IInv'
  <1>1. MemoryTypeOK'
    BY DEF IInv, MemoryTypeOK, BeginIngest, Go, rowVars
  <1>2. (Untouched /\ Agrees(vectors) /\ Agrees(saved))'
    BY DEF IInv, BeginIngest, rowVars, Untouched, Agrees, Handed
  <1>3. CallsAgree'
    BY KeyIsPair DEF IInv, MemoryTypeOK, BeginIngest, Go, rowVars, CallsAgree, Handed
  <1> QED  BY <1>1, <1>2, <1>3 DEF IInv

\* ListOld only chooses the documents to delete.
LEMMA ListOldInv == ASSUME IInv, NEW w \in Workers, ListOld(w)
                PROVE  IInv'
  <1>1. MemoryTypeOK'
    BY DEF IInv, MemoryTypeOK, ListOld, Go, rowVars
  <1>2. (Untouched /\ Agrees(vectors) /\ Agrees(saved))'
    BY DEF IInv, ListOld, rowVars, Untouched, Agrees, Handed
  <1>3. CallsAgree'
    BY KeyIsPair DEF IInv, MemoryTypeOK, ListOld, Go, rowVars, CallsAgree, Handed
  <1> QED  BY <1>1, <1>2, <1>3 DEF IInv

\* BeginDelete only chooses the document to delete.
LEMMA BeginDeleteInv == ASSUME IInv, NEW w \in Workers, NEW d \in Docs, BeginDelete(w, d)
                PROVE  IInv'
  <1>1. MemoryTypeOK'
    BY DEF IInv, MemoryTypeOK, BeginDelete, Go, rowVars
  <1>2. (Untouched /\ Agrees(vectors) /\ Agrees(saved))'
    BY DEF IInv, BeginDelete, rowVars, Untouched, Agrees, Handed
  <1>3. CallsAgree'
    BY KeyIsPair DEF IInv, MemoryTypeOK, BeginDelete, Go, rowVars, CallsAgree, Handed
  <1> QED  BY <1>1, <1>2, <1>3 DEF IInv

\* FindRows only reads rows.
LEMMA FindRowsInv == ASSUME IInv, NEW w \in Workers, NEW d \in Docs, FindRows(w, d)
                PROVE  IInv'
  <1>1. MemoryTypeOK'
    BY DEF IInv, MemoryTypeOK, FindRows, Go, rowVars, RowsOf
  <1>2. (Untouched /\ Agrees(vectors) /\ Agrees(saved))'
    BY DEF IInv, FindRows, rowVars, Untouched, Agrees, Handed
  <1>3. CallsAgree'
    BY KeyIsPair DEF IInv, MemoryTypeOK, FindRows, Go, rowVars, CallsAgree, Handed
  <1> QED  BY <1>1, <1>2, <1>3 DEF IInv

\* Cleared goes on to the chunks or ends the call.
LEMMA ClearedInv == ASSUME IInv, NEW w \in Workers, Cleared(w)
                PROVE  IInv'
  <1>1. MemoryTypeOK'
    BY DEF IInv, MemoryTypeOK, Cleared, Go, rowVars, Return
  <1>2. (Untouched /\ Agrees(vectors) /\ Agrees(saved))'
    BY DEF IInv, Cleared, rowVars, Untouched, Agrees, Handed
  <1>3. CallsAgree'
    BY KeyIsPair DEF IInv, MemoryTypeOK, Cleared, Go, rowVars, CallsAgree, Handed, Return
  <1> QED  BY <1>1, <1>2, <1>3 DEF IInv

\* EndIngest ends the call.
LEMMA EndIngestInv == ASSUME IInv, NEW w \in Workers, EndIngest(w)
                PROVE  IInv'
  <1>1. MemoryTypeOK'
    BY DEF IInv, MemoryTypeOK, EndIngest, Go, rowVars, Return
  <1>2. (Untouched /\ Agrees(vectors) /\ Agrees(saved))'
    BY DEF IInv, EndIngest, rowVars, Untouched, Agrees, Handed
  <1>3. CallsAgree'
    BY KeyIsPair DEF IInv, MemoryTypeOK, EndIngest, Go, rowVars, CallsAgree, Handed, Return
  <1> QED  BY <1>1, <1>2, <1>3 DEF IInv

\* AddFact only reads the index.
LEMMA AddFactInv == ASSUME IInv, NEW w \in Workers, NEW x \in Texts, AddFact(w, x)
                PROVE  IInv'
  <1>1. MemoryTypeOK'
    BY DEF IInv, MemoryTypeOK, AddFact, Go, rowVars
  <1>2. (Untouched /\ Agrees(vectors) /\ Agrees(saved))'
    BY DEF IInv, AddFact, rowVars, Untouched, Agrees, Handed
  <1>3. CallsAgree'
    BY KeyIsPair DEF IInv, MemoryTypeOK, AddFact, Go, rowVars, CallsAgree, Handed
  <1> QED  BY <1>1, <1>2, <1>3 DEF IInv

\* RemoveFact only chooses the row.
LEMMA RemoveFactInv == ASSUME IInv, NEW w \in Workers, NEW k \in Keys, NEW x \in Texts \cup {NoText}, RemoveFact(w, k, x)
                PROVE  IInv'
  <1>1. MemoryTypeOK'
    BY DEF IInv, MemoryTypeOK, RemoveFact, Go, rowVars
  <1>2. (Untouched /\ Agrees(vectors) /\ Agrees(saved))'
    BY DEF IInv, RemoveFact, rowVars, Untouched, Agrees, Handed
  <1>3. CallsAgree'
    BY KeyIsPair DEF IInv, MemoryTypeOK, RemoveFact, Go, rowVars, CallsAgree, Handed
  <1> QED  BY <1>1, <1>2, <1>3 DEF IInv

\* Unindex takes vectors away.
LEMMA UnindexInv == ASSUME IInv, NEW w \in Workers, Unindex(w)
                    PROVE  IInv'
  <1>1. MemoryTypeOK'
    BY DEF IInv, MemoryTypeOK, Index, Unindex, Go, rowVars
  <1>2. (Untouched /\ Agrees(vectors) /\ Agrees(saved))'
    BY DEF IInv, Unindex, rowVars, Untouched, Agrees, Handed
  <1>3. CallsAgree'
    BY DEF IInv, MemoryTypeOK, Unindex, Go, rowVars, CallsAgree, Handed
  <1> QED  BY <1>1, <1>2, <1>3 DEF IInv

\* Erase takes rows away; what is gone contradicts no vector.
LEMMA EraseInv == ASSUME IInv, NEW w \in Workers, Erase(w)
                  PROVE  IInv'
  <1> DEFINE gone == IF victim[w] = NoDoc THEN held[w] ELSE RowsOf(victim[w])
  <1>0. /\ text' = [k \in Keys |-> IF k \in gone THEN NoText ELSE text[k]]
        /\ docOf' = [k \in Keys |-> IF k \in gone THEN NoDoc ELSE docOf[k]]
    BY DEF Erase
  <1> HIDE DEF gone
  <1>1. MemoryTypeOK'
    BY <1>0 DEF IInv, MemoryTypeOK, Index, Erase, Go
  <1>2. (Untouched /\ Agrees(vectors) /\ Agrees(saved))'
    BY <1>0 DEF IInv, Erase, Untouched, Agrees, Handed
  <1>3. CallsAgree'
    BY <1>0 DEF IInv, MemoryTypeOK, Erase, Go, CallsAgree, Handed
  <1> QED  BY <1>1, <1>2, <1>3 DEF IInv

\* Insert puts a row where nothing was, at an id no other call holds.
LEMMA InsertInv == ASSUME IInv, NEW w \in Workers, NEW b \in Tables, NEW x \in Texts, Insert(w, b, x),
                          UNCHANGED <<vectors, saved, doc, victims, victim, held>>
                   PROVE  IInv'
  <1>a. PICK k \in Keys : k = <<b, next[b]>>
    BY NextIsKey DEF IInv, MemoryTypeOK, Insert, HandOut
  <1>0. /\ k[1] = b /\ k[2] = next[b] /\ next[b] \in Nat
        /\ ~Handed(k) /\ text[k] = NoText /\ vectors[k] = NoText /\ saved[k] = NoText
    BY <1>a DEF IInv, MemoryTypeOK, Handed, Untouched
  <1>1. /\ text' = [text EXCEPT ![k] = x] /\ docOf' = [docOf EXCEPT ![k] = doc[w]]
        /\ next' = [next EXCEPT ![b] = next[b] + 1] /\ new' = [new EXCEPT ![w] = k]
        /\ say' = [say EXCEPT ![w] = x] /\ at' = [at EXCEPT ![w] = "index"]
    BY <1>a DEF Insert, HandOut, Go
  <1>2. \A j \in Keys : Handed(j) => Handed(j)' /\ j # k
    BY <1>0, <1>1, KeyIsPair DEF IInv, MemoryTypeOK, Handed
  <1>3. Handed(k)'
    BY <1>0, <1>1 DEF IInv, MemoryTypeOK, Handed
  <1>4. MemoryTypeOK'
    <2>1. text' \in Index /\ docOf' \in [Keys -> Docs \cup {NoDoc}]
      BY <1>0, <1>1 DEF IInv, MemoryTypeOK, Index
    <2>2. next' \in [Tables -> Nat \ {0}]
      BY <1>0, <1>1 DEF IInv, MemoryTypeOK
    <2>3. /\ new' \in [Workers -> Keys \cup {NoKey}] /\ say' \in [Workers -> Texts \cup {NoText}]
          /\ at' \in [Workers -> {"idle", "list", "clear", "unindex", "erase", "store", "fact", "index"}]
      BY <1>0, <1>1 DEF IInv, MemoryTypeOK
    <2> QED  BY <2>1, <2>2, <2>3 DEF IInv, MemoryTypeOK
  <1>5. Untouched'
    BY <1>0, <1>1, <1>2, <1>3 DEF IInv, MemoryTypeOK, Index, Untouched
  <1>6. (Agrees(vectors) /\ Agrees(saved))'
    BY <1>0, <1>1 DEF IInv, MemoryTypeOK, Index, Agrees
  <1>7. CallsAgree'
    <2> SUFFICES ASSUME NEW v \in Workers
                 PROVE  /\ at'[v] \in {"fact", "index"} => say'[v] \in Texts
                        /\ at'[v] = "index" => /\ new'[v] \in Keys /\ Handed(new[v])'
                                               /\ text'[new'[v]] \in {NoText, say'[v]}
      BY DEF CallsAgree
    <2>1. CASE v = w
      BY <2>1, <1>0, <1>1, <1>3 DEF IInv, MemoryTypeOK, Index
    <2>2. CASE v # w
      <3>1. at'[v] = at[v] /\ say'[v] = say[v] /\ new'[v] = new[v]
        BY <2>2, <1>1 DEF IInv, MemoryTypeOK
      <3>2. ASSUME at[v] = "index"
            PROVE  new[v] \in Keys /\ Handed(new[v])' /\ text'[new[v]] = text[new[v]]
        <4>1. PICK j \in Keys : j = new[v] /\ j = new'[v] /\ Handed(j)
          BY <3>1, <3>2 DEF IInv, CallsAgree, Handed
        <4>2. Handed(j)' /\ text'[j] = text[j]
          BY <4>1, <1>1, <1>2 DEF IInv, MemoryTypeOK, Index
        <4> QED  BY <4>1, <4>2 DEF Handed
      <3> QED  BY <3>1, <3>2 DEF IInv, CallsAgree, Handed
    <2> QED  BY <2>1, <2>2
  <1> QED  BY <1>4, <1>5, <1>6, <1>7 DEF IInv

\* IndexRow embeds the text of the row, unless the row is gone.
LEMMA IndexRowInv == ASSUME IInv, NEW w \in Workers, IndexRow(w)
                     PROVE  IInv'
  <1>0. /\ new[w] \in Keys /\ say[w] \in Texts /\ Handed(new[w]) /\ text[new[w]] \in {NoText, say[w]}
        /\ vectors' = [vectors EXCEPT ![new[w]] = say[w]]
    BY DEF IInv, CallsAgree, IndexRow
  <1>1. MemoryTypeOK'
    BY <1>0 DEF IInv, MemoryTypeOK, Index, IndexRow, Go, Return, rowVars
  <1>2. (Untouched /\ Agrees(vectors) /\ Agrees(saved))'
    BY <1>0 DEF IInv, MemoryTypeOK, Index, IndexRow, rowVars, Untouched, Agrees, Handed
  <1>3. CallsAgree'
    BY KeyIsPair DEF IInv, MemoryTypeOK, IndexRow, Go, Return, rowVars, CallsAgree, Handed
  <1> QED  BY <1>1, <1>2, <1>3 DEF IInv

\* Prune takes a row away and leaves its vector.
LEMMA PruneInv == ASSUME IInv, NEW k \in Keys, Prune(k)
                  PROVE  IInv'
  <1>1. MemoryTypeOK'
    BY DEF IInv, MemoryTypeOK, Index, Prune, callVars
  <1>2. (Untouched /\ Agrees(vectors) /\ Agrees(saved))'
    BY DEF IInv, MemoryTypeOK, Index, Prune, Untouched, Agrees, Handed
  <1>3. CallsAgree'
    BY DEF IInv, MemoryTypeOK, Index, Prune, callVars, CallsAgree, Handed
  <1> QED  BY <1>1, <1>2, <1>3 DEF IInv

\* Restart keeps one of two indexes that agree with the rows.
LEMMA RestartInv == ASSUME IInv, Restart
                    PROVE  IInv'
  <1>1. MemoryTypeOK'
    BY DEF IInv, MemoryTypeOK, Index, Restart, rowVars
  <1>2. (Untouched /\ Agrees(vectors) /\ Agrees(saved))'
    BY DEF IInv, Restart, rowVars, Untouched, Agrees, Handed
  <1>3. CallsAgree'
    BY KeyIsPair DEF Restart, CallsAgree
  <1> QED  BY <1>1, <1>2, <1>3 DEF IInv

\* Every step keeps the invariant.
LEMMA NextInv == IInv /\ [MemoryNext]_memoryVars => IInv'
  <1> SUFFICES ASSUME IInv, [MemoryNext]_memoryVars PROVE IInv'  OBVIOUS
  <1>1. ASSUME NEW w \in Workers, NEW d \in Docs, BeginIngest(w, d) \/ BeginDelete(w, d) \/ FindRows(w, d)
        PROVE  IInv'
    BY <1>1, BeginIngestInv, BeginDeleteInv, FindRowsInv
  <1>2. ASSUME NEW w \in Workers, ListOld(w) \/ Unindex(w) \/ Erase(w) \/ Cleared(w)
        PROVE  IInv'
    BY <1>2, ListOldInv, UnindexInv, EraseInv, ClearedInv
  <1>3. ASSUME NEW w \in Workers, NEW x \in Texts, StoreChunk(w, x) \/ AddFact(w, x)
        PROVE  IInv'
    <2>1. CASE StoreChunk(w, x)
      BY <2>1, InsertInv DEF StoreChunk, Tables
    <2> QED  BY <1>3, <2>1, AddFactInv
  <1>4. ASSUME NEW w \in Workers, IndexRow(w) \/ EndIngest(w) \/ StoreFact(w)
        PROVE  IInv'
    <2>1. CASE StoreFact(w)
      <3>1. say[w] \in Texts
        BY <2>1 DEF IInv, CallsAgree, StoreFact
      <3> QED  BY <2>1, <3>1, InsertInv DEF StoreFact, Tables
    <2> QED  BY <1>4, <2>1, IndexRowInv, EndIngestInv
  <1>5. ASSUME NEW w \in Workers, NEW k \in Keys, NEW x \in Texts \cup {NoText}, RemoveFact(w, k, x)
        PROVE  IInv'
    BY <1>5, RemoveFactInv
  <1>6. ASSUME NEW k \in Keys, Prune(k)  PROVE IInv'
    BY <1>6, PruneInv
  <1>7. CASE UNCHANGED memoryVars
    <2>1. MemoryTypeOK'
      BY <1>7 DEF IInv, MemoryTypeOK, memoryVars, rowVars, callVars
    <2>2. (Untouched /\ Agrees(vectors) /\ Agrees(saved) /\ CallsAgree)'
      BY <1>7 DEF IInv, memoryVars, rowVars, callVars, Untouched, Agrees, CallsAgree, Handed
    <2> QED  BY <2>1, <2>2 DEF IInv
  <1> QED  BY <1>1, <1>2, <1>3, <1>4, <1>5, <1>6, <1>7, RestartInv DEF MemoryNext

\* Every reachable state satisfies the invariant.
LEMMA Invariant == MemorySpec => []IInv
  BY InitInv, NextInv, PTL DEF MemorySpec

\* The variables of MemoryIndex keep their types.
THEOREM MemoryTypeCorrect == MemorySpec => []MemoryTypeOK
  <1>1. IInv => MemoryTypeOK  BY DEF IInv
  <1> QED  BY <1>1, Invariant, PTL

\* What the vector index leads to is a row with the text of the vector, or no row, for
\* any number of calls at once and any crashes (rag.rs, facts.rs, decay.rs, vectors.rs).
THEOREM VectorsMatchRows == MemorySpec => []VectorsDescribeRows
  <1>1. IInv => VectorsDescribeRows  BY DEF IInv, Agrees, VectorsDescribeRows
  <1> QED  BY <1>1, Invariant, PTL
=============================================================================
