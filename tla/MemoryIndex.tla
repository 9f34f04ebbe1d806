---------------------------- MODULE MemoryIndex ----------------------------
(***************************************************************************)
(* The long-term memory: facts and document chunks are rows of SQLite      *)
(* (memory/store.rs), their embeddings are in a vector index in memory     *)
(* (memory/vectors.rs) under the row's id, chunks under its negative.      *)
(* Facts and documents come and go by facts.rs, decay.rs and rag.rs, from  *)
(* several turns at once; every statement and every access of the index    *)
(* takes its lock for itself.  The index is written to disk only when it   *)
(* is dropped, so after a crash the one of an earlier exit comes back.     *)
(*                                                                         *)
(* An embedding is represented by the text it was computed from.  Scores,  *)
(* links, the full-text index and the splitting into chunks are left out.  *)
(***************************************************************************)
EXTENDS Naturals

CONSTANTS
    Workers,    \* calls in progress
    Docs,       \* doc_ids; one without rows that no call refers to is used again
    NameOf,     \* [Docs -> file name]
    Texts,
    NoText, NoDoc,
    MaxIds      \* [Tables -> bound on the ids the table hands out]

Tables == {"facts", "chunks"}
Keys   == UNION {{b} \X (1..MaxIds[b]) : b \in Tables}
NoKey  == <<"facts", 0>>

ASSUME MemoryConstants ==
    /\ MaxIds \in [Tables -> Nat]
    /\ NoText \notin Texts /\ NoDoc \notin Docs

VARIABLES
    text,      \* [Keys -> text of the row]
    docOf,     \* [Keys -> document of the row]
    next,      \* [Tables -> the id AUTOINCREMENT hands out next]
    vectors,   \* the index in memory
    saved,     \* the index on disk
    at,        \* where each call stands
    doc,       \* the document it ingests
    victims,   \* the documents it has to delete
    victim,    \* the one it is deleting
    held,      \* the rows it found
    new,       \* the row it stored
    say        \* what it embeds

rowVars    == <<text, docOf, next>>
callVars   == <<at, doc, victims, victim, held, new, say>>
memoryVars == <<rowVars, vectors, saved, callVars>>

Index == [Keys -> Texts \cup {NoText}]

MemoryTypeOK ==
    /\ text \in Index /\ vectors \in Index /\ saved \in Index
    /\ docOf \in [Keys -> Docs \cup {NoDoc}]
    /\ next \in [Tables -> Nat \ {0}]
    /\ at \in [Workers -> {"idle", "list", "clear", "unindex", "erase", "store", "fact", "index"}]
    /\ doc \in [Workers -> Docs \cup {NoDoc}] /\ victim \in [Workers -> Docs \cup {NoDoc}]
    /\ victims \in [Workers -> SUBSET Docs]
    /\ held \in [Workers -> SUBSET Keys]
    /\ new \in [Workers -> Keys \cup {NoKey}]
    /\ say \in [Workers -> Texts \cup {NoText}]

AtRest ==
    /\ at = [w \in Workers |-> "idle"]
    /\ doc = [w \in Workers |-> NoDoc] /\ victim = [w \in Workers |-> NoDoc]
    /\ victims = [w \in Workers |-> {}] /\ held = [w \in Workers |-> {}]
    /\ new = [w \in Workers |-> NoKey] /\ say = [w \in Workers |-> NoText]

MemoryInit ==
    /\ text = [k \in Keys |-> NoText] /\ docOf = [k \in Keys |-> NoDoc]
    /\ next = [b \in Tables |-> 1]
    /\ vectors = text /\ saved = text
    /\ AtRest

RowsOf(d) == {k \in Keys : docOf[k] = d}

Go(w, p) == at' = [at EXCEPT ![w] = p]

\* The locals are gone when the call returns.
Return(w) ==
    /\ Go(w, "idle")
    /\ doc' = [doc EXCEPT ![w] = NoDoc] /\ victim' = [victim EXCEPT ![w] = NoDoc]
    /\ victims' = [victims EXCEPT ![w] = {}] /\ held' = [held EXCEPT ![w] = {}]
    /\ new' = [new EXCEPT ![w] = NoKey] /\ say' = [say EXCEPT ![w] = NoText]

-----------------------------------------------------------------------------
\* ingest, under a doc_id of its own
BeginIngest(w, d) ==
    /\ at[w] = "idle"
    /\ RowsOf(d) = {}
    /\ \A v \in Workers : doc[v] # d /\ d \notin victims[v] \cup {victim[v]}
    /\ Go(w, "list") /\ doc' = [doc EXCEPT ![w] = d]
    /\ UNCHANGED <<rowVars, vectors, saved, victims, victim, held, new, say>>

\* The documents of the same name that have rows by now
ListOld(w) ==
    /\ at[w] = "list"
    /\ Go(w, "clear")
    /\ victims' = [victims EXCEPT ![w] = {d \in Docs : NameOf[d] = NameOf[doc[w]] /\ RowsOf(d) # {}}]
    /\ UNCHANGED <<rowVars, vectors, saved, doc, victim, held, new, say>>

\* delete_document, for an ingest or by itself
BeginDelete(w, d) ==
    /\ at[w] = "idle"
    /\ RowsOf(d) # {}
    /\ Go(w, "clear") /\ victims' = [victims EXCEPT ![w] = {d}]
    /\ UNCHANGED <<rowVars, vectors, saved, doc, victim, held, new, say>>

FindRows(w, d) ==
    /\ at[w] = "clear" /\ d \in victims[w]
    /\ Go(w, "unindex")
    /\ victim' = [victim EXCEPT ![w] = d] /\ victims' = [victims EXCEPT ![w] = @ \ {d}]
    /\ held' = [held EXCEPT ![w] = RowsOf(d)]
    /\ UNCHANGED <<rowVars, vectors, saved, doc, new, say>>

Unindex(w) ==
    /\ at[w] = "unindex"
    /\ Go(w, "erase")
    /\ vectors' = [k \in Keys |-> IF k \in held[w] THEN NoText ELSE vectors[k]]
    /\ UNCHANGED <<rowVars, saved, doc, victims, victim, held, new, say>>

\* All rows the document has by now; of a fact, its row.
Erase(w) ==
    /\ at[w] = "erase"
    /\ LET gone == IF victim[w] = NoDoc THEN held[w] ELSE RowsOf(victim[w]) IN
          /\ text' = [k \in Keys |-> IF k \in gone THEN NoText ELSE text[k]]
          /\ docOf' = [k \in Keys |-> IF k \in gone THEN NoDoc ELSE docOf[k]]
    /\ Go(w, IF say[w] = NoText THEN "clear" ELSE "fact")
    /\ victim' = [victim EXCEPT ![w] = NoDoc] /\ held' = [held EXCEPT ![w] = {}]
    /\ UNCHANGED <<next, vectors, saved, doc, victims, new, say>>

Cleared(w) ==
    /\ at[w] = "clear" /\ victims[w] = {}
    /\ \/ doc[w] # NoDoc /\ Go(w, "store") /\ UNCHANGED <<doc, victims, victim, held, new, say>>
       \/ doc[w] = NoDoc /\ Return(w)
    /\ UNCHANGED <<rowVars, vectors, saved>>

\* A plausible slip: INTEGER PRIMARY KEY without AUTOINCREMENT, one above the last row.
HandOutReusing(b) ==
    CHOOSE i \in 1..(MaxIds[b] + 1) :
        /\ \A j \in i..MaxIds[b] : text[<<b, j>>] = NoText
        /\ i = 1 \/ text[<<b, i - 1>>] # NoText

\* AUTOINCREMENT hands no id out twice.
HandOut(b) == next[b]

Insert(w, b, x) ==
    /\ HandOut(b) <= MaxIds[b]
    /\ LET k == <<b, HandOut(b)>> IN
          /\ text' = [text EXCEPT ![k] = x]
          /\ docOf' = [docOf EXCEPT ![k] = doc[w]]
          /\ next' = [next EXCEPT ![b] = HandOut(b) + 1]
          /\ new' = [new EXCEPT ![w] = k]
    /\ say' = [say EXCEPT ![w] = x]
    /\ Go(w, "index")

StoreChunk(w, x) ==
    /\ at[w] = "store"
    /\ Insert(w, "chunks", x)
    /\ UNCHANGED <<vectors, saved, doc, victims, victim, held>>

\* The chunk is embedded and indexed; then comes the next one.
IndexRow(w) ==
    /\ at[w] = "index"
    /\ vectors' = [vectors EXCEPT ![new[w]] = say[w]]
    /\ \/ /\ doc[w] # NoDoc /\ Go(w, "store")
          /\ new' = [new EXCEPT ![w] = NoKey] /\ say' = [say EXCEPT ![w] = NoText]
          /\ UNCHANGED <<doc, victims, victim, held>>
       \/ doc[w] = NoDoc /\ Return(w)
    /\ UNCHANGED <<rowVars, saved>>

\* There is no next one, or the chunk cannot be embedded: its row stays.
EndIngest(w) ==
    /\ at[w] = "store" \/ (at[w] = "index" /\ doc[w] # NoDoc)
    /\ Return(w)
    /\ UNCHANGED <<rowVars, vectors, saved>>

-----------------------------------------------------------------------------
\* add_fact: nothing in the index, fact or chunk, is too similar.
AddFact(w, x) ==
    /\ at[w] = "idle"
    /\ \A k \in Keys : vectors[k] # x
    /\ Go(w, "fact") /\ say' = [say EXCEPT ![w] = x]
    /\ UNCHANGED <<rowVars, vectors, saved, doc, victims, victim, held, new>>

StoreFact(w) ==
    /\ at[w] = "fact"
    /\ Insert(w, "facts", say[w])
    /\ UNCHANGED <<vectors, saved, doc, victims, victim, held>>

\* delete_fact, and update_fact, which goes on to store a new fact unless its text
\* cannot be embedded.
RemoveFact(w, k, x) ==
    /\ at[w] = "idle" /\ k[1] = "facts" /\ text[k] # NoText
    /\ Go(w, "unindex")
    /\ held' = [held EXCEPT ![w] = {k}] /\ say' = [say EXCEPT ![w] = x]
    /\ UNCHANGED <<rowVars, vectors, saved, doc, victims, victim, new>>

\* prune_expired leaves the vector.
Prune(k) ==
    /\ k[1] = "facts" /\ text[k] # NoText
    /\ text' = [text EXCEPT ![k] = NoText]
    /\ UNCHANGED <<docOf, next, vectors, saved, callVars>>

-----------------------------------------------------------------------------
\* The program ends, with or without dropping the index, and starts again.
Restart ==
    /\ \/ saved' = vectors /\ UNCHANGED vectors
       \/ vectors' = saved /\ UNCHANGED saved
    /\ at' = [w \in Workers |-> "idle"]
    /\ doc' = [w \in Workers |-> NoDoc] /\ victim' = [w \in Workers |-> NoDoc]
    /\ victims' = [w \in Workers |-> {}] /\ held' = [w \in Workers |-> {}]
    /\ new' = [w \in Workers |-> NoKey] /\ say' = [w \in Workers |-> NoText]
    /\ UNCHANGED rowVars

MemoryNext ==
    \/ \E w \in Workers :
          \/ \E d \in Docs : BeginIngest(w, d) \/ BeginDelete(w, d) \/ FindRows(w, d)
          \/ ListOld(w) \/ Unindex(w) \/ Erase(w) \/ Cleared(w)
          \/ \E x \in Texts : StoreChunk(w, x) \/ AddFact(w, x)
          \/ IndexRow(w) \/ EndIngest(w) \/ StoreFact(w)
          \/ \E k \in Keys, x \in Texts \cup {NoText} : RemoveFact(w, k, x)
    \/ \E k \in Keys : Prune(k)
    \/ Restart

MemorySpec == MemoryInit /\ [][MemoryNext]_memoryVars

-----------------------------------------------------------------------------
\* What the index finds is what the row says: a vector is of the text of the row its id
\* leads to, or the row is gone, however calls overlap and whatever index comes back
\* after a crash.
VectorsDescribeRows ==
    \A k \in Keys : vectors[k] # NoText /\ text[k] # NoText => vectors[k] = text[k]
=============================================================================
