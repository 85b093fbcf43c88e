-------------------------- MODULE MemoryIndexProofs --------------------------
(***************************************************************************)
(* The memories table and its vector index, for any memories, contents,     *)
(* scopes and retention times.  The inductive invariant says, beside types, *)
(* that whatever awaits a vector is live or was deleted on the same day,    *)
(* and that between the transactions of a sweep no expired memory has a row *)
(* in the index: so no writer brings back a row the sweep took out.         *)
(***************************************************************************)
EXTENDS MemoryIndex, FiniteSetTheorems, TLAPS

Rows == [state : {"absent", "live", "deleted", "purged"},
         content : Contents \cup {None}, version : Nat, age : Nat]
Embs == [Keys -> [src : Mem, vec : BOOLEAN] \cup {None}]

Counters == edits \in Nat /\ edits <= MaxEdits

RowsOK ==
  /\ row \in [Mem -> Rows]
  /\ \A m \in Mem :
       /\ row[m].version <= edits + 1
       /\ row[m].age <= TombstoneRetention + 1
       /\ row[m].state \in {"live", "deleted"} => row[m].content \in Contents

LEMMA RowFields ==
  ASSUME NEW state, NEW c, NEW version, NEW age
  PROVE  /\ Row(state, c, version, age).state = state
         /\ Row(state, c, version, age).content = c
         /\ Row(state, c, version, age).version = version
         /\ Row(state, c, version, age).age = age
  BY DEF Row

LEMMA RowTyped ==
  ASSUME NEW state \in {"absent", "live", "deleted", "purged"},
         NEW c \in Contents \cup {None}, NEW version \in Nat, NEW age \in Nat
  PROVE  Row(state, c, version, age) \in Rows
  BY DEF Row, Rows

\* One memory's row changes.
LEMMA OneRowKeeps ==
  ASSUME RowsOK, Counters, NEW m \in Mem, NEW r \in Rows,
         row' = [row EXCEPT ![m] = r], edits' \in Nat, edits <= edits',
         r.version <= edits' + 1, r.age <= TombstoneRetention + 1,
         r.state \in {"live", "deleted"} => r.content \in Contents
  PROVE  RowsOK'
<1>1. row' \in [Mem -> Rows]
  BY DEF RowsOK
<1>2. ASSUME NEW n \in Mem
      PROVE  /\ row'[n].version <= edits' + 1
             /\ row'[n].age <= TombstoneRetention + 1
             /\ row'[n].state \in {"live", "deleted"}
                  => row'[n].content \in Contents
  <2>1. CASE n = m
    BY <2>1 DEF RowsOK
  <2>2. CASE n # m
    <3>1. row'[n] = row[n] /\ row[n] \in Rows
      BY <2>2 DEF RowsOK
    <3>2. row[n].version \in Nat
      BY <3>1 DEF Rows
    <3>. QED BY <3>1, <3>2 DEF RowsOK, Counters
  <2>. QED BY <2>1, <2>2
<1>. QED BY <1>1, <1>2 DEF RowsOK

LEMMA RowsInit == Init => RowsOK /\ Counters
<1> SUFFICES ASSUME Init PROVE RowsOK /\ Counters
  OBVIOUS
<1>1. Row("absent", None, 0, 0) \in Rows
  BY RowTyped
<1>2. \A m \in Mem : row[m] = Row("absent", None, 0, 0)
  BY DEF Init
<1>3. edits = 0 /\ row \in [Mem -> Rows]
  BY <1>1 DEF Init
<1>. QED BY <1>1, <1>2, <1>3, RowFields, IndexAssumption DEF RowsOK, Counters

\* A memory is remembered, by a request or by the pipeline.
Remembers(m, c) ==
  /\ row[m].state = "absent"
  /\ ~Taken(m, c)
  /\ row' = [row EXCEPT ![m] = Row("live", c, 1, 0)]
  /\ UNCHANGED <<scoped, edits>>

\* What ModifyMemory does to the row.
Replaces(m, c) ==
  /\ Live(m)
  /\ \A n \in Mem \ {m} : Live(n) => row[n].content # c
  /\ CountEdit
  /\ row' = [row EXCEPT ![m] = Row("live", c, @.version + 1, 0)]
  /\ UNCHANGED scoped

\* The steps that change a row, the writers of embeddings left aside.
LEMMA RowCases ==
  ASSUME [Next]_vars
  PROVE  \/ UNCHANGED <<scoped, row, edits>>
         \/ \E m \in Mem, c \in Contents : Remembers(m, c) \/ Replaces(m, c)
         \/ \E m \in Mem : \/ ModifyMetadata(m) \/ ForgetMemory(m)
                           \/ ForgetQuietly(m) \/ RecoverMemory(m)
         \/ PurgeTombstones \/ Elapse
<1>1. ASSUME NEW m \in Mem, EmbedRemembered(m) \/ EmbedFails(m)
      PROVE  UNCHANGED <<scoped, row, edits>>
  BY <1>1 DEF EmbedRemembered, EmbedFails
<1>2. ASSUME NEW m \in Mem, NEW c \in Contents, Remember(m, c) \/ InsertFact(m, c)
      PROVE  Remembers(m, c)
  BY <1>2 DEF Remember, InsertFact, Remembers
<1>3. ASSUME NEW m \in Mem, NEW c \in Contents, NEW vector \in BOOLEAN,
             ModifyMemory(m, c, vector)
      PROVE  Replaces(m, c)
  BY <1>3 DEF ModifyMemory, ReplaceContent, Replaces
<1>4. ASSUME NEW a, TrackerWrite(a) \/ RepairWrite(a) \/ RepairQuery(a)
      PROVE  UNCHANGED <<scoped, row, edits>>
  BY <1>4 DEF TrackerWrite, RepairWrite, RepairQuery
<1>5. CASE TrackerQuery \/ CleanOrphanedEmbeddings
           \/ ResyncVectorIndex \/ PurgeEmbeddings \/ Crash
  BY <1>5 DEF TrackerQuery, CleanOrphanedEmbeddings, ResyncVectorIndex,
     PurgeEmbeddings, Crash
<1>6. CASE UNCHANGED vars
  BY <1>6 DEF vars
<1>. QED BY <1>1, <1>2, <1>3, <1>4, <1>5, <1>6 DEF Next

LEMMA RowsStep ==
  ASSUME RowsOK, Counters, [Next]_vars
  PROVE  RowsOK' /\ Counters'
<1>1. Counters' /\ edits <= edits'
  <2>1. edits' = edits \/ (edits < MaxEdits /\ edits' = edits + 1)
    BY RowCases DEF Remembers, Replaces, CountEdit, ModifyMetadata,
       ForgetMemory, ForgetQuietly, RecoverMemory, PurgeTombstones, Elapse
  <2>. QED BY <2>1, IndexAssumption DEF Counters
<1>10. SUFFICES RowsOK'
  BY <1>1
<1>2. \A m \in Mem : /\ row[m].version \in Nat /\ row[m].age \in Nat
                     /\ row[m].version <= edits + 1
                     /\ row[m].age <= TombstoneRetention + 1
                     /\ row[m] \in Rows
  BY DEF RowsOK, Rows
<1>3. CASE UNCHANGED <<scoped, row, edits>>
  BY <1>3 DEF RowsOK
<1>4. ASSUME NEW m \in Mem, NEW c \in Contents, Remembers(m, c) PROVE RowsOK'
  <2> DEFINE r == Row("live", c, 1, 0)
  <2>1. r \in Rows /\ r.version = 1 /\ r.age = 0 /\ r.content = c
    BY RowTyped, RowFields
  <2>2. row' = [row EXCEPT ![m] = r] /\ r.version <= edits' + 1
        /\ r.age <= TombstoneRetention + 1
    BY <1>1, <1>4, <2>1, IndexAssumption DEF Remembers, Counters
  <2> HIDE DEF r
  <2>. QED BY <1>1, <2>1, <2>2, OneRowKeeps DEF Counters
<1>5. ASSUME NEW m \in Mem, NEW c \in Contents, Replaces(m, c) PROVE RowsOK'
  <2> DEFINE r == Row("live", c, row[m].version + 1, 0)
  <2>1. /\ r \in Rows /\ r.version = row[m].version + 1
        /\ r.age = 0 /\ r.content = c
    BY <1>2, RowTyped, RowFields
  <2>2. row' = [row EXCEPT ![m] = r] /\ edits' = edits + 1
    BY <1>5 DEF Replaces, CountEdit
  <2>3. r.version <= edits' + 1 /\ r.age <= TombstoneRetention + 1
    BY <1>2, <2>1, <2>2, IndexAssumption DEF Counters
  <2> HIDE DEF r
  <2>. QED BY <1>1, <2>1, <2>2, <2>3, OneRowKeeps DEF Counters
<1>6. ASSUME NEW m \in Mem, ModifyMetadata(m) PROVE RowsOK'
  <2> DEFINE r == [row[m] EXCEPT !.version = @ + 1]
  <2>1. r \in Rows /\ r.version = row[m].version + 1 /\ r.age = row[m].age
        /\ r.content = row[m].content /\ r.state = row[m].state
    BY <1>2 DEF Rows
  <2>2. row' = [row EXCEPT ![m] = r] /\ edits' = edits + 1
    BY <1>6 DEF ModifyMetadata, CountEdit
  <2>3. r.state \in {"live", "deleted"} => r.content \in Contents
    BY <2>1 DEF RowsOK
  <2>4. r.version <= edits' + 1 /\ r.age <= TombstoneRetention + 1
    BY <1>2, <2>1, <2>2 DEF Counters
  <2> HIDE DEF r
  <2>. QED BY <1>1, <2>1, <2>2, <2>3, <2>4, OneRowKeeps DEF Counters
<1>7. ASSUME NEW m \in Mem,
             ForgetMemory(m) \/ ForgetQuietly(m) \/ RecoverMemory(m)
      PROVE  RowsOK'
  <2>1. row[m].state \in {"live", "deleted"} /\ row[m].content \in Contents
    BY <1>7 DEF ForgetMemory, ForgetQuietly, RecoverMemory, Live, RowsOK
  <2> DEFINE r(state, more) ==
               Row(state, row[m].content, row[m].version + more, 0)
  <2>2. PICK state \in {"live", "deleted"}, more \in {0, 1} :
          /\ row' = [row EXCEPT ![m] = r(state, more)]
          /\ edits' = edits + more
    <3>1. CASE ForgetMemory(m)
      BY <3>1 DEF ForgetMemory, CountEdit
    <3>2. CASE ForgetQuietly(m)
      <4>1. row[m].version + 0 = row[m].version /\ edits + 0 = edits
        BY <1>2 DEF Counters
      <4>. QED BY <3>2, <4>1 DEF ForgetQuietly
    <3>3. CASE RecoverMemory(m)
      BY <3>3 DEF RecoverMemory, CountEdit
    <3>. QED BY <1>7, <3>1, <3>2, <3>3
  <2>3. /\ r(state, more) \in Rows /\ r(state, more).age = 0
        /\ r(state, more).version = row[m].version + more
        /\ r(state, more).content = row[m].content
    BY <1>2, <2>1, RowTyped, RowFields
  <2>4. /\ r(state, more).version <= edits' + 1
        /\ r(state, more).age <= TombstoneRetention + 1
    BY <1>2, <2>2, <2>3, IndexAssumption DEF Counters
  <2> HIDE DEF r
  <2>. QED BY <1>1, <2>1, <2>2, <2>3, <2>4, OneRowKeeps DEF Counters
<1>8. CASE PurgeTombstones
  <2>1. Row("purged", None, 0, 0) \in Rows
    BY RowTyped
  <2>2. row' \in [Mem -> Rows] /\ edits' = edits
    BY <1>2, <1>8, <2>1 DEF PurgeTombstones
  <2>3. \A m \in Mem : row'[m] = row[m] \/ row'[m] = Row("purged", None, 0, 0)
    BY <1>8 DEF PurgeTombstones
  <2>. QED BY <2>2, <2>3, RowFields, IndexAssumption DEF RowsOK, Counters
<1>9. CASE Elapse
  <2>1. \A m \in Mem :
          \/ row'[m] = row[m]
          \/ /\ row[m].age <= TombstoneRetention
             /\ row'[m] = [row[m] EXCEPT !.age = @ + 1]
    BY <1>9 DEF Elapse
  <2>2. ASSUME NEW m \in Mem
        PROVE  /\ row'[m] \in Rows
               /\ row'[m].state = row[m].state
               /\ row'[m].content = row[m].content
               /\ row'[m].version = row[m].version
               /\ row'[m].age <= TombstoneRetention + 1
    <3>1. CASE row'[m] = row[m]
      BY <1>2, <3>1
    <3>2. CASE /\ row[m].age <= TombstoneRetention
               /\ row'[m] = [row[m] EXCEPT !.age = @ + 1]
      <4>1. row'[m].age = row[m].age + 1
        BY <1>2, <3>2 DEF Rows
      <4>2. row'[m].age <= TombstoneRetention + 1
        BY <1>2, <3>2, <4>1, IndexAssumption
      <4>. QED BY <1>2, <3>2, <4>2 DEF Rows
    <3>. QED BY <2>1, <3>1, <3>2
  <2>3. row' \in [Mem -> Rows] /\ edits' = edits
    BY <1>9, <2>2 DEF Elapse
  <2>. QED BY <2>2, <2>3 DEF RowsOK
<1>. QED BY <1>1, <1>3, <1>4, <1>5, <1>6, <1>7, <1>8, <1>9, RowCases

(***************************************************************************)
(* Contents                                                                 *)
(***************************************************************************)

\* One memory's row changes, into one that is not live or has a content that
\* no live memory of its scope has.
LEMMA OneRowStaysUnique ==
  ASSUME RowsOK, UniqueLive, NEW m \in Mem, NEW r, scoped' = scoped,
         row' = [row EXCEPT ![m] = r],
         r.state # "live" \/ ~Taken(m, r.content)
  PROVE  UniqueLive'
<1>1. SUFFICES ASSUME NEW p \in Mem, NEW q \in Mem, p # q,
                      row'[p].state = "live", row'[q].state = "live",
                      SameScope(p, q)
               PROVE  row'[p].content # row'[q].content
  BY DEF UniqueLive, Live, SameScope
<1>2. row'[m] = r /\ \A n \in Mem \ {m} : row'[n] = row[n]
  BY DEF RowsOK
<1>3. CASE p = m
  BY <1>1, <1>2, <1>3 DEF Taken, Live, SameScope
<1>4. CASE q = m
  BY <1>1, <1>2, <1>4 DEF Taken, Live, SameScope
<1>5. CASE p # m /\ q # m
  BY <1>1, <1>2, <1>5 DEF UniqueLive, Live, SameScope
<1>. QED BY <1>3, <1>4, <1>5

\* Rows keep their contents and none comes alive.
LEMMA NoneComesAlive ==
  ASSUME UniqueLive, scoped' = scoped,
         \A m \in Mem : row'[m].state = "live" =>
            row[m].state = "live" /\ row'[m].content = row[m].content
  PROVE  UniqueLive'
  BY DEF UniqueLive, Live, SameScope

LEMMA UniqueStep ==
  ASSUME RowsOK, UniqueLive, [Next]_vars
  PROVE  UniqueLive'
<1>1. \A m \in Mem : row[m] \in Rows
  BY DEF RowsOK
<1>2. CASE UNCHANGED <<scoped, row, edits>>
  BY <1>2, NoneComesAlive
<1>3. ASSUME NEW m \in Mem, NEW c \in Contents,
             Remembers(m, c) \/ Replaces(m, c)
      PROVE  UniqueLive'
  <2>1. ~Taken(m, c)
    BY <1>3 DEF Remembers, Replaces, Taken
  <2>2. PICK version : row' = [row EXCEPT ![m] = Row("live", c, version, 0)]
    BY <1>3 DEF Remembers, Replaces
  <2>3. scoped' = scoped
    BY <1>3 DEF Remembers, Replaces
  <2>4. Row("live", c, version, 0).content = c
    BY RowFields
  <2>. QED BY <2>1, <2>2, <2>3, <2>4, OneRowStaysUnique
<1>4. ASSUME NEW m \in Mem, ModifyMetadata(m) PROVE UniqueLive'
  <2>1. \A n \in Mem : /\ row'[n].state = row[n].state
                       /\ row'[n].content = row[n].content
    BY <1>1, <1>4 DEF ModifyMetadata, RowsOK, Rows
  <2>. QED BY <1>4, <2>1, NoneComesAlive DEF ModifyMetadata
<1>5. ASSUME NEW m \in Mem, ForgetMemory(m) \/ ForgetQuietly(m)
      PROVE  UniqueLive'
  <2>1. PICK c, version : row' = [row EXCEPT ![m] = Row("deleted", c, version, 0)]
    BY <1>5 DEF ForgetMemory, ForgetQuietly
  <2>2. scoped' = scoped
    BY <1>5 DEF ForgetMemory, ForgetQuietly
  <2>3. Row("deleted", c, version, 0).state = "deleted"
    BY RowFields
  <2>. QED BY <2>1, <2>2, <2>3, OneRowStaysUnique
<1>6. ASSUME NEW m \in Mem, RecoverMemory(m) PROVE UniqueLive'
  <2>1. PICK version :
          row' = [row EXCEPT ![m] = Row("live", row[m].content, version, 0)]
    BY <1>6 DEF RecoverMemory
  <2>2. scoped' = scoped /\ ~Taken(m, row[m].content)
    BY <1>6 DEF RecoverMemory
  <2>3. Row("live", row[m].content, version, 0).content = row[m].content
    BY RowFields
  <2>. QED BY <2>1, <2>2, <2>3, OneRowStaysUnique
<1>7. CASE PurgeTombstones
  <2>1. \A m \in Mem : row'[m] = row[m] \/ row'[m] = Row("purged", None, 0, 0)
    BY <1>7 DEF PurgeTombstones
  <2>2. Row("purged", None, 0, 0).state = "purged"
    BY RowFields
  <2>. QED BY <1>7, <2>1, <2>2, NoneComesAlive DEF PurgeTombstones
<1>8. CASE Elapse
  <2>1. \A m \in Mem : /\ row'[m].state = row[m].state
                       /\ row'[m].content = row[m].content
    BY <1>1, <1>8 DEF Elapse, Rows
  <2>. QED BY <1>8, <2>1, NoneComesAlive DEF Elapse
<1>. QED BY <1>2, <1>3, <1>4, <1>5, <1>6, <1>7, <1>8, RowCases

LEMMA VersionStep ==
  ASSUME RowsOK, [Next]_vars, NEW m \in Mem,
         row[m].state \in {"live", "deleted"}
  PROVE  \/ row'[m].state = "purged"
         \/ row'[m].version > row[m].version
         \/ /\ row'[m].version = row[m].version
            /\ row'[m].content = row[m].content
<1>1. row[m] \in Rows /\ row[m].version \in Nat
  BY DEF RowsOK, Rows
<1>2. \A n \in Mem : \A r : row' = [row EXCEPT ![n] = r] =>
        row'[m] = IF m = n THEN r ELSE row[m]
  BY DEF RowsOK
<1>3. ASSUME NEW n \in Mem, NEW c \in Contents, Remembers(n, c)
      PROVE  row'[m] = row[m]
  BY <1>2, <1>3 DEF Remembers
<1>4. ASSUME NEW n \in Mem, NEW c \in Contents, Replaces(n, c)
      PROVE  row'[m] = row[m] \/ row'[m].version = row[m].version + 1
  <2>1. row'[m] = row[m] \/ row'[m] = Row("live", c, row[m].version + 1, 0)
    BY <1>2, <1>4 DEF Replaces
  <2>. QED BY <2>1, RowFields
<1>5. ASSUME NEW n \in Mem, ModifyMetadata(n)
      PROVE  row'[m] = row[m] \/ row'[m].version = row[m].version + 1
  <2>1. row'[m] = row[m] \/ row'[m] = [row[m] EXCEPT !.version = @ + 1]
    BY <1>2, <1>5 DEF ModifyMetadata
  <2>. QED BY <1>1, <2>1 DEF Rows
<1>6. ASSUME NEW n \in Mem, ForgetMemory(n) \/ RecoverMemory(n)
      PROVE  row'[m] = row[m] \/ row'[m].version = row[m].version + 1
  <2>1. row'[m] = row[m] \/
          \E state : row'[m] = Row(state, row[m].content, row[m].version + 1, 0)
    BY <1>2, <1>6 DEF ForgetMemory, RecoverMemory
  <2>. QED BY <2>1, RowFields
<1>7. ASSUME NEW n \in Mem, ForgetQuietly(n)
      PROVE  /\ row'[m].version = row[m].version
             /\ row'[m].content = row[m].content
  <2>1. row'[m] = row[m] \/
          row'[m] = Row("deleted", row[m].content, row[m].version, 0)
    BY <1>2, <1>7 DEF ForgetQuietly
  <2>. QED BY <2>1, RowFields
<1>8. CASE PurgeTombstones
  <2>1. row'[m] = row[m] \/ row'[m] = Row("purged", None, 0, 0)
    BY <1>8 DEF PurgeTombstones
  <2>. QED BY <2>1, RowFields
<1>9. CASE Elapse
  <2>1. row'[m] = row[m] \/ row'[m] = [row[m] EXCEPT !.age = @ + 1]
    BY <1>9 DEF Elapse
  <2>. QED BY <1>1, <2>1 DEF Rows
<1>. QED BY <1>1, <1>3, <1>4, <1>5, <1>6, <1>7, <1>8, <1>9, RowCases

(***************************************************************************)
(* Answers, written one after the other                                     *)
(***************************************************************************)

\* Induction on the natural numbers, with a set for the induction hypothesis.
LEMMA SetInduction ==
  ASSUME NEW S, 0 \in S, \A n \in Nat : n \in S => n + 1 \in S
  PROVE  Nat \subseteq S
<1> DEFINE T == Nat \ S
           R == OpToRel(<, Nat)
<1>1. SUFFICES ASSUME T # {} PROVE FALSE
  OBVIOUS
<1>2. IsWellFoundedOn(R, Nat)
  BY NatLessThanWellFounded DEF OpToRel
<1>3. PICK n \in T : \A y \in T : <<y, n>> \notin R
  <2>1. T \subseteq Nat
    OBVIOUS
  <2> HIDE DEF R, T
  <2>. QED BY <1>1, <1>2, <2>1, WFMin
<1>4. \A y \in T : ~(y < n)
  BY <1>3 DEF OpToRel
<1>5. n # 0 /\ n - 1 \in Nat /\ (n - 1) + 1 = n
  OBVIOUS
<1>6. n - 1 \in S
  BY <1>4, <1>5
<1>. QED BY <1>5, <1>6

\* Every row of f is a row of e, up to its vector, or names a memory of ms.
StemsFrom(e, ms, f) ==
  \A k \in Keys : f[k] # None =>
    f[k].src \in ms \/ (e[k] # None /\ f[k].src = e[k].src)

LEMMA StemsTransitively ==
  ASSUME NEW e, NEW f, NEW g, NEW ms, NEW ns,
         StemsFrom(e, ms, f), StemsFrom(f, ns, g)
  PROVE  StemsFrom(e, ms \cup ns, g)
  BY DEF StemsFrom

LEMMA DeletedStem ==
  ASSUME NEW e \in Embs, NEW ks
  PROVE  DeleteRows(e, ks) \in Embs /\ StemsFrom(e, {}, DeleteRows(e, ks))
  BY DEF Embs, DeleteRows, StemsFrom

LEMMA DevectoredStem ==
  ASSUME NEW e \in Embs, NEW ks, \A k \in ks : e[k] # None
  PROVE  DeleteVecs(e, ks) \in Embs /\ StemsFrom(e, {}, DeleteVecs(e, ks))
  BY DEF Embs, DeleteVecs, StemsFrom

\* One row is replaced, by one of the memory or by one of the same source.
LEMMA SetStem ==
  ASSUME NEW e \in Embs, NEW k \in Keys, NEW m \in Mem,
         NEW r \in [src : Mem, vec : BOOLEAN],
         r.src = m \/ (e[k] # None /\ r.src = e[k].src)
  PROVE  [e EXCEPT ![k] = r] \in Embs /\ StemsFrom(e, {m}, [e EXCEPT ![k] = r])
<1>1. [e EXCEPT ![k] = r] \in Embs
  BY DEF Embs
<1>2. \A j \in Keys : [e EXCEPT ![k] = r][j] = IF j = k THEN r ELSE e[j]
  BY DEF Embs
<1>. QED BY <1>1, <1>2 DEF StemsFrom

\* Either upsert leaves rows of the memory it is given, and rows there were.
LEMMA UpsertStem ==
  ASSUME NEW e \in Embs, NEW r \in Mem \X Keys
  PROVE  /\ TrackerUpsert(e, r) \in Embs
         /\ StemsFrom(e, {r[1]}, TrackerUpsert(e, r))
         /\ RepairUpsert(e, r) \in Embs
         /\ StemsFrom(e, {r[1]}, RepairUpsert(e, r))
<1> DEFINE others == RowsOfSource(e, r[1]) \ {r[2]}
<1>1. \A k \in others : e[k] # None
  BY DEF RowsOfSource
<1>2. ASSUME NEW kept \in Embs, StemsFrom(e, {}, kept)
      PROVE  LET f == [kept EXCEPT ![r[2]] =
                         IF @ = None THEN [src |-> r[1], vec |-> TRUE]
                                     ELSE [@ EXCEPT !.vec = TRUE]]
             IN  f \in Embs /\ StemsFrom(e, {r[1]}, f)
  <2> DEFINE n == IF kept[r[2]] = None THEN [src |-> r[1], vec |-> TRUE]
                  ELSE [kept[r[2]] EXCEPT !.vec = TRUE]
             f == [kept EXCEPT ![r[2]] = n]
  <2>1. r[1] \in Mem /\ r[2] \in Keys
    OBVIOUS
  <2>2. /\ n \in [src : Mem, vec : BOOLEAN]
        /\ n.src = r[1] \/ (kept[r[2]] # None /\ n.src = kept[r[2]].src)
    BY <1>2, <2>1 DEF Embs
  <2> HIDE DEF n
  <2>3. f \in Embs /\ StemsFrom(kept, {r[1]}, f)
    BY <1>2, <2>1, <2>2, SetStem
  <2>4. StemsFrom(e, {} \cup {r[1]}, f)
    BY <1>2, <2>3, StemsTransitively
  <2>. QED BY <2>3, <2>4 DEF n
<1>3. /\ DeleteVecs(e, others) \in Embs
      /\ StemsFrom(e, {}, DeleteVecs(e, others))
  BY <1>1, DevectoredStem
<1>4. /\ DeleteRows(e, others) \in Embs
      /\ StemsFrom(e, {}, DeleteRows(e, others))
  BY DeletedStem
<1>. QED BY <1>2, <1>3, <1>4 DEF TrackerUpsert, RepairUpsert

\* The memories asked for.
AskedFor(asks) == {r[1] : r \in asks}

\* f[i] is what the first i answers leave, at least as long as that is typed.
Runs(step, asks, n, a, f) ==
  /\ step \in [Embs \X asks -> Embs] /\ a \in [1 .. n -> asks]
  /\ \A e \in Embs, r \in asks : StemsFrom(e, {r[1]}, step[<<e, r>>])
  /\ f[0] = emb
  /\ \A i \in 1 .. n : f[i - 1] \in Embs => f[i] = step[<<f[i - 1], a[i]>>]

\* A transaction can be thought of as the sequence of what its steps leave.
LEMMA IterationExists ==
  ASSUME emb \in Embs, NEW asks, NEW n \in Nat, NEW a \in [1 .. n -> asks],
         NEW step \in [Embs \X asks -> Embs],
         \A e \in Embs, r \in asks : StemsFrom(e, {r[1]}, step[<<e, r>>])
  PROVE  \E g : Runs(step, asks, n, a, g) /\ g \in [0 .. n -> Embs]
<1> DEFINE Upto(m) == {g \in [0 .. m -> Embs] :
             g[0] = emb /\ \A i \in 1 .. m : g[i] = step[<<g[i - 1], a[i]>>]}
           S == {m \in Nat : m <= n => Upto(m) # {}}
<1>1. 0 \in S
  <2>1. [i \in 0 .. 0 |-> emb] \in Upto(0)
    OBVIOUS
  <2>. QED BY <2>1
<1>2. ASSUME NEW m \in Nat, m \in S PROVE m + 1 \in S
  <2>1. SUFFICES ASSUME m + 1 <= n PROVE Upto(m + 1) # {}
    OBVIOUS
  <2>2. PICK g \in Upto(m) : TRUE
    BY <1>2, <2>1
  <2>3. a[m + 1] \in asks /\ g[m] \in Embs
    BY <2>1, <2>2
  <2> DEFINE h == [i \in 0 .. m + 1 |->
                     IF i = m + 1 THEN step[<<g[m], a[m + 1]>>] ELSE g[i]]
  <2>4. h \in [0 .. m + 1 -> Embs]
    BY <2>2, <2>3
  <2>5. h[0] = emb
    BY <2>2
  <2>6. ASSUME NEW i \in 1 .. m + 1 PROVE h[i] = step[<<h[i - 1], a[i]>>]
    <3>1. h[i - 1] = g[i - 1] /\ i - 1 \in 0 .. m
      OBVIOUS
    <3>2. CASE i = m + 1
      <4>1. h[i] = step[<<g[m], a[m + 1]>>]
        BY <3>2
      <4>2. m = i - 1 /\ m + 1 = i
        BY <3>2
      <4> HIDE DEF h
      <4>. QED BY <3>1, <4>1, <4>2
    <3>3. CASE i # m + 1
      <4>1. i \in 1 .. m /\ h[i] = g[i]
        BY <3>3
      <4>2. g[i] = step[<<g[i - 1], a[i]>>]
        BY <2>2, <4>1
      <4>. QED BY <3>1, <4>1, <4>2
    <3>. QED BY <3>2, <3>3
  <2>. QED BY <2>4, <2>5, <2>6
<1>3. n \in S
  <2> HIDE DEF S
  <2>. QED BY <1>1, <1>2, SetInduction
<1>4. PICK g \in Upto(n) : TRUE
  BY <1>3
<1>5. Runs(step, asks, n, a, g) /\ g \in [0 .. n -> Embs]
  BY <1>4 DEF Runs
<1>. QED BY <1>5

\* What a transaction leaves that begins with the embeddings there are and
\* writes answers one after the other.
LEMMA WrittenStem ==
  ASSUME emb \in Embs, NEW asks, asks \subseteq Mem \X Keys,
         NEW n \in Nat, NEW a, NEW step, NEW f, Runs(step, asks, n, a, f)
  PROVE  f[n] \in Embs /\ StemsFrom(emb, AskedFor(asks), f[n])
<1> DEFINE all == AskedFor(asks)
           S == {i \in Nat : i <= n => f[i] \in Embs /\ StemsFrom(emb, all, f[i])}
<1>1. 0 \in S
  BY DEF StemsFrom, Runs
<1>2. ASSUME NEW i \in Nat, i \in S PROVE i + 1 \in S
  <2>1. SUFFICES ASSUME i + 1 <= n
                 PROVE  f[i + 1] \in Embs /\ StemsFrom(emb, all, f[i + 1])
    OBVIOUS
  <2>2. f[i] \in Embs /\ StemsFrom(emb, all, f[i])
    BY <1>2, <2>1
  <2>3. a[i + 1] \in asks /\ a[i + 1][1] \in all
    BY <2>1 DEF Runs, AskedFor
  <2>4. f[i + 1] = step[<<f[i], a[i + 1]>>]
    BY <2>1, <2>2 DEF Runs
  <2>5. f[i + 1] \in Embs /\ StemsFrom(f[i], {a[i + 1][1]}, f[i + 1])
    BY <2>2, <2>3, <2>4 DEF Runs
  <2>6. StemsFrom(emb, all \cup {a[i + 1][1]}, f[i + 1])
    BY <2>2, <2>5, StemsTransitively
  <2>7. all \cup {a[i + 1][1]} = all
    BY <2>3
  <2>. QED BY <2>5, <2>6, <2>7
<1>3. n \in S
  <2> HIDE DEF S
  <2>. QED BY <1>1, <1>2, SetInduction
<1>. QED BY <1>3

\* Permutations of a finite set are sequences over it.
LEMMA AnswersAreAsked ==
  ASSUME NEW asks, IsFiniteSet(asks), NEW a \in SetToAllKPermutations(asks)
  PROVE  \E n \in Nat : a \in [1 .. n -> asks] /\ Len(a) = n
<1>1. PICK s \in SUBSET asks : a \in SetToSeqs(s)
  BY DEF SetToAllKPermutations
<1>2. Cardinality(s) \in Nat
  BY FS_Subset, FS_CardinalityType
<1>3. a \in [1 .. Cardinality(s) -> s]
  BY <1>1 DEF SetToSeqs
<1>4. a \in Seq(s) /\ Len(a) = Cardinality(s)
  BY <1>2, <1>3
<1>. QED BY <1>2, <1>3, <1>4

\* What is left when a transaction of the tracker or of the repair ends.
LEMMA AnswersWritten ==
  ASSUME emb \in Embs, NEW asks, asks \subseteq Mem \X Keys,
         IsFiniteSet(asks), NEW a \in SetToAllKPermutations(asks)
  PROVE  /\ TrackerWritten(a) \in Embs
         /\ StemsFrom(emb, AskedFor(asks), TrackerWritten(a))
         /\ RepairWritten(a) \in Embs
         /\ StemsFrom(emb, AskedFor(asks), RepairWritten(a))
<1>1. PICK n \in Nat : a \in [1 .. n -> asks] /\ Len(a) = n
  BY AnswersAreAsked
<1>2. /\ TrackerWritten(a) \in Embs
      /\ StemsFrom(emb, AskedFor(asks), TrackerWritten(a))
  <2> DEFINE step == [x \in Embs \X asks |-> TrackerUpsert(x[1], x[2])]
             body(f) == [i \in 0 .. n |->
                           IF i = 0 THEN emb ELSE TrackerUpsert(f[i - 1], a[i])]
             after == CHOOSE f : f = body(f)
  <2>1. step \in [Embs \X asks -> Embs]
    BY UpsertStem
  <2>2. \A e \in Embs, r \in asks : /\ step[<<e, r>>] = TrackerUpsert(e, r)
                                    /\ StemsFrom(e, {r[1]}, step[<<e, r>>])
    <3>1. \A e \in Embs, r \in asks : step[<<e, r>>] = TrackerUpsert(e, r)
      OBVIOUS
    <3> HIDE DEF step
    <3>. QED BY <3>1, UpsertStem
  <2> HIDE DEF step
  <2>3. PICK g : Runs(step, asks, n, a, g) /\ g \in [0 .. n -> Embs]
    BY <1>1, <2>1, <2>2, IterationExists
  <2>4. g = body(g)
    <3>1. ASSUME NEW i \in 0 .. n PROVE g[i] = body(g)[i]
      <4>1. CASE i = 0
        BY <2>3, <4>1 DEF Runs
      <4>2. CASE i # 0
        <5>1. i \in 1 .. n /\ g[i - 1] \in Embs /\ a[i] \in asks
          BY <1>1, <2>3, <4>2
        <5>. QED BY <2>2, <2>3, <4>2, <5>1 DEF Runs
      <4>. QED BY <4>1, <4>2
    <3>. QED BY <2>3, <3>1
  <2>5. after = body(after)
    <3> HIDE DEF body
    <3>. QED BY <2>4
  <2>6. TrackerWritten(a) = after[n]
    BY <1>1 DEF TrackerWritten
  <2> HIDE DEF after
  <2>7. after[0] = emb
    BY <2>5
  <2>8. ASSUME NEW i \in 1 .. n, after[i - 1] \in Embs
        PROVE  after[i] = step[<<after[i - 1], a[i]>>]
    <3>1. after[i] = TrackerUpsert(after[i - 1], a[i])
      BY <2>5
    <3>. QED BY <1>1, <2>8, <2>2, <3>1
  <2>9. Runs(step, asks, n, a, after)
    BY <1>1, <2>1, <2>2, <2>7, <2>8 DEF Runs
  <2>. QED BY <2>6, <2>9, WrittenStem
<1>3. /\ RepairWritten(a) \in Embs
      /\ StemsFrom(emb, AskedFor(asks), RepairWritten(a))
  <2> DEFINE step == [x \in Embs \X asks |-> RepairUpsert(x[1], x[2])]
             body(f) == [i \in 0 .. n |->
                           IF i = 0 THEN emb ELSE RepairUpsert(f[i - 1], a[i])]
             after == CHOOSE f : f = body(f)
  <2>1. step \in [Embs \X asks -> Embs]
    BY UpsertStem
  <2>2. \A e \in Embs, r \in asks : /\ step[<<e, r>>] = RepairUpsert(e, r)
                                    /\ StemsFrom(e, {r[1]}, step[<<e, r>>])
    <3>1. \A e \in Embs, r \in asks : step[<<e, r>>] = RepairUpsert(e, r)
      OBVIOUS
    <3> HIDE DEF step
    <3>. QED BY <3>1, UpsertStem
  <2> HIDE DEF step
  <2>3. PICK g : Runs(step, asks, n, a, g) /\ g \in [0 .. n -> Embs]
    BY <1>1, <2>1, <2>2, IterationExists
  <2>4. g = body(g)
    <3>1. ASSUME NEW i \in 0 .. n PROVE g[i] = body(g)[i]
      <4>1. CASE i = 0
        BY <2>3, <4>1 DEF Runs
      <4>2. CASE i # 0
        <5>1. i \in 1 .. n /\ g[i - 1] \in Embs /\ a[i] \in asks
          BY <1>1, <2>3, <4>2
        <5>. QED BY <2>2, <2>3, <4>2, <5>1 DEF Runs
      <4>. QED BY <4>1, <4>2
    <3>. QED BY <2>3, <3>1
  <2>5. after = body(after)
    <3> HIDE DEF body
    <3>. QED BY <2>4
  <2>6. RepairWritten(a) = after[n]
    BY <1>1 DEF RepairWritten
  <2> HIDE DEF after
  <2>7. after[0] = emb
    BY <2>5
  <2>8. ASSUME NEW i \in 1 .. n, after[i - 1] \in Embs
        PROVE  after[i] = step[<<after[i - 1], a[i]>>]
    <3>1. after[i] = RepairUpsert(after[i - 1], a[i])
      BY <2>5
    <3>. QED BY <1>1, <2>8, <2>2, <3>1
  <2>9. Runs(step, asks, n, a, after)
    BY <1>1, <2>1, <2>2, <2>7, <2>8 DEF Runs
  <2>. QED BY <2>6, <2>9, WrittenStem
<1>. QED BY <1>2, <1>3

(***************************************************************************)
(* What awaits a vector, and what has a row in the index                    *)
(***************************************************************************)

\* Live, or deleted since a day last went by.
Recent(m) ==
  row[m].state = "live" \/ (row[m].state = "deleted" /\ row[m].age = 0)

\* What a cycle or a repair awaits.
BatchOK(asks) ==
  /\ asks \subseteq Mem \X Keys /\ IsFiniteSet(asks)
  /\ \A r \in asks : Recent(r[1])

AwaitOK ==
  /\ asked \in [Mem -> Keys \cup {None}]
  /\ \A m \in Mem : asked[m] # None => Recent(m)
  /\ BatchOK(batch) /\ BatchOK(repair)

\* Between its transactions the sweep has left no row of an expired memory.
SweepOK ==
  /\ sweeping \in BOOLEAN
  /\ sweeping => \A k \in Keys : emb[k] # None => ~Expired(emb[k].src)

LEMMA KeyTyped ==
  ASSUME NEW c \in Contents
  PROVE  PlainKey(c) \in Keys /\ \A m : RememberKey(m, c) \in Keys
  BY DEF PlainKey, RememberKey, Keys

LEMMA RecentStays ==
  ASSUME RowsOK, [Next]_vars, ~Elapse, NEW m \in Mem, Recent(m)
  PROVE  Recent(m)'
<1>1. row[m] \in Rows
  BY DEF RowsOK
<1>2. CASE UNCHANGED <<scoped, row, edits>>
  BY <1>2 DEF Recent
<1>3. ASSUME NEW n \in Mem, NEW c \in Contents, Remembers(n, c) \/ Replaces(n, c)
      PROVE  Recent(m)'
  <2>1. PICK version : row' = [row EXCEPT ![n] = Row("live", c, version, 0)]
    BY <1>3 DEF Remembers, Replaces
  <2>2. row'[m] = row[m] \/ row'[m] = Row("live", c, version, 0)
    BY <2>1 DEF RowsOK
  <2>. QED BY <2>1, <2>2, RowFields DEF Recent
<1>4. ASSUME NEW n \in Mem, ModifyMetadata(n) PROVE Recent(m)'
  <2>1. row'[m] = row[m] \/ row'[m] = [row[m] EXCEPT !.version = @ + 1]
    BY <1>4 DEF ModifyMetadata, RowsOK
  <2>. QED BY <1>1, <2>1 DEF Recent, Rows
<1>5. ASSUME NEW n \in Mem,
             ForgetMemory(n) \/ ForgetQuietly(n) \/ RecoverMemory(n)
      PROVE  Recent(m)'
  <2>1. PICK state, c, version :
          /\ state \in {"live", "deleted"}
          /\ row' = [row EXCEPT ![n] = Row(state, c, version, 0)]
    BY <1>5 DEF ForgetMemory, ForgetQuietly, RecoverMemory
  <2>2. row'[m] = row[m] \/ row'[m] = Row(state, c, version, 0)
    BY <2>1 DEF RowsOK
  <2>. QED BY <2>1, <2>2, RowFields DEF Recent
<1>6. CASE PurgeTombstones
  <2>1. ~Expired(m)
    BY <1>1, IndexAssumption DEF Recent, Expired, Rows
  <2>2. row'[m] = row[m]
    BY <1>6, <2>1 DEF PurgeTombstones
  <2>. QED BY <2>2 DEF Recent
<1>. QED BY <1>2, <1>3, <1>4, <1>5, <1>6, RowCases

LEMMA PurgedBySweep ==
  ASSUME RowsOK, [Next]_vars, NEW m \in Mem, row'[m].state = "purged"
  PROVE  row[m].state = "purged" \/ (sweeping /\ Expired(m))
<1>1. row[m] \in Rows
  BY DEF RowsOK
<1>2. CASE UNCHANGED <<scoped, row, edits>>
  BY <1>2
<1>3. ASSUME NEW n \in Mem, NEW c \in Contents, Remembers(n, c) \/ Replaces(n, c)
      PROVE  row'[m] = row[m]
  <2>1. PICK version : row' = [row EXCEPT ![n] = Row("live", c, version, 0)]
    BY <1>3 DEF Remembers, Replaces
  <2>2. row'[m] = row[m] \/ row'[m] = Row("live", c, version, 0)
    BY <2>1 DEF RowsOK
  <2>. QED BY <2>1, <2>2, RowFields
<1>4. ASSUME NEW n \in Mem, ModifyMetadata(n) PROVE row[m].state = "purged"
  <2>1. row'[m] = row[m] \/ row'[m] = [row[m] EXCEPT !.version = @ + 1]
    BY <1>4 DEF ModifyMetadata, RowsOK
  <2>. QED BY <1>1, <2>1 DEF Rows
<1>5. ASSUME NEW n \in Mem,
             ForgetMemory(n) \/ ForgetQuietly(n) \/ RecoverMemory(n)
      PROVE  row'[m] = row[m]
  <2>1. PICK state, c, version :
          /\ state \in {"live", "deleted"}
          /\ row' = [row EXCEPT ![n] = Row(state, c, version, 0)]
    BY <1>5 DEF ForgetMemory, ForgetQuietly, RecoverMemory
  <2>2. row'[m] = row[m] \/ row'[m] = Row(state, c, version, 0)
    BY <2>1 DEF RowsOK
  <2>. QED BY <2>1, <2>2, RowFields
<1>6. CASE PurgeTombstones
  BY <1>6 DEF PurgeTombstones
<1>7. CASE Elapse
  <2>1. row'[m] = row[m] \/ row'[m] = [row[m] EXCEPT !.age = @ + 1]
    BY <1>7 DEF Elapse
  <2>. QED BY <1>1, <2>1 DEF Rows
<1>. QED BY <1>2, <1>3, <1>4, <1>5, <1>6, <1>7, RowCases

\* What a query of live memories asks for.
LEMMA QueryOK ==
  ASSUME RowsOK, NEW ms, ms \subseteq Mem, \A m \in ms : Live(m)
  PROVE  BatchOK({<<m, Key(m)>> : m \in ms})
<1> DEFINE asks == {<<m, Key(m)>> : m \in ms}
           f == [m \in ms |-> <<m, Key(m)>>]
<1>1. \A m \in ms : Key(m) \in Keys
  BY KeyTyped DEF Key, RowsOK, Live
<1>2. IsFiniteSet(ms)
  BY FS_Subset, IndexAssumption
<1>3. f \in Surjection(ms, asks)
  BY DEF Surjection
<1>4. IsFiniteSet(asks)
  <2> HIDE DEF f, asks
  <2>. QED BY <1>2, <1>3, FS_Surjection
<1>. QED BY <1>1, <1>4 DEF BatchOK, Recent, Live

\* The steps that change what is awaited.
LEMMA AwaitCases ==
  ASSUME [Next]_vars
  PROVE  \/ UNCHANGED <<asked, batch, repair>>
         \/ \E m \in Mem, c \in Contents : Remember(m, c)
         \/ \E m \in Mem : EmbedRemembered(m) \/ EmbedFails(m)
         \/ TrackerQuery \/ Crash
         \/ \E ms \in SUBSET {m \in Mem : Unembedded(m)} : RepairQuery(ms)
         \/ \E a \in SetToAllKPermutations(batch) : TrackerWrite(a)
         \/ \E a \in SetToAllKPermutations(repair) : RepairWrite(a)
<1>1. ASSUME NEW m \in Mem, NEW c \in Contents, InsertFact(m, c)
      PROVE  UNCHANGED <<asked, batch, repair>>
  BY <1>1 DEF InsertFact
<1>2. ASSUME NEW m \in Mem, NEW c \in Contents, NEW vector \in BOOLEAN,
             ModifyMemory(m, c, vector)
      PROVE  UNCHANGED <<asked, batch, repair>>
  BY <1>2 DEF ModifyMemory
<1>3. ASSUME NEW m \in Mem,
             \/ ModifyMetadata(m) \/ ForgetMemory(m)
             \/ ForgetQuietly(m) \/ RecoverMemory(m)
      PROVE  UNCHANGED <<asked, batch, repair>>
  BY <1>3 DEF ModifyMetadata, ForgetMemory, ForgetQuietly, RecoverMemory
<1>4. CASE CleanOrphanedEmbeddings \/ ResyncVectorIndex \/ PurgeEmbeddings
           \/ PurgeTombstones \/ Elapse \/ UNCHANGED vars
  BY <1>4 DEF CleanOrphanedEmbeddings, ResyncVectorIndex, PurgeEmbeddings,
     PurgeTombstones, Elapse, vars
<1>. QED BY <1>1, <1>2, <1>3, <1>4 DEF Next

LEMMA AwaitStep ==
  ASSUME RowsOK, AwaitOK, [Next]_vars
  PROVE  AwaitOK'
<1>1. CASE Elapse
  BY <1>1 DEF Elapse, AwaitOK, BatchOK
<1>2. CASE ~Elapse
  <2>1. \A m \in Mem : Recent(m) => Recent(m)'
    BY <1>2, RecentStays
  <2>2. \A asks : BatchOK(asks) =>
          /\ asks \subseteq Mem \X Keys /\ IsFiniteSet(asks)
          /\ \A r \in asks : Recent(r[1])'
    BY <2>1 DEF BatchOK
  <2>3. BatchOK({})
    BY FS_EmptySet DEF BatchOK
  <2>4. CASE UNCHANGED <<asked, batch, repair>>
    BY <2>1, <2>2, <2>4 DEF AwaitOK, BatchOK
  <2>5. ASSUME NEW m \in Mem, NEW c \in Contents, Remember(m, c)
        PROVE  AwaitOK'
    <3>1. asked' \in [Mem -> Keys \cup {None}]
      BY <2>5, KeyTyped DEF Remember, AwaitOK
    <3>2. row'[m].state = "live"
      BY <2>5, RowFields DEF Remember, RowsOK
    <3>3. \A n \in Mem : asked'[n] # None => Recent(n)'
      BY <2>1, <2>5, <3>2 DEF Remember, AwaitOK, Recent
    <3>. QED BY <2>2, <2>5, <3>1, <3>3 DEF Remember, AwaitOK, BatchOK
  <2>6. ASSUME NEW m \in Mem, EmbedRemembered(m) \/ EmbedFails(m)
        PROVE  AwaitOK'
    <3>1. asked' = [asked EXCEPT ![m] = None] /\ batch' = batch
          /\ repair' = repair
      BY <2>6 DEF EmbedRemembered, EmbedFails
    <3>. QED BY <2>1, <2>2, <3>1 DEF AwaitOK, BatchOK
  <2>7. CASE TrackerQuery
    <3>1. BatchOK(batch')
      BY <2>7, QueryOK DEF TrackerQuery, Latest, Stale
    <3>. QED BY <2>1, <2>2, <2>7, <3>1 DEF TrackerQuery, AwaitOK, BatchOK
  <2>8. ASSUME NEW ms \in SUBSET {m \in Mem : Unembedded(m)}, RepairQuery(ms)
        PROVE  AwaitOK'
    <3>1. BatchOK(repair')
      BY <2>8, QueryOK DEF RepairQuery, Unembedded
    <3>. QED BY <2>1, <2>2, <2>8, <3>1 DEF RepairQuery, AwaitOK, BatchOK
  <2>9. CASE Crash
    BY <2>2, <2>3, <2>9 DEF Crash, AwaitOK, BatchOK
  <2>10. ASSUME NEW a, TrackerWrite(a) \/ RepairWrite(a) PROVE AwaitOK'
    <3>1. /\ asked' = asked
          /\ batch' = {} \/ batch' = batch
          /\ repair' = {} \/ repair' = repair
      BY <2>10 DEF TrackerWrite, RepairWrite
    <3>. QED BY <2>1, <2>2, <2>3, <3>1 DEF AwaitOK, BatchOK
  <2>. QED BY <2>4, <2>5, <2>6, <2>7, <2>8, <2>9, <2>10, AwaitCases
<1>. QED BY <1>1, <1>2

\* The steps that change the index.
LEMMA EmbCases ==
  ASSUME [Next]_vars
  PROVE  \/ emb' = emb
         \/ \E ks : emb' = DeleteRows(emb, ks)
         \/ \E m \in Mem : EmbedRemembered(m)
         \/ \E m \in Mem, c \in Contents : InsertFact(m, c)
         \/ \E m \in Mem, c \in Contents, vector \in BOOLEAN :
              ModifyMemory(m, c, vector)
         \/ \E a \in SetToAllKPermutations(batch) : TrackerWrite(a)
         \/ \E a \in SetToAllKPermutations(repair) : RepairWrite(a)
         \/ ResyncVectorIndex
<1>1. ASSUME NEW m \in Mem, NEW c \in Contents, Remember(m, c)
      PROVE  emb' = emb
  BY <1>1 DEF Remember
<1>2. ASSUME NEW m \in Mem,
             \/ EmbedFails(m) \/ ModifyMetadata(m) \/ ForgetMemory(m)
             \/ ForgetQuietly(m) \/ RecoverMemory(m)
      PROVE  emb' = emb
  BY <1>2 DEF EmbedFails, ModifyMetadata, ForgetMemory, ForgetQuietly,
     RecoverMemory
<1>3. CASE TrackerQuery \/ PurgeTombstones \/ Elapse \/ Crash
           \/ UNCHANGED vars \/ \E ms : RepairQuery(ms)
  BY <1>3 DEF TrackerQuery, RepairQuery, PurgeTombstones, Elapse, Crash, vars
<1>4. CASE CleanOrphanedEmbeddings \/ PurgeEmbeddings
  BY <1>4 DEF CleanOrphanedEmbeddings, PurgeEmbeddings
<1>. QED BY <1>1, <1>2, <1>3, <1>4 DEF Next

\* Every row of the index was there, with its source, or its source is recent.
LEMMA EmbsStep ==
  ASSUME RowsOK, AwaitOK, emb \in Embs, [Next]_vars
  PROVE  emb' \in Embs /\ StemsFrom(emb, {m \in Mem : Recent(m)'}, emb')
<1> DEFINE recent == {m \in Mem : Recent(m)'}
<1>1. \A e, ms, f : StemsFrom(e, ms, f) /\ ms \subseteq recent
                      => StemsFrom(e, recent, f)
  BY DEF StemsFrom
<1>2. CASE emb' = emb
  BY <1>2 DEF StemsFrom
<1>3. ASSUME NEW ks, emb' = DeleteRows(emb, ks)
      PROVE  emb' \in Embs /\ StemsFrom(emb, recent, emb')
  BY <1>1, <1>3, DeletedStem
<1>4. ASSUME NEW m \in Mem, EmbedRemembered(m)
      PROVE  emb' \in Embs /\ StemsFrom(emb, recent, emb')
  <2> DEFINE e == DeleteRows(emb, RowsOfSource(emb, m))
             r == [src |-> m, vec |-> TRUE]
  <2>1. asked[m] \in Keys /\ m \in recent
    BY <1>4 DEF EmbedRemembered, AwaitOK, Recent
  <2>2. e \in Embs /\ StemsFrom(emb, {}, e)
    BY DeletedStem
  <2>3. r \in [src : Mem, vec : BOOLEAN] /\ r.src = m
    OBVIOUS
  <2>4. emb' = [e EXCEPT ![asked[m]] = r] \/ emb' = emb
    BY <1>4 DEF EmbedRemembered
  <2> HIDE DEF e, r
  <2>5. CASE emb' = [e EXCEPT ![asked[m]] = r]
    <3>1. emb' \in Embs /\ StemsFrom(e, {m}, emb')
      BY <2>1, <2>2, <2>3, <2>5, SetStem
    <3>2. StemsFrom(emb, {} \cup {m}, emb')
      BY <2>2, <3>1, StemsTransitively
    <3>. QED BY <1>1, <2>1, <3>1, <3>2
  <2>. QED BY <1>2, <2>4, <2>5 DEF StemsFrom
<1>5. ASSUME NEW m \in Mem, NEW c \in Contents, InsertFact(m, c)
      PROVE  emb' \in Embs /\ StemsFrom(emb, recent, emb')
  <2> DEFINE e == DeleteRows(emb, RowsOfSource(emb, m) \ {PlainKey(c)})
             r == [src |-> m, vec |-> TRUE]
  <2>1. m \in recent
    BY <1>5, RowFields DEF InsertFact, RowsOK, Recent
  <2>2. e \in Embs /\ StemsFrom(emb, {}, e)
    BY DeletedStem
  <2>3. r \in [src : Mem, vec : BOOLEAN] /\ r.src = m
    OBVIOUS
  <2>4. emb' = [e EXCEPT ![PlainKey(c)] = r]
    BY <1>5 DEF InsertFact, TakeOver
  <2> HIDE DEF e, r
  <2>5. emb' \in Embs /\ StemsFrom(e, {m}, emb')
    BY <2>2, <2>3, <2>4, SetStem, KeyTyped
  <2>6. StemsFrom(emb, {} \cup {m}, emb')
    BY <2>2, <2>5, StemsTransitively
  <2>. QED BY <1>1, <2>1, <2>5, <2>6
<1>6. ASSUME NEW m \in Mem, NEW c \in Contents, NEW vector \in BOOLEAN,
             ModifyMemory(m, c, vector)
      PROVE  emb' \in Embs /\ StemsFrom(emb, recent, emb')
  <2> DEFINE k == PlainKey(c)
             e == DeleteRows(emb, RowsOfSource(emb, m) \ {k})
             r == IF e[k] = None THEN [src |-> m, vec |-> TRUE]
                  ELSE [e[k] EXCEPT !.src = m]
  <2>1. m \in recent
    BY <1>6, RowFields DEF ModifyMemory, ReplaceContent, RowsOK, Recent
  <2>2. e \in Embs /\ StemsFrom(emb, {}, e)
    BY DeletedStem
  <2>3. k \in Keys
    BY KeyTyped
  <2>4. emb' = e \/ emb' = [e EXCEPT ![k] = r]
    BY <1>6 DEF ModifyMemory, ReplaceContent
  <2> HIDE DEF e, k
  <2>5. r \in [src : Mem, vec : BOOLEAN] /\ r.src = m
    BY <2>2, <2>3 DEF Embs
  <2> HIDE DEF r
  <2>6. CASE emb' = e
    BY <1>1, <2>2, <2>6
  <2>7. CASE emb' = [e EXCEPT ![k] = r]
    <3>1. emb' \in Embs /\ StemsFrom(e, {m}, emb')
      BY <2>2, <2>3, <2>5, <2>7, SetStem
    <3>2. StemsFrom(emb, {} \cup {m}, emb')
      BY <2>2, <3>1, StemsTransitively
    <3>. QED BY <1>1, <2>1, <3>1, <3>2
  <2>. QED BY <2>4, <2>6, <2>7
<1>7. ASSUME NEW asks, BatchOK(asks), NEW a \in SetToAllKPermutations(asks),
             row' = row, emb' = TrackerWritten(a) \/ emb' = RepairWritten(a)
      PROVE  emb' \in Embs /\ StemsFrom(emb, recent, emb')
  <2>1. AskedFor(asks) \subseteq recent
    BY <1>7 DEF AskedFor, BatchOK, Recent
  <2>2. emb' \in Embs /\ StemsFrom(emb, AskedFor(asks), emb')
    BY <1>7, AnswersWritten DEF BatchOK
  <2>. QED BY <1>1, <2>1, <2>2
<1>8. ASSUME NEW a \in SetToAllKPermutations(batch), TrackerWrite(a)
      PROVE  emb' \in Embs /\ StemsFrom(emb, recent, emb')
  BY <1>7, <1>8 DEF TrackerWrite, AwaitOK
<1>9. ASSUME NEW a \in SetToAllKPermutations(repair), RepairWrite(a)
      PROVE  emb' \in Embs /\ StemsFrom(emb, recent, emb')
  BY <1>7, <1>9 DEF RepairWrite, AwaitOK
<1>10. CASE ResyncVectorIndex
  BY <1>10 DEF ResyncVectorIndex, Embs, StemsFrom
<1>. QED
  BY <1>2, <1>3, <1>4, <1>5, <1>6, <1>8, <1>9, <1>10, EmbCases

\* A sweep begins, goes on, or ends.
LEMMA SweepCases ==
  ASSUME [Next]_vars
  PROVE  sweeping' = FALSE \/ (~sweeping /\ sweeping' = sweeping)
           \/ PurgeEmbeddings \/ UNCHANGED vars
  BY DEF Next, EmbedRemembered, EmbedFails, ModifyMetadata, ForgetMemory,
     ForgetQuietly, RecoverMemory, Remember, InsertFact, ModifyMemory,
     TrackerQuery, TrackerWrite, RepairQuery, RepairWrite,
     CleanOrphanedEmbeddings, ResyncVectorIndex, PurgeTombstones, Elapse, Crash

LEMMA SweepStep ==
  ASSUME RowsOK, emb \in Embs, SweepOK, [Next]_vars
  PROVE  SweepOK'
<1>1. CASE sweeping' = FALSE
  BY <1>1 DEF SweepOK
<1>2. CASE ~sweeping /\ sweeping' = sweeping
  BY <1>2 DEF SweepOK
<1>3. CASE PurgeEmbeddings
  <2> DEFINE ks == UNION {RowsOfSource(emb, m) : m \in {n \in Mem : Expired(n)}}
  <2>1. emb' = DeleteRows(emb, ks) /\ row' = row /\ sweeping' = TRUE
    BY <1>3 DEF PurgeEmbeddings
  <2>2. ASSUME NEW k \in Keys, emb'[k] # None PROVE ~Expired(emb'[k].src)
    <3>1. k \notin ks /\ emb'[k] = emb[k]
      BY <2>1, <2>2 DEF DeleteRows
    <3>2. emb[k].src \in Mem
      BY <2>2, <3>1 DEF Embs
    <3>. QED BY <2>2, <3>1, <3>2 DEF RowsOfSource
  <2>. QED BY <2>1, <2>2 DEF SweepOK, Expired
<1>4. CASE UNCHANGED vars
  BY <1>4 DEF vars, SweepOK, Expired
<1>. QED BY <1>1, <1>2, <1>3, <1>4, SweepCases

LEMMA NoneOfPurgedStep ==
  ASSUME RowsOK, AwaitOK, emb \in Embs, SweepOK, NoEmbeddingOfPurged,
         [Next]_vars
  PROVE  NoEmbeddingOfPurged'
<1>1. SUFFICES ASSUME NEW k \in Keys, emb'[k] # None,
                      row'[emb'[k].src].state = "purged"
               PROVE  FALSE
  BY DEF NoEmbeddingOfPurged
<1>2. StemsFrom(emb, {m \in Mem : Recent(m)'}, emb')
  BY EmbsStep
<1>3. CASE emb'[k].src \in {m \in Mem : Recent(m)'}
  BY <1>1, <1>3 DEF Recent
<1>4. CASE emb[k] # None /\ emb'[k].src = emb[k].src
  <2>1. emb[k].src \in Mem
    BY <1>4 DEF Embs
  <2>2. row[emb[k].src].state = "purged" \/ (sweeping /\ Expired(emb[k].src))
    BY <1>1, <1>4, <2>1, PurgedBySweep
  <2>. QED BY <1>4, <2>2 DEF NoEmbeddingOfPurged, SweepOK
<1>. QED BY <1>1, <1>2, <1>3, <1>4 DEF StemsFrom

(***************************************************************************)
(* The invariant, and what it implies                                       *)
(***************************************************************************)

IndexInv ==
  /\ scoped \in Scopings
  /\ newer \subseteq Mem \X Mem
  /\ RowsOK /\ Counters
  /\ emb \in Embs
  /\ AwaitOK /\ SweepOK
  /\ UniqueLive
  /\ NoEmbeddingOfPurged

LEMMA InitIndex == Init => IndexInv
<1> SUFFICES ASSUME Init PROVE IndexInv
  OBVIOUS
<1>1. RowsOK /\ Counters
  BY RowsInit
<1>2. emb \in Embs /\ \A k \in Keys : emb[k] = None
  BY DEF Init, Embs
<1>3. AwaitOK
  BY FS_EmptySet DEF Init, AwaitOK, BatchOK
<1>4. SweepOK
  BY DEF Init, SweepOK
<1>5. \A m \in Mem : row[m].state = "absent"
  BY RowFields DEF Init
<1>6. scoped \in Scopings /\ newer \subseteq Mem \X Mem
  BY DEF Init
<1>. QED BY <1>1, <1>2, <1>3, <1>4, <1>5, <1>6
         DEF IndexInv, UniqueLive, Live, NoEmbeddingOfPurged

\* A step touches one memory or none.
LEMMA NewerStep ==
  ASSUME newer \subseteq Mem \X Mem, [Next]_vars
  PROVE  newer' \subseteq Mem \X Mem
<1>1. ASSUME NEW m \in Mem, Touch(m) PROVE newer' \subseteq Mem \X Mem
  BY <1>1 DEF Touch
<1>2. newer' = newer \/ \E m \in Mem : Touch(m)
  BY DEF Next, EmbedRemembered, EmbedFails, ModifyMetadata, ForgetMemory,
     ForgetQuietly, RecoverMemory, Remember, InsertFact, ModifyMemory,
     TrackerQuery, TrackerWrite, RepairQuery, RepairWrite, PurgeEmbeddings,
     CleanOrphanedEmbeddings, ResyncVectorIndex, PurgeTombstones, Elapse,
     Crash, vars
<1>. QED BY <1>1, <1>2

LEMMA StepIndex == IndexInv /\ [Next]_vars => IndexInv'
<1> SUFFICES ASSUME IndexInv, [Next]_vars PROVE IndexInv'
  OBVIOUS
<1>1. /\ scoped \in Scopings /\ newer \subseteq Mem \X Mem
      /\ RowsOK /\ Counters /\ emb \in Embs /\ AwaitOK
      /\ SweepOK /\ UniqueLive /\ NoEmbeddingOfPurged
  BY DEF IndexInv
<1>2. scoped' = scoped
  BY RowCases DEF Remembers, Replaces, ModifyMetadata, ForgetMemory,
     ForgetQuietly, RecoverMemory, PurgeTombstones, Elapse
<1>3. RowsOK' /\ Counters'
  BY <1>1, RowsStep
<1>4. emb' \in Embs
  BY <1>1, EmbsStep
<1>5. AwaitOK'
  BY <1>1, AwaitStep
<1>6. SweepOK'
  BY <1>1, SweepStep
<1>7. UniqueLive'
  BY <1>1, UniqueStep
<1>8. NoEmbeddingOfPurged'
  BY <1>1, NoneOfPurgedStep
<1>9. newer' \subseteq Mem \X Mem
  BY <1>1, NewerStep
<1>. QED BY <1>1, <1>2, <1>3, <1>4, <1>5, <1>6, <1>7, <1>8, <1>9 DEF IndexInv

LEMMA IndexAlways == Spec => []IndexInv
  BY InitIndex, StepIndex, PTL DEF Spec

\* Rows, index and requests stay typed: a version is never ahead of the edits
\* there were, and a tombstone no older than the day it is purged.
THEOREM TypeCorrect == Spec => []TypeOK
<1>1. ASSUME IndexInv PROVE TypeOK
  <2>1. /\ scoped \subseteq Mem /\ newer \subseteq Mem \X Mem
        /\ RowsOK /\ Counters /\ emb \in Embs
        /\ AwaitOK /\ SweepOK
    BY <1>1, IndexAssumption DEF IndexInv
  <2> DEFINE Bounded == [state : {"absent", "live", "deleted", "purged"},
                         content : Contents \cup {None},
                         version : 0 .. MaxEdits + 1,
                         age : 0 .. TombstoneRetention + 1]
  <2>2. ASSUME NEW m \in Mem PROVE row[m] \in Bounded
    <3>1. row[m] \in Rows
      BY <2>1 DEF RowsOK
    <3>2. /\ row[m].version <= edits + 1 /\ edits <= MaxEdits
          /\ row[m].age <= TombstoneRetention + 1
      BY <2>1 DEF RowsOK, Counters
    <3>3. row[m].version \in 0 .. MaxEdits + 1
      BY <2>1, <3>1, <3>2, IndexAssumption DEF Counters, Rows
    <3>4. row[m].age \in 0 .. TombstoneRetention + 1
      BY <3>1, <3>2, IndexAssumption DEF Rows
    <3>. QED BY <3>1, <3>3, <3>4 DEF Rows
  <2>3. row \in [Mem -> Bounded]
    <3> HIDE DEF Bounded
    <3>. QED BY <2>1, <2>2 DEF RowsOK
  <2>4. edits \in 0 .. MaxEdits
    BY <2>1, IndexAssumption DEF Counters
  <2>. QED BY <2>1, <2>3, <2>4 DEF TypeOK, Embs, AwaitOK, BatchOK, SweepOK
<1>. QED BY <1>1, IndexAlways, PTL

\* For any number of memories, contents and edits, no two live memories of one
\* scope have the same content.
THEOREM LiveStayUnique == Spec => []UniqueLive
<1>1. IndexInv => UniqueLive
  BY DEF IndexInv
<1>. QED BY <1>1, IndexAlways, PTL

\* Whatever requests, cycles and repairs await while memories are deleted and
\* purged, and wherever the daemon dies, no row of the index names a purged
\* memory.
THEOREM NoneOfPurged == Spec => []NoEmbeddingOfPurged
<1>1. IndexInv => NoEmbeddingOfPurged
  BY DEF IndexInv
<1>. QED BY <1>1, IndexAlways, PTL

\* A content is never changed under its version.
THEOREM VersionsName == Spec => VersionNamesContent
<1>1. ASSUME IndexInv, [Next]_vars
      PROVE  [\A m \in Mem : row[m].state \in {"live", "deleted"} =>
                \/ row'[m].state = "purged"
                \/ row'[m].version > row[m].version
                \/ /\ row'[m].version = row[m].version
                   /\ row'[m].content = row[m].content]_vars
  BY <1>1, VersionStep DEF IndexInv
<1>. QED BY <1>1, IndexAlways, PTL DEF Spec, VersionNamesContent
=============================================================================
