-------------------------- MODULE EntityGraphProofs --------------------------
(***************************************************************************)
(* For any memories, names, skills and chunk groups, and without a bound on *)
(* the batch of a sweep: the counts cover the links, nothing dangles, and   *)
(* the sweep deletes no entity that is still mentioned.                     *)
(***************************************************************************)
EXTENDS EntityGraph, FiniteSetTheorems, TLAPS

\* CountsCoverLinks and the links' half of NoDangling, entity by entity, with
\* what Cardinality needs to mean anything: the sources are finitely many.
CountOK(e) ==
  IF Exists(e)
    THEN /\ IsFiniteSet(SourcesOf(e))
         /\ Cardinality(SourcesOf(e)) <= entity[e].mentions
    ELSE SourcesOf(e) = {}

EndsOK == \A r \in relations : Exists(r[1]) /\ Exists(r[2])

GraphOK == EndsOK /\ \A e \in Names : CountOK(e)

Inv == TypeOK /\ GraphOK

GraphTyped ==
  /\ entity \in [Entities -> EntityRows \cup {None}]
  /\ links \subseteq Sources \X Entities
  /\ relations \subseteq Names \X Names

-----------------------------------------------------------------------------
(* Sets that gain at most one element, or lose some.                       *)

LEMMA GainOne ==
  ASSUME NEW S, NEW x, NEW T \in SUBSET (S \cup {x}), IsFiniteSet(S),
         NEW n \in Nat, NEW k \in Nat, k > 0, Cardinality(S) <= n
  PROVE  IsFiniteSet(T) /\ Cardinality(T) <= n + k
<1>1. IsFiniteSet(S \cup {x}) /\ Cardinality(S \cup {x}) <= Cardinality(S) + 1
  <2>1. Cardinality(S) \in Nat
    BY FS_CardinalityType
  <2> QED
    BY <2>1, FS_AddElement
<1>2. IsFiniteSet(T) /\ Cardinality(T) <= Cardinality(S \cup {x})
  BY <1>1, FS_Subset
<1>3. /\ Cardinality(S) \in Nat /\ Cardinality(T) \in Nat
      /\ Cardinality(S \cup {x}) \in Nat
  BY <1>1, <1>2, FS_CardinalityType
<1> QED
  BY <1>1, <1>2, <1>3

LEMMA LoseSome ==
  ASSUME NEW S, NEW T \in SUBSET S, IsFiniteSet(S),
         NEW n \in Nat, Cardinality(S) <= n
  PROVE  /\ IsFiniteSet(T) /\ Cardinality(T) <= n
         /\ T # S => n > 0 /\ Cardinality(T) <= n - 1
<1>1. /\ IsFiniteSet(T) /\ Cardinality(T) <= Cardinality(S)
      /\ Cardinality(S) = Cardinality(T) => S = T
  BY FS_Subset
<1>2. Cardinality(S) \in Nat /\ Cardinality(T) \in Nat
  BY <1>1, FS_CardinalityType
<1> QED
  BY <1>1, <1>2

LEMMA TimesCount ==
  ASSUME NEW triples \in Triples, IsFiniteSet(triples), NEW e \in Names
  PROVE  /\ Times(triples, e) \in Nat
         /\ \A t \in triples : e \in {t[1], t[2]} => Times(triples, e) > 0
<1> DEFINE from == {t \in triples : t[1] = e}
           to == {t \in triples : t[2] = e}
<1>1. IsFiniteSet(from) /\ IsFiniteSet(to)
  <2>1. from \in SUBSET triples /\ to \in SUBSET triples
    OBVIOUS
  <2> HIDE DEF from, to
  <2> QED
    BY <2>1, FS_Subset
<1>2. /\ Cardinality(from) \in Nat /\ (Cardinality(from) = 0 => from = {})
      /\ Cardinality(to) \in Nat /\ (Cardinality(to) = 0 => to = {})
  <2> HIDE DEF from, to
  <2> QED
    BY <1>1, FS_CardinalityType, FS_EmptySet
<1>3. Times(triples, e) = Cardinality(from) + Cardinality(to)
  BY DEF Times
<1>4. \A t \in triples : e \in {t[1], t[2]} => from # {} \/ to # {}
  OBVIOUS
<1> HIDE DEF from, to
<1> QED
  BY <1>2, <1>3, <1>4

-----------------------------------------------------------------------------
(* What the shared writers preserve.                                       *)

LEMMA KindTyped ==
  ASSUME TypeOK, NEW e \in Names, NEW typed
  PROVE  KindOf(e, typed) \in Kinds
BY DEF TypeOK, KindOf, Kinds, Exists, EntityRows, Entities

LEMMA MentionsTyped ==
  ASSUME TypeOK, NEW e \in Entities
  PROVE  Mentions(e) \in Nat
BY DEF TypeOK, Mentions, Exists, EntityRows

LEMMA MentionStep ==
  ASSUME Inv, NEW source \in Sources, NEW times \in [Names -> Nat], NEW typed,
         Mention(source, times, typed),
         relations' \subseteq relations \cup
           {r \in Names \X Names : times[r[1]] > 0 /\ times[r[2]] > 0}
  PROVE  GraphTyped' /\ GraphOK'
<1> DEFINE ends == {e \in Names : times[e] > 0}
<1> USE NamesAssumption
<1>1. /\ entity' = [e \in Entities |->
           IF e \in ends THEN Entity(KindOf(e, typed), Mentions(e) + times[e])
           ELSE entity[e]]
      /\ links' = links \cup ({source} \X ends)
  BY DEF Mention
<1>2. Names \subseteq Entities
  BY DEF Entities
<1>3. \A e \in ends :
        /\ entity'[e] = Entity(KindOf(e, typed), Mentions(e) + times[e])
        /\ entity'[e] \in EntityRows
        /\ entity'[e].mentions = Mentions(e) + times[e]
  BY <1>1, <1>2, KindTyped, MentionsTyped DEF Inv, Entity, EntityRows
<1>4. \A e \in Entities \ ends : entity'[e] = entity[e]
  BY <1>1
<1>5. GraphTyped'
  <2>1. entity' \in [Entities -> EntityRows \cup {None}]
    <3>1. \A e \in Entities : entity'[e] \in EntityRows \cup {None}
      BY <1>3, <1>4 DEF Inv, TypeOK
    <3> QED
      BY <1>1, <3>1
  <2>2. links' \subseteq Sources \X Entities
    BY <1>1, <1>2 DEF Inv, TypeOK
  <2>3. relations' \subseteq Names \X Names
    BY DEF Inv, TypeOK
  <2> QED
    BY <2>1, <2>2, <2>3 DEF GraphTyped
<1>6. \A e \in ends : Exists(e)'
  BY <1>3 DEF Exists
<1>7. \A e \in Names : Exists(e) => Exists(e)'
  BY <1>2, <1>4, <1>6 DEF Exists
<1>8. EndsOK'
  BY <1>6, <1>7 DEF EndsOK, Inv, GraphOK, TypeOK
<1>9. ASSUME NEW e \in Names PROVE CountOK(e)'
  <2>1. CASE e \in ends
    <3>1. SourcesOf(e)' \in SUBSET (SourcesOf(e) \cup {source})
      BY <1>1 DEF SourcesOf
    <3>2. /\ IsFiniteSet(SourcesOf(e)) /\ Cardinality(SourcesOf(e)) <= Mentions(e)
          /\ Mentions(e) \in Nat
      <4>1. Mentions(e) \in Nat
        BY <1>2, MentionsTyped DEF Inv
      <4>2. CASE Exists(e)
        BY <4>1, <4>2 DEF Inv, GraphOK, CountOK, Mentions
      <4>3. CASE ~Exists(e)
        <5>1. SourcesOf(e) = {}
          BY <4>3 DEF Inv, GraphOK, CountOK
        <5>2. IsFiniteSet(SourcesOf(e)) /\ Cardinality(SourcesOf(e)) = 0
          BY <5>1, FS_EmptySet
        <5> QED
          BY <4>1, <5>2
      <4> QED
        BY <4>2, <4>3
    <3>3. /\ IsFiniteSet(SourcesOf(e)')
          /\ Cardinality(SourcesOf(e)') <= Mentions(e) + times[e]
      BY <2>1, <3>1, <3>2, GainOne
    <3> QED
      BY <2>1, <3>3, <1>3, <1>6 DEF CountOK
  <2>2. CASE e \notin ends
    <3>1. SourcesOf(e)' = SourcesOf(e)
      BY <1>1, <2>2 DEF SourcesOf
    <3>2. entity'[e] = entity[e]
      BY <1>2, <1>4, <2>2
    <3> QED
      BY <3>1, <3>2 DEF CountOK, Exists, Inv, GraphOK
  <2> QED
    BY <2>1, <2>2
<1> QED
  BY <1>5, <1>8, <1>9 DEF GraphOK

LEMMA LinkStep ==
  ASSUME Inv, NEW m \in Memories, NEW names \in SUBSET Names, LinkMemory(m, names)
  PROVE  GraphTyped' /\ GraphOK'
<1> DEFINE times == [e \in Names |-> IF e \in names THEN 1 ELSE 0]
<1>1. times \in [Names -> Nat]
  OBVIOUS
<1>2. Mention(m, times, {}) /\ relations' = relations
  BY DEF LinkMemory
<1>3. m \in Sources
  BY DEF Sources
<1> HIDE DEF times
<1> QED
  BY <1>1, <1>2, <1>3, MentionStep

LEMMA PersistStep ==
  ASSUME Inv, NEW source \in Sources, NEW triples \in Triples, NEW typed,
         PersistEntities(source, triples, typed)
  PROVE  GraphTyped' /\ GraphOK'
<1> DEFINE times == [e \in Names |-> Times(triples, e)]
<1>1. IsFiniteSet(triples) /\ triples \subseteq Names \X Names
  BY DEF PersistEntities, Triples
<1>2. times \in [Names -> Nat]
  BY <1>1, TimesCount
<1>3. Mention(source, times, typed) /\ relations' = relations \cup triples
  BY DEF PersistEntities
<1>4. \A r \in triples : times[r[1]] > 0 /\ times[r[2]] > 0
  <2> SUFFICES ASSUME NEW r \in triples PROVE times[r[1]] > 0 /\ times[r[2]] > 0
    OBVIOUS
  <2>1. r[1] \in Names /\ r[2] \in Names
    BY <1>1
  <2> QED
    BY <1>1, <2>1, TimesCount
<1> HIDE DEF times
<1>5. relations' \subseteq relations \cup
        {r \in Names \X Names : times[r[1]] > 0 /\ times[r[2]] > 0}
  BY <1>1, <1>3, <1>4
<1> QED
  BY <1>2, <1>3, <1>5, MentionStep

LEMMA DeleteStep ==
  ASSUME Inv, NEW es \in SUBSET Names, Delete(es)
  PROVE  GraphTyped' /\ GraphOK'
<1>1. /\ entity' = [e \in Entities |-> IF e \in es THEN None ELSE entity[e]]
      /\ links' = {l \in links : l[2] \notin es}
      /\ relations' = {r \in relations : r[1] \notin es /\ r[2] \notin es}
  BY DEF Delete
<1>2. Names \subseteq Entities
  BY DEF Entities
<1>3. GraphTyped'
  BY <1>1 DEF GraphTyped, Inv, TypeOK
<1>4. EndsOK'
  BY <1>1, <1>2 DEF EndsOK, Exists, Inv, GraphOK, TypeOK
<1>5. ASSUME NEW e \in Names PROVE CountOK(e)'
  <2>1. SourcesOf(e)' = IF e \in es THEN {} ELSE SourcesOf(e)
    BY <1>1 DEF SourcesOf
  <2>2. entity'[e] = IF e \in es THEN None ELSE entity[e]
    BY <1>1, <1>2
  <2> QED
    BY <2>1, <2>2 DEF CountOK, Exists, Inv, GraphOK
<1> QED
  BY <1>3, <1>4, <1>5 DEF GraphOK

\* What stays when only rows that keep their mentions are written.
LEMMA SameCounts ==
  ASSUME Inv, relations' = relations,
         links' \subseteq links \cup (Memories \X Groups),
         entity' \in [Entities -> EntityRows \cup {None}],
         \A l \in links : l[2] \in Names => l \in links',
         \A e \in Names : Exists(e) => Exists(e)' /\ Mentions(e)' = Mentions(e)
  PROVE  GraphTyped' /\ GraphOK'
<1> USE NamesAssumption
<1>1. GraphTyped'
  BY DEF GraphTyped, Inv, TypeOK, Sources, Entities
<1>2. EndsOK'
  BY DEF EndsOK, Inv, GraphOK, TypeOK
<1>3. ASSUME NEW e \in Names PROVE CountOK(e)'
  <2>1. SourcesOf(e)' = SourcesOf(e)
    BY DEF SourcesOf
  <2>2. CASE Exists(e)
    BY <2>1, <2>2 DEF CountOK, Mentions, Inv, GraphOK
  <2>3. CASE ~Exists(e)
    <3>1. SourcesOf(e)' = {}
      BY <2>1, <2>3 DEF CountOK, Inv, GraphOK
    <3>2. IsFiniteSet(SourcesOf(e)') /\ Cardinality(SourcesOf(e)') = 0
      BY <3>1, FS_EmptySet
    <3>3. Exists(e)' => entity'[e].mentions \in Nat
      BY DEF Exists, EntityRows, Entities
    <3> QED
      BY <3>1, <3>2, <3>3 DEF CountOK
  <2> QED
    BY <2>2, <2>3
<1> QED
  BY <1>1, <1>2, <1>3 DEF GraphOK

\* The sweep: what it leaves of an entity's sources is within what it leaves of
\* its count, and an entity it deletes has no other source.
LEMMA SweepStep ==
  ASSUME Inv, NEW ids \in SUBSET Memories, NEW whole \in BOOLEAN,
         Sweep(ids, whole)
  PROVE  /\ GraphTyped' /\ GraphOK'
         /\ \A e \in Names :
              Exists(e) /\ ~Exists(e)' => SourcesOf(e) \subseteq ids
<1> USE NamesAssumption
<1>0. PICK affected :
        affected = {e \in Entities : \E m \in ids : <<m, e>> \in links}
  OBVIOUS
<1>1. PICK orphans : orphans = Orphans(affected)
  OBVIOUS
<1>2. /\ entity' = [e \in Entities |->
           IF e \in orphans \/ ~Exists(e) THEN None
           ELSE Entity(entity[e].kind, Decremented(e, affected))]
      /\ links' = {l \in links : l[1] \notin ids /\ l[2] \notin orphans}
      /\ relations' =
           {r \in relations : r[1] \notin orphans /\ r[2] \notin orphans}
  BY <1>0, <1>1 DEF Sweep
<1>3. Names \subseteq Entities
  BY DEF Entities
<1>4. \A e \in Entities : Mentions(e) \in Nat /\ Decremented(e, affected) \in Nat
  BY MentionsTyped DEF Inv, Decremented
<1>5. \A e \in Entities : Exists(e) => entity[e] \in EntityRows
  BY DEF Exists, Inv, TypeOK
<1>6. \A e \in Entities :
        IF e \in orphans \/ ~Exists(e) THEN entity'[e] = None
        ELSE /\ entity'[e] \in EntityRows
             /\ entity'[e].mentions = Decremented(e, affected)
  BY <1>2, <1>4, <1>5 DEF Entity, EntityRows
<1>7. GraphTyped'
  <2>1. entity' \in [Entities -> EntityRows \cup {None}]
    BY <1>2, <1>6
  <2> QED
    BY <1>2, <2>1 DEF GraphTyped, Inv, TypeOK
<1>8. \A e \in Entities : Exists(e)' <=> e \notin orphans /\ Exists(e)
  BY <1>6 DEF Exists
<1>9. EndsOK'
  BY <1>2, <1>3, <1>8 DEF EndsOK, Inv, GraphOK, TypeOK
<1>10. ASSUME NEW e \in Names
       PROVE  /\ CountOK(e)'
              /\ Exists(e) /\ ~Exists(e)' => SourcesOf(e) \subseteq ids
  <2>1. PICK left : left = SourcesOf(e) \ ids
    OBVIOUS
  <2>2. e \in Entities
    BY <1>3
  <2>3. CASE ~Exists(e)
    <3>1. SourcesOf(e)' = {}
      BY <1>2, <2>3 DEF SourcesOf, Inv, GraphOK, CountOK
    <3> QED
      BY <2>2, <2>3, <3>1, <1>8 DEF CountOK
  <2>4. CASE Exists(e)
    <3>1. /\ IsFiniteSet(SourcesOf(e)) /\ Cardinality(SourcesOf(e)) <= Mentions(e)
          /\ Mentions(e) \in Nat
      BY <2>2, <2>4, <1>4 DEF Inv, GraphOK, CountOK, Mentions
    <3>2. /\ IsFiniteSet(left) /\ Cardinality(left) <= Mentions(e)
          /\ left # SourcesOf(e) =>
               Mentions(e) > 0 /\ Cardinality(left) <= Mentions(e) - 1
      BY <2>1, <3>1, LoseSome
    <3>3. e \in affected => left # SourcesOf(e)
      BY <1>0, <2>1 DEF SourcesOf, Sources
    <3>4. Cardinality(left) <= Decremented(e, affected)
      BY <3>1, <3>2, <3>3 DEF Decremented
    <3>5. Cardinality(left) \in Nat
      BY <3>2, FS_CardinalityType
    <3>6. CASE e \in orphans
      <4>1. Decremented(e, affected) = 0
        BY <1>1, <3>6 DEF Orphans
      <4>2. left = {}
        BY <3>2, <3>4, <3>5, <4>1, FS_EmptySet
      <4>3. SourcesOf(e)' = {}
        BY <1>2, <3>6 DEF SourcesOf
      <4> QED
        BY <1>8, <2>1, <2>2, <3>6, <4>2, <4>3 DEF CountOK
    <3>7. CASE e \notin orphans
      <4>1. SourcesOf(e)' = left
        BY <1>2, <2>1, <3>7 DEF SourcesOf
      <4> QED
        BY <1>6, <1>8, <2>2, <2>4, <3>2, <3>4, <3>7, <4>1 DEF CountOK
    <3> QED
      BY <3>6, <3>7
  <2> QED
    BY <2>3, <2>4
<1> QED
  BY <1>7, <1>9, <1>10 DEF GraphOK

-----------------------------------------------------------------------------
(* The whole next-state relation.                                          *)

\* The memories and what is awaited, which the graph does not depend on.
RestTyped ==
  /\ memory \in [Memories -> {"absent", "live", "deleted", "expired", "gone"}]
  /\ linking \subseteq Memories /\ extracting \subseteq Memories
  /\ installing \subseteq Skills
  /\ group \in [Groups -> {"new", "open", "closed"}]

LEMMA TypeParts == TypeOK <=> GraphTyped /\ RestTyped
  BY DEF TypeOK, GraphTyped, RestTyped

LEMMA SameGraph ==
  ASSUME Inv, UNCHANGED graph
  PROVE  GraphTyped' /\ GraphOK'
BY DEF graph, Inv, TypeOK, GraphTyped, GraphOK, EndsOK, CountOK, SourcesOf, Exists

LEMMA StartInv == Init => Inv
<1> SUFFICES ASSUME Init PROVE Inv
  OBVIOUS
<1>1. TypeOK
  BY DEF Init, TypeOK
<1>2. \A e \in Names : ~Exists(e) /\ SourcesOf(e) = {}
  BY DEF Init, Exists, SourcesOf, Entities
<1>3. EndsOK
  BY DEF Init, EndsOK
<1> QED
  BY <1>1, <1>2, <1>3 DEF Inv, GraphOK, CountOK

LEMMA MemoryStep ==
  ASSUME Inv, NEW m \in Memories, OfMemory(m)
  PROVE  Inv'
<1> SUFFICES GraphTyped' /\ GraphOK' /\ RestTyped'
  BY TypeParts DEF Inv, GraphTyped, RestTyped, TypeOK
<1>0. RestTyped
  BY TypeParts DEF Inv
<1> USE DEF Inv, RestTyped
<1>1. CASE Remember(m)
  BY <1>0, <1>1, SameGraph DEF Remember
<1>2. CASE FinishRemember(m)
  <2>1. GraphTyped' /\ GraphOK'
    <3>1. m \in Sources
      BY DEF Sources
    <3> QED
      BY <1>2, <3>1, LinkStep, PersistStep DEF FinishRemember
  <2> QED
    BY <1>0, <1>2, <2>1 DEF FinishRemember
<1>3. CASE StartExtraction(m)
  BY <1>0, <1>3, SameGraph DEF StartExtraction
<1>4. CASE FinishExtraction(m)
  <2>1. GraphTyped' /\ GraphOK'
    BY <1>4, PersistStep DEF FinishExtraction, Sources
  <2> QED
    BY <1>0, <1>4, <2>1 DEF FinishExtraction
<1>5. CASE RelinkEntities(m)
  <2>1. GraphTyped' /\ GraphOK'
    BY <1>5, LinkStep DEF RelinkEntities
  <2> QED
    BY <1>0, <1>5, <2>1 DEF RelinkEntities, awaited
<1>6. CASE Forget(m)
  BY <1>0, <1>6, SameGraph DEF Forget, awaited
<1>7. CASE Recover(m)
  BY <1>0, <1>7, SameGraph DEF Recover, awaited
<1>8. CASE Expire(m)
  BY <1>0, <1>8, SameGraph DEF Expire, awaited
<1> QED
  BY <1>1, <1>2, <1>3, <1>4, <1>5, <1>6, <1>7, <1>8 DEF OfMemory

LEMMA GroupStep ==
  ASSUME Inv, NEW g \in Groups, OfGroup(g)
  PROVE  Inv'
<1> SUFFICES GraphTyped' /\ GraphOK' /\ RestTyped'
  BY TypeParts DEF Inv, GraphTyped, RestTyped, TypeOK
<1>0. RestTyped /\ GraphTyped
  BY TypeParts DEF Inv
<1> USE NamesAssumption DEF RestTyped
<1>1. CASE CreateGroup(g)
  <2>1. Entity("group", 0) \in EntityRows
    BY DEF Entity, EntityRows, Kinds
  <2>2. entity' \in [Entities -> EntityRows \cup {None}]
    BY <1>0, <1>1, <2>1 DEF CreateGroup, GraphTyped
  <2>3. \A e \in Names : entity'[e] = entity[e]
    BY <1>0, <1>1 DEF CreateGroup, GraphTyped, Entities
  <2>4. GraphTyped' /\ GraphOK'
    BY <1>1, <2>2, <2>3, SameCounts DEF CreateGroup, Exists, Mentions
  <2> QED
    BY <1>0, <1>1, <2>4 DEF CreateGroup
<1>2. CASE EndChunks(g)
  BY <1>0, <1>2, SameGraph DEF EndChunks
<1>3. ASSUME NEW m \in Memories, AddChunk(g, m)
      PROVE  GraphTyped' /\ GraphOK' /\ RestTyped'
  <2>1. /\ links' \subseteq links \cup (Memories \X Groups)
        /\ links \subseteq links' /\ relations' = relations /\ entity' = entity
    BY <1>3 DEF AddChunk
  <2>2. GraphTyped' /\ GraphOK'
    BY <1>0, <2>1, SameCounts DEF Exists, Mentions, GraphTyped
  <2> QED
    BY <1>0, <1>3, <2>2 DEF AddChunk
<1> QED
  BY <1>1, <1>2, <1>3 DEF OfGroup

LEMMA SkillStep ==
  ASSUME Inv, NEW k \in Skills, OfSkill(k)
  PROVE  Inv'
<1> SUFFICES GraphTyped' /\ GraphOK' /\ RestTyped'
  BY TypeParts DEF Inv, GraphTyped, RestTyped, TypeOK
<1>0. RestTyped /\ GraphTyped
  BY TypeParts DEF Inv
<1>k. k \in Names /\ k \in Entities /\ k \in Sources
  BY NamesAssumption DEF Entities, Sources
<1> USE NamesAssumption DEF RestTyped
<1>1. CASE InstallSkill(k)
  <2>1. PICK row : row = CASE ~Exists(k) -> Entity("skill", 0)
                           [] Exists(k) /\ entity[k].kind = "extracted" ->
                                Entity("typed", entity[k].mentions)
                           [] OTHER -> entity[k]
    OBVIOUS
  <2>2. entity' = [entity EXCEPT ![k] = row]
    BY <1>1, <2>1 DEF InstallSkill
  <2>3. row \in EntityRows /\ (Exists(k) => row.mentions = entity[k].mentions)
    BY <1>0, <1>k, <2>1
    DEF Entity, EntityRows, Kinds, Exists, GraphTyped
  <2>4. entity' \in [Entities -> EntityRows \cup {None}]
    BY <1>0, <2>2, <2>3 DEF GraphTyped
  <2>5. \A e \in Names : Exists(e) => Exists(e)' /\ Mentions(e)' = Mentions(e)
    BY <1>0, <1>k, <2>2, <2>3 DEF GraphTyped, Exists, Mentions, Entities
  <2>6. GraphTyped' /\ GraphOK'
    BY <1>1, <2>4, <2>5, SameCounts DEF InstallSkill
  <2> QED
    BY <1>0, <1>1, <2>6 DEF InstallSkill
<1>2. CASE FinishInstall(k)
  <2>1. GraphTyped' /\ GraphOK'
    BY <1>2, <1>k, PersistStep DEF FinishInstall
  <2> QED
    BY <1>0, <1>2, <2>1 DEF FinishInstall
<1>3. CASE UninstallSkill(k)
  <2>1. GraphTyped' /\ GraphOK'
    BY <1>3, <1>k, DeleteStep DEF UninstallSkill
  <2> QED
    BY <1>0, <1>3, <2>1 DEF UninstallSkill, awaited
<1> QED
  BY <1>1, <1>2, <1>3 DEF OfSkill

LEMMA NextStep == Inv /\ [Next]_vars => Inv'
<1> SUFFICES ASSUME Inv, [Next]_vars PROVE Inv'
  OBVIOUS
<1>0. RestTyped /\ GraphTyped
  BY TypeParts DEF Inv
<1>1. ASSUME GraphTyped', GraphOK', RestTyped' PROVE Inv'
  BY <1>1, TypeParts DEF Inv, GraphTyped, RestTyped, TypeOK
<1>2. CASE \E m \in Memories : OfMemory(m)
  BY <1>2, MemoryStep
<1>3. CASE \E g \in Groups : OfGroup(g)
  BY <1>3, GroupStep
<1>4. CASE \E k \in Skills : OfSkill(k)
  BY <1>4, SkillStep
<1>5. ASSUME NEW e \in Names, Classify(e) PROVE Inv'
  <2>1. /\ e \in Entities /\ entity[e] \in EntityRows
        /\ entity' = [entity EXCEPT ![e] = [entity[e] EXCEPT !.kind = "typed"]]
    BY <1>0, <1>5 DEF Classify, GraphTyped, Exists, Entities
  <2>2. /\ [entity[e] EXCEPT !.kind = "typed"] \in EntityRows
        /\ [entity[e] EXCEPT !.kind = "typed"].mentions = entity[e].mentions
    BY <2>1 DEF EntityRows, Kinds
  <2>3. entity' \in [Entities -> EntityRows \cup {None}]
    BY <1>0, <2>1, <2>2 DEF GraphTyped
  <2>4. \A d \in Names : Exists(d) => Exists(d)' /\ Mentions(d)' = Mentions(d)
    BY <1>0, <2>1, <2>2, NamesAssumption
    DEF GraphTyped, Exists, Mentions, Entities
  <2>5. GraphTyped' /\ GraphOK'
    BY <1>5, <2>3, <2>4, SameCounts DEF Classify
  <2> QED
    BY <1>0, <1>1, <1>5, <2>5 DEF Classify, awaited, RestTyped
<1>6. ASSUME NEW ids \in SUBSET Memories, NEW whole \in BOOLEAN, Sweep(ids, whole)
      PROVE  Inv'
  <2>1. GraphTyped' /\ GraphOK'
    BY <1>6, SweepStep
  <2> QED
    BY <1>0, <1>1, <1>6, <2>1 DEF Sweep, awaited, RestTyped
<1>7. ASSUME NEW es \in SUBSET Names, PruneSingletons(es) PROVE Inv'
  <2>1. GraphTyped' /\ GraphOK'
    BY <1>7, DeleteStep DEF PruneSingletons
  <2> QED
    BY <1>0, <1>1, <1>7, <2>1 DEF PruneSingletons, awaited, RestTyped
<1>8. ASSUME NEW gs \in SUBSET Groups, PruneChunkGroups(gs) PROVE Inv'
  <2>1. entity' \in [Entities -> EntityRows \cup {None}]
    BY <1>0, <1>8 DEF PruneChunkGroups, GraphTyped
  <2>2. \A e \in Names : entity'[e] = entity[e]
    BY <1>8, NamesAssumption DEF PruneChunkGroups, Entities
  <2>3. GraphTyped' /\ GraphOK'
    BY <1>8, <2>1, <2>2, SameCounts DEF PruneChunkGroups, Exists, Mentions
  <2> QED
    BY <1>0, <1>1, <1>8, <2>3 DEF PruneChunkGroups, awaited, RestTyped
<1>9. CASE Crash
  BY <1>0, <1>1, <1>9, SameGraph DEF Crash, RestTyped
<1>10. CASE UNCHANGED vars
  BY <1>0, <1>1, <1>10, SameGraph DEF vars, awaited, RestTyped
<1> QED
  BY <1>2, <1>3, <1>4, <1>5, <1>6, <1>7, <1>8, <1>9, <1>10 DEF Next

-----------------------------------------------------------------------------
(* The theorems.                                                           *)

LEMMA InvHolds == Spec => []Inv
<1>1. Init => Inv
  BY StartInv
<1>2. Inv /\ [Next]_vars => Inv'
  BY NextStep
<1> QED
  BY <1>1, <1>2, PTL DEF Spec

\* Every variable keeps its type, for any constants.
THEOREM TypeCorrect == Spec => []TypeOK
<1>1. Inv => TypeOK
  BY DEF Inv
<1> QED
  BY <1>1, InvHolds, PTL

\* The count of an entity is never below the number of its links.
THEOREM CountsHold == Spec => []CountsCoverLinks
<1>1. Inv => CountsCoverLinks
  BY DEF Inv, GraphOK, CountOK, CountsCoverLinks
<1> QED
  BY <1>1, InvHolds, PTL

\* No link or relation of a named entity outlives it.
THEOREM NothingDangles == Spec => []NoDangling
<1>1. Inv => NoDangling
  <2> SUFFICES ASSUME Inv PROVE NoDangling
    OBVIOUS
  <2>1. \A l \in links : l[2] \in Names => Exists(l[2])
    <3> SUFFICES ASSUME NEW l \in links, l[2] \in Names PROVE Exists(l[2])
      OBVIOUS
    <3>1. l[1] \in SourcesOf(l[2])
      BY DEF Inv, TypeOK, SourcesOf
    <3> QED
      BY <3>1 DEF Inv, GraphOK, CountOK
  <2> QED
    BY <2>1 DEF NoDangling, Inv, GraphOK, EndsOK
<1> QED
  BY <1>1, InvHolds, PTL

\* The sweep deletes a named entity only when the memories of its batch are all
\* that mentions it.
THEOREM SweepKeeps == Spec => SweepKeepsMentioned
<1>1. Inv /\ [Next]_vars =>
        [\A ids \in SUBSET Memories, whole \in BOOLEAN : Sweep(ids, whole) =>
           \A e \in Names :
             Exists(e) /\ ~Exists(e)' => SourcesOf(e) \subseteq ids]_vars
  BY SweepStep
<1> QED
  BY <1>1, InvHolds, PTL DEF Spec, SweepKeepsMentioned
=============================================================================
