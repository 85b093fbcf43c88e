----------------------------- MODULE EntityGraph -----------------------------
(***************************************************************************)
(* The knowledge graph as the daemon's transactions keep it: entities with  *)
(* their count of mentions, the links from memories (and from the skills    *)
(* whose text was read) to the entities they mention, and relations between *)
(* entities.  A remember request links its memory in a transaction after    *)
(* it has awaited the embedding, the extraction worker after it has awaited *)
(* the model, and the sweep takes both links and counts back when a         *)
(* memory's retention is over.  SQLite's foreign keys are off, so nothing   *)
(* but these statements cleans up.  Entities are named by their canonical   *)
(* name; one agent; aspects, attributes and dependencies are left out.      *)
(***************************************************************************)
EXTENDS Integers, FiniteSets

CONSTANTS Memories, Names,
          Skills,       \* the names that skills have
          Groups,       \* ids of chunk groups, each used once
          None,
          MaxMentions   \* bound: mentions of one entity

Entities == Names \cup Groups
Sources == Memories \cup Skills
Kinds == {"extracted", "typed", "skill", "group"}
EntityRows == [kind : Kinds, mentions : Nat]

ASSUME NamesAssumption ==
  /\ Names \cap Groups = {}
  /\ Skills \subseteq Names
  /\ None \notin EntityRows

VARIABLES memory,     \* of each memory: absent, live, deleted, expired, gone
          entity,     \* the row of each entity, or None
          links,      \* memory_entity_mentions: <<source, entity>>
          relations,  \* <<source entity, target entity>>
          linking,    \* memories whose remember request has not linked them
          extracting, \* memories whose extraction awaits the model
          installing, \* skills whose text the model is reading
          group       \* of each chunk group: new, open (its request), closed

graph == <<entity, links, relations>>
awaited == <<linking, extracting, installing, group>>
vars == <<memory, graph, awaited>>

TypeOK ==
  /\ memory \in [Memories -> {"absent", "live", "deleted", "expired", "gone"}]
  /\ entity \in [Entities -> EntityRows \cup {None}]
  /\ links \subseteq Sources \X Entities
  /\ relations \subseteq Names \X Names
  /\ linking \subseteq Memories /\ extracting \subseteq Memories
  /\ installing \subseteq Skills
  /\ group \in [Groups -> {"new", "open", "closed"}]

Exists(e) == entity[e] # None
Mentions(e) == IF Exists(e) THEN entity[e].mentions ELSE 0
SourcesOf(e) == {s \in Sources : <<s, e>> \in links}
Entity(kind, n) == [kind |-> kind, mentions |-> n]

-----------------------------------------------------------------------------
(* What the writers share.                                                 *)

\* The kind of the row after a mention: a type replaces "extracted".
KindOf(e, typed) ==
  CASE Exists(e) /\ entity[e].kind # "extracted" -> entity[e].kind
    [] e \in typed -> "typed"
    [] OTHER -> "extracted"

\* Faulty: a mention of an entity that is there is not counted.
MentionNew(source, times, typed) ==
  LET ends == {e \in Names : times[e] > 0} IN
  /\ \A e \in ends : times[e] <= MaxMentions
  /\ entity' = [e \in Entities |->
       IF e \in ends /\ ~Exists(e) THEN Entity(KindOf(e, typed), times[e])
       ELSE entity[e]]
  /\ links' = links \cup ({source} \X ends)

\* Every name is found or inserted once for each time it is mentioned, and
\* linked to the source, if it is not yet.
Mention(source, times, typed) ==
  LET ends == {e \in Names : times[e] > 0} IN
  /\ \A e \in ends : Mentions(e) + times[e] <= MaxMentions
  /\ entity' = [e \in Entities |->
       IF e \in ends THEN Entity(KindOf(e, typed), Mentions(e) + times[e])
       ELSE entity[e]]
  /\ links' = links \cup ({source} \X ends)

\* linkMemoryToEntities: the proper nouns found in the text.
LinkMemory(m, names) ==
  /\ Mention(m, [e \in Names |-> IF e \in names THEN 1 ELSE 0], {})
  /\ UNCHANGED relations

Times(triples, e) ==
  Cardinality({t \in triples : t[1] = e})
    + Cardinality({t \in triples : t[2] = e})

\* txPersistEntities: both ends of every triple, and the relation.
PersistEntities(source, triples, typed) ==
  /\ IsFiniteSet(triples)
  /\ Mention(source, [e \in Names |-> Times(triples, e)], typed)
  /\ relations' = relations \cup triples

Triples == SUBSET (Names \X Names)

\* The entities of es go, with all that refers to them.
Delete(es) ==
  /\ entity' = [e \in Entities |-> IF e \in es THEN None ELSE entity[e]]
  /\ links' = {l \in links : l[2] \notin es}
  /\ relations' = {r \in relations : r[1] \notin es /\ r[2] \notin es}

-----------------------------------------------------------------------------
(* Memories: a request inserts one, links it later, and extraction follows. *)

Remember(m) ==
  /\ memory[m] = "absent"
  /\ memory' = [memory EXCEPT ![m] = "live"]
  /\ linking' = linking \cup {m}
  /\ UNCHANGED <<graph, extracting, installing, group>>

\* Linking by the names of the text, or by the triples that a structured
\* request brings; a failure of either is logged and links nothing.
FinishRemember(m) ==
  /\ m \in linking
  /\ \/ \E names \in SUBSET Names : LinkMemory(m, names)
     \/ \E triples \in Triples, typed \in SUBSET Names :
          PersistEntities(m, triples, typed)
  /\ linking' = linking \ {m}
  /\ UNCHANGED <<memory, extracting, installing, group>>

\* The worker reads any row that is there, deleted or not.
StartExtraction(m) ==
  /\ memory[m] \notin {"absent", "gone"}
  /\ m \notin extracting
  /\ extracting' = extracting \cup {m}
  /\ UNCHANGED <<memory, graph, linking, installing, group>>

FinishExtraction(m) ==
  /\ m \in extracting
  /\ \E triples \in Triples, typed \in SUBSET Names :
       PersistEntities(m, triples, typed)
  /\ extracting' = extracting \ {m}
  /\ UNCHANGED <<memory, linking, installing, group>>

\* POST /api/repair/relink-entities, for one of the memories it finds.
RelinkEntities(m) ==
  /\ memory[m] = "live"
  /\ \A e \in Entities : <<m, e>> \notin links
  /\ \E names \in SUBSET Names : LinkMemory(m, names)
  /\ UNCHANGED <<memory, awaited>>

Forget(m) ==
  /\ memory[m] = "live"
  /\ memory' = [memory EXCEPT ![m] = "deleted"]
  /\ UNCHANGED <<graph, awaited>>

Recover(m) ==
  /\ memory[m] = "deleted"
  /\ memory' = [memory EXCEPT ![m] = "live"]
  /\ UNCHANGED <<graph, awaited>>

\* The retention of a deleted memory ends, after weeks: no request lasts as
\* long, but the extraction of a requeued job may start just before.
Expire(m) ==
  /\ memory[m] = "deleted" /\ m \notin linking
  /\ memory' = [memory EXCEPT ![m] = "expired"]
  /\ UNCHANGED <<graph, awaited>>

-----------------------------------------------------------------------------
(* A long text is remembered as chunks that a group entity holds together.  *)

CreateGroup(g) ==
  /\ group[g] = "new"
  /\ group' = [group EXCEPT ![g] = "open"]
  /\ entity' = [entity EXCEPT ![g] = Entity("group", 0)]
  /\ UNCHANGED <<memory, links, relations, linking, extracting, installing>>

\* The chunk is inserted and linked to its group, whether or not the group
\* is still there, and linked to the names of its text after its embedding.
AddChunk(g, m) ==
  /\ group[g] = "open"
  /\ memory[m] = "absent"
  /\ memory' = [memory EXCEPT ![m] = "live"]
  /\ links' = links \cup {<<m, g>>}
  /\ linking' = linking \cup {m}
  /\ UNCHANGED <<entity, relations, extracting, installing, group>>

EndChunks(g) ==
  /\ group[g] = "open"
  /\ group' = [group EXCEPT ![g] = "closed"]
  /\ UNCHANGED <<memory, graph, linking, extracting, installing>>

-----------------------------------------------------------------------------
(* Skills.                                                                 *)

\* A skill's own entity has the id of its name; an entity that has the name
\* already is adopted and keeps its id and its mentions.
InstallSkill(k) ==
  /\ k \notin installing
  /\ entity' = [entity EXCEPT ![k] =
       CASE ~Exists(k) -> Entity("skill", 0)
         [] Exists(k) /\ @.kind = "extracted" -> Entity("typed", @.mentions)
         [] OTHER -> @]
  /\ installing' = installing \cup {k}
  /\ UNCHANGED <<memory, links, relations, linking, extracting, group>>

\* The entities of the skill's text, with the skill as the source of links.
FinishInstall(k) ==
  /\ k \in installing
  /\ \E triples \in Triples, typed \in SUBSET Names :
       PersistEntities(k, triples, typed)
  /\ installing' = installing \ {k}
  /\ UNCHANGED <<memory, linking, extracting, group>>

\* Only the skill's own id is looked for.
UninstallSkill(k) ==
  /\ Exists(k) /\ entity[k].kind = "skill"
  /\ Delete({k})
  /\ UNCHANGED <<memory, awaited>>

-----------------------------------------------------------------------------
(* Maintenance.                                                            *)

\* structural classification and reclassification give a type.
Classify(e) ==
  /\ Exists(e) /\ entity[e].kind = "extracted"
  /\ entity' = [entity EXCEPT ![e].kind = "typed"]
  /\ UNCHANGED <<memory, links, relations, awaited>>

\* The number of mentions after the sweep: one less, however many of its
\* memories were linked.
Decremented(e, affected) ==
  IF e \in affected /\ Mentions(e) > 0 THEN Mentions(e) - 1 ELSE Mentions(e)

\* Faulty: off by one.
OrphansAtOne(affected) ==
  IF affected = {} THEN {}
  ELSE {e \in Entities : Exists(e) /\ Decremented(e, affected) <= 1}

\* Whom the sweep finds without mentions: among all entities, but it looks only
\* if one of them was linked.
Orphans(affected) ==
  IF affected = {} THEN {}
  ELSE {e \in Entities : Exists(e) /\ Decremented(e, affected) = 0}

\* The transactions of a sweep over a batch ids of expired memories.  The
\* first removes their links, takes one mention from each entity they linked
\* and deletes the entities that have none; a failure before the third leaves
\* the memories to the next sweep.
Sweep(ids, whole) ==
  LET affected == {e \in Entities : \E m \in ids : <<m, e>> \in links}
      orphans == Orphans(affected)
  IN
  /\ ids # {} /\ \A m \in ids : memory[m] = "expired"
  /\ entity' = [e \in Entities |->
       IF e \in orphans \/ ~Exists(e) THEN None
       ELSE Entity(entity[e].kind, Decremented(e, affected))]
  /\ links' = {l \in links : l[1] \notin ids /\ l[2] \notin orphans}
  /\ relations' = {r \in relations : r[1] \notin orphans /\ r[2] \notin orphans}
  /\ memory' = [m \in Memories |->
       IF whole /\ m \in ids THEN "gone" ELSE memory[m]]
  /\ UNCHANGED awaited

\* Faulty: relies on cascades.
PruneRowsOnly(es) ==
  /\ es # {}
  /\ \A e \in es : Exists(e) /\ entity[e].kind = "extracted"
  /\ entity' = [e \in Entities |-> IF e \in es THEN None ELSE entity[e]]
  /\ UNCHANGED <<memory, links, relations, awaited>>

\* Which extracted entities are prunable depends on their aspects and on a
\* limit the caller sets: any of them may be.
PruneSingletons(es) ==
  /\ es # {}
  /\ \A e \in es : Exists(e) /\ entity[e].kind = "extracted"
  /\ Delete(es)
  /\ UNCHANGED <<memory, awaited>>

\* The groups go, their links stay.
PruneChunkGroups(gs) ==
  /\ gs # {} /\ \A g \in gs : Exists(g)
  /\ entity' = [e \in Entities |-> IF e \in gs THEN None ELSE entity[e]]
  /\ UNCHANGED <<memory, links, relations, awaited>>

Crash ==
  /\ linking' = {} /\ extracting' = {} /\ installing' = {}
  /\ group' = [g \in Groups |-> IF group[g] = "open" THEN "closed" ELSE group[g]]
  /\ UNCHANGED <<memory, graph>>

-----------------------------------------------------------------------------
Init ==
  /\ memory = [m \in Memories |-> "absent"]
  /\ entity = [e \in Entities |-> None]
  /\ links = {} /\ relations = {}
  /\ linking = {} /\ extracting = {} /\ installing = {}
  /\ group = [g \in Groups |-> "new"]

OfMemory(m) ==
  \/ Remember(m) \/ FinishRemember(m)
  \/ StartExtraction(m) \/ FinishExtraction(m)
  \/ RelinkEntities(m)
  \/ Forget(m) \/ Recover(m) \/ Expire(m)

OfGroup(g) == CreateGroup(g) \/ EndChunks(g) \/ \E m \in Memories : AddChunk(g, m)

OfSkill(k) == InstallSkill(k) \/ FinishInstall(k) \/ UninstallSkill(k)

Next ==
  \/ \E m \in Memories : OfMemory(m)
  \/ \E g \in Groups : OfGroup(g)
  \/ \E k \in Skills : OfSkill(k)
  \/ \E e \in Names : Classify(e)
  \/ \E ids \in SUBSET Memories, whole \in BOOLEAN : Sweep(ids, whole)
  \/ \E es \in SUBSET Names : PruneSingletons(es)
  \/ \E gs \in SUBSET Groups : PruneChunkGroups(gs)
  \/ Crash

Spec == Init /\ [][Next]_vars

-----------------------------------------------------------------------------
(* Properties.                                                             *)

\* The count of an entity never falls below the number of its links, although
\* counts are raised by every repetition, lowered once for a whole batch of
\* memories, and written by several transactions: the deletion of entities
\* without mentions rests on it.
CountsCoverLinks ==
  \A e \in Names : Exists(e) => Cardinality(SourcesOf(e)) <= entity[e].mentions

\* Foreign keys are off: whoever deletes a named entity deletes its links and
\* relations, whatever was awaiting a model or an embedding meanwhile.
NoDangling ==
  /\ \A l \in links : l[2] \in Names => Exists(l[2])
  /\ \A r \in relations : Exists(r[1]) /\ Exists(r[2])

\* The sweep deletes an entity with a name only if nothing but the memories of
\* its batch mentions it.
SweepKeepsMentioned ==
  [][\A ids \in SUBSET Memories, whole \in BOOLEAN : Sweep(ids, whole) =>
       \A e \in Names :
         Exists(e) /\ ~Exists(e)' => SourcesOf(e) \subseteq ids]_vars
=============================================================================
