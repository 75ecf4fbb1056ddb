--------------------------- MODULE KnowledgeGraph ---------------------------
(***************************************************************************)
(* The knowledge graph of one organisation (knowledge_graph_service.py,    *)
(* entity_resolution_service.py): entities, relationships between them, the*)
(* merge of a duplicate into a primary entity, and the traversal around an *)
(* entity.  Rows are read without locks, statement by statement, while     *)
(* other requests commit; an UPDATE writes the columns its request changed.*)
(*                                                                         *)
(* An entity stands for its canonical name too.  Deleting one, like the    *)
(* soft deletion of a merged duplicate, sets deleted_at, which nothing     *)
(* reads (soft_delete assigns is_deletd, no column): both stay as they are.*)
(***************************************************************************)
EXTENDS Requests, EntityNames, Functions

CONSTANTS
  Entity, Relationship, RelType,
  Merger, Reader,   \* requests that merge, and that traverse, at a time
  TypeOf,           \* [Entity -> its entity_type]
  MaxDepth,         \* MAX_TRAVERSAL_DEPTH, 3
  MaxNodes,         \* MAX_NODES_PER_TRAVERSAL, 500
  MaxMerges         \* bound: merges begun

ASSUME GraphAssumption ==
  /\ IsFiniteSet(Entity) /\ DOMAIN TypeOf = Entity
  /\ None \notin Entity /\ \A names \in SUBSET Entity : names # None
  /\ {MaxDepth, MaxNodes} \subseteq Nat \ {0}
  /\ {MaxMerges, MaxEdits} \subseteq Nat

VARIABLES
  aliases,    \* the names an entity has besides its own; None: no such entity
  rel,        \* the committed relationships
  born,       \* what their ends were when they were created
  merge,      \* the request of each merger
  walk,       \* the traversal of each reader
  merged,     \* history: the pairs <<duplicate, primary>> merged
  rewritten,  \* history: entities whose aliases a PATCH or a stale merge set
  merges

graph     == <<aliases, rel, born>>
history   == <<merged, rewritten, merges>>
knowledge == <<graph, merge, walk, history, edits>>

Row == [source : Entity, target : Entity, type : RelType]
Rows == UNION {[S -> Row] : S \in SUBSET Relationship}

NoEdges == [r \in {} |-> None]

(* A merge: the aliases it read, and the relationships it found.             *)
NoMerge == [at |-> "idle"]
Merge ==
  [at : {"duplicate", "relationships", "flush"}, primary : Entity, duplicate : Entity,
   mine : SUBSET Entity, theirs : SUBSET Entity, found : Rows]

(* A traversal; edges are the rows as the session first loaded them.         *)
NoWalk == [center |-> None]
Walk ==
  [center : Entity, depth : 1..MaxDepth, left : 1..MaxDepth, frontier : SUBSET Entity,
   next : SUBSET Entity, nodes : SUBSET Entity, edges : Rows]

GraphTypeOK ==
  /\ aliases \in [Entity -> (SUBSET Entity) \cup {None}]
  /\ rel \in [Relationship -> Row \cup {None}] /\ born \in [Relationship -> Row \cup {None}]
  /\ merge \in [Merger -> Merge \cup {NoMerge}]
  /\ walk \in [Reader -> Walk \cup {NoWalk}]
  /\ merged \subseteq Entity \X Entity /\ rewritten \subseteq Entity
  /\ merges \in Nat /\ edits \in Nat

GraphInit ==
  /\ aliases = [e \in Entity |-> None]
  /\ rel = [r \in Relationship |-> None] /\ born = rel
  /\ merge = [m \in Merger |-> NoMerge]
  /\ walk = [v \in Reader |-> NoWalk]
  /\ merged = {} /\ rewritten = {} /\ merges = 0 /\ edits = 0

Exists(e) == aliases[e] # None
Stored == {r \in Relationship : rel[r] # None}

(* list_neighbors, and the SELECT of repoint_entity_references.              *)
Touching(e) == {r \in Stored : e \in {rel[r].source, rel[r].target}}

(* uq_kg_relationship_triple.                                                *)
Unique(rows) == IsInjective(Restrict(rows, {r \in Relationship : rows[r] # None}))

-----------------------------------------------------------------------------
(* Entities and relationships: what these requests read never goes away, so  *)
(* each is one step.                                                         *)

CreateEntity(e) ==
  /\ ~Exists(e)
  /\ aliases' = [aliases EXCEPT ![e] = {}]
  /\ UNCHANGED <<rel, born, merge, walk, history, edits>>

(* PATCH with a list of aliases.                                             *)
UpdateEntity(e) ==
  /\ Exists(e) /\ Edit
  /\ aliases' = [aliases EXCEPT ![e] = {}]
  /\ rewritten' = rewritten \cup {e}
  /\ UNCHANGED <<rel, born, merge, walk, merged, merges>>

CreateRelationship(r, s, t) ==
  /\ rel[r] = None /\ born[r] = None /\ Exists(s) /\ Exists(t)
  /\ s # t
  /\ \E type \in RelType : rel' = [rel EXCEPT ![r] = [source |-> s, target |-> t, type |-> type]]
  /\ Unique(rel')
  /\ born' = [born EXCEPT ![r] = rel'[r]]
  /\ UNCHANGED <<aliases, merge, walk, history, edits>>

DeleteRelationship(r) ==
  /\ rel[r] # None /\ Edit
  /\ rel' = [rel EXCEPT ![r] = None]
  /\ UNCHANGED <<aliases, born, merge, walk, history>>

-----------------------------------------------------------------------------
(* merge_entities, a statement a step *)

NotMerging(m) == merge[m] = NoMerge

(* The primary entity.                                                       *)
StartMerge(m, p, d) ==
  /\ NotMerging(m) /\ merges < MaxMerges
  /\ p # d /\ Exists(p)
  /\ merge' = [merge EXCEPT ![m] =
       [at |-> "duplicate", primary |-> p, duplicate |-> d, mine |-> aliases[p], theirs |-> {},
        found |-> NoEdges]]
  /\ merges' = merges + 1
  /\ UNCHANGED <<graph, walk, merged, rewritten, edits>>

(* "Duplicate entity not found", "Cannot merge entities of different types". *)
MayMerge(p, d) == Exists(d) /\ TypeOf[p] = TypeOf[d]

ReadDuplicate(m) ==
  LET g == merge[m]
  IN /\ g.at = "duplicate"
     /\ merge' = [merge EXCEPT ![m] =
          IF MayMerge(g.primary, g.duplicate)
          THEN [g EXCEPT !.at = "relationships", !.theirs = aliases[g.duplicate]] ELSE NoMerge]
     /\ UNCHANGED <<graph, walk, history, edits>>

ReadRelationships(m) ==
  LET g == merge[m]
  IN /\ g.at = "relationships"
     /\ merge' = [merge EXCEPT ![m].at = "flush", ![m].found = Restrict(rel, Touching(g.duplicate))]
     /\ UNCHANGED <<graph, walk, history, edits>>

(* Mutant: without the duplicate's own name.                                 *)
MergedAliases_NoName(g) == g.mine \cup g.theirs

MergedAliases(g) == g.mine \cup g.theirs \cup {g.duplicate}

(* Mutant: whichever end refers to the duplicate, the source is set.         *)
Repointed_Source(g, row, seen) == [row EXCEPT !.source = g.primary]

(* The row after the repointing of one the merge had read as seen.           *)
Repointed(g, row, seen) ==
  [row EXCEPT !.source = IF seen.source = g.duplicate THEN g.primary ELSE @,
              !.target = IF seen.target = g.duplicate THEN g.primary ELSE @]

Repoint(g) ==
  [r \in Relationship |->
    IF r \in DOMAIN g.found \cap Stored THEN Repointed(g, rel[r], g.found[r]) ELSE rel[r]]

(* The UPDATE of a relationship that is gone matches no row, which fails the *)
(* flush (MergeFails), unless it is one of several sent together: then it    *)
(* passes unnoticed.  Two of the same triple violate the constraint.         *)
Mergeable(g) ==
  /\ DOMAIN g.found \subseteq Stored \/ Cardinality(DOMAIN g.found) > 1
  /\ Unique(Repoint(g))

(* What the UPDATE leaves; it names the column only when the list changed.   *)
AliasesSet(g) == IF MergedAliases(g) = g.mine THEN aliases[g.primary] ELSE MergedAliases(g)

FinishMerge(m) ==
  LET g == merge[m]
      p == g.primary
  IN /\ g.at = "flush" /\ Mergeable(g)
     /\ rel' = Repoint(g)
     /\ aliases' = [aliases EXCEPT ![p] = AliasesSet(g)]
     /\ merged' = merged \cup {<<g.duplicate, p>>}
     /\ rewritten' = IF aliases[p] = g.mine THEN rewritten ELSE rewritten \cup {p}
     /\ merge' = [merge EXCEPT ![m] = NoMerge]
     /\ UNCHANGED <<born, walk, merges, edits>>

MergeFails(m) ==
  /\ ~NotMerging(m)
  /\ merge' = [merge EXCEPT ![m] = NoMerge]
  /\ UNCHANGED <<graph, walk, history, edits>>

-----------------------------------------------------------------------------
(* get_entity_graph: breadth first, a SELECT of neighbours a step *)

StartWalk(v, e) ==
  /\ walk[v] = NoWalk /\ Exists(e)
  /\ \E depth \in 1..MaxDepth :
       walk' = [walk EXCEPT ![v] =
         [center |-> e, depth |-> depth, left |-> depth, frontier |-> {e}, next |-> {},
          nodes |-> {e}, edges |-> NoEdges]]
  /\ UNCHANGED <<graph, merge, history, edits>>

Full(nodes) == Cardinality(nodes) >= MaxNodes

(* A row the session has loaded before keeps the ends it had then, though it *)
(* is found by the ends it has now.                                          *)
Seen(w, r) == IF r \in DOMAIN w.edges THEN w.edges[r] ELSE rel[r]

(* Mutant: the neighbour is always the target.                               *)
Other_Target(n, row) == row.target

Other(n, row) == IF row.source = n THEN row.target ELSE row.source

(* The nodes there are once the edges in taken, of node n, were visited.     *)
Reached(w, n, taken) == w.nodes \cup {Other(n, Seen(w, r)) : r \in taken}

(* The nodes of the frontier, and the edges of a node, come in any order:    *)
(* those are visited that come before the traversal is full.                 *)
Visited(w, n) ==
  {taken \in SUBSET Touching(n) :
    /\ taken = Touching(n) \/ Full(Reached(w, n, taken))
    /\ taken = {} \/ \E last \in taken : ~Full(Reached(w, n, taken \ {last}))}

Expand(v) ==
  LET w == walk[v]
  IN /\ w # NoWalk
     /\ \E n \in w.frontier : \E taken \in Visited(w, n) :
          walk' = [walk EXCEPT ![v] =
            [w EXCEPT !.frontier = @ \ {n}, !.nodes = Reached(w, n, taken),
                      !.next = @ \cup (Reached(w, n, taken) \ w.nodes),
                      !.edges = [r \in DOMAIN @ \cup taken |-> Seen(w, r)]]]
     /\ UNCHANGED <<graph, merge, history, edits>>

(* Mutant: the depth asked for is ignored.                                   *)
Over_AnyDepth(w) == w.next = {} \/ Full(w.nodes)

Over(w) == w.left = 1 \/ w.next = {} \/ Full(w.nodes)

NextLevel(v) ==
  LET w == walk[v]
  IN /\ w # NoWalk /\ w.frontier = {} /\ ~Over(w)
     /\ walk' = [walk EXCEPT ![v] = [w EXCEPT !.left = @ - 1, !.frontier = w.next, !.next = {}]]
     /\ UNCHANGED <<graph, merge, history, edits>>

Answering(w) == w # NoWalk /\ w.frontier = {} /\ Over(w)

Respond(v) ==
  /\ Answering(walk[v])
  /\ walk' = [walk EXCEPT ![v] = NoWalk]
  /\ UNCHANGED <<graph, merge, history, edits>>

-----------------------------------------------------------------------------
(* The endpoints; resolving a name (EntityNames) changes nothing.            *)
GraphRequest ==
  \/ \E e \in Entity : CreateEntity(e) \/ UpdateEntity(e)
  \/ \E r \in Relationship, s, t \in Entity : CreateRelationship(r, s, t)
  \/ \E r \in Relationship : DeleteRelationship(r)
  \/ \E m \in Merger, p, d \in Entity : StartMerge(m, p, d)
  \/ \E v \in Reader, e \in Entity : StartWalk(v, e)

GraphNext ==
  \/ GraphRequest
  \/ \E m \in Merger :
       ReadDuplicate(m) \/ ReadRelationships(m) \/ FinishMerge(m) \/ MergeFails(m)
  \/ \E v \in Reader : Expand(v) \/ NextLevel(v) \/ Respond(v)

GraphSpec == GraphInit /\ [][GraphNext]_knowledge

-----------------------------------------------------------------------------
(* Properties *)

(* Whether these merges may have taken an end born at b to e: every set of   *)
(* entities that has b, and with a duplicate its primary, has e.             *)
MayEndAt(pairs, b, e) ==
  \A S \in SUBSET Entity :
    b \in S /\ (\A x \in pairs : x[1] \in S => x[2] \in S) => e \in S

(* entity_resolution_service.py:5-6, "repointing all relationships": however *)
(* merges overlap, fail and follow each other, an end of a relationship is   *)
(* the entity it was created with or one that entity was merged into, step by*)
(* step; and only a merge makes a relationship of an entity with itself.     *)
EndsFollowMerges ==
  \A r \in Stored :
    /\ MayEndAt(merged, born[r].source, rel[r].source)
    /\ MayEndAt(merged, born[r].target, rel[r].target)
    /\ rel[r].source = rel[r].target => merged # {}

(* entity_resolution_service.py:5, "unioning aliases": an entity keeps the   *)
(* names of all that was merged into it, unless a PATCH set its aliases, or a*)
(* merge that had read them before another one changed them.                 *)
NamesSurviveMerges ==
  \A x \in merged : x[2] \notin rewritten => x[1] \in aliases[x[2]]

(* entity_resolution_service.py:5 as it stands: where nobody sets aliases, an*)
(* entity has the names of all that was merged into it.                      *)
NoNameIsLost == \A x \in merged : x[1] \in aliases[x[2]]

(* Whether the edges lead from the center to every node: dist counts them.   *)
Leads(w, dist) ==
  \A n \in w.nodes :
    \/ dist[n] = 0 /\ n = w.center
    \/ \E r \in DOMAIN w.edges : \E m \in w.nodes :
         /\ {n, m} = {w.edges[r].source, w.edges[r].target}
         /\ dist[m] < dist[n]

(* knowledge_graph_service.py:1, "bounded-depth graph traversal": whatever   *)
(* merges and deletions went on meanwhile, an answer is a graph: its edges   *)
(* are between its nodes, which are no more than the limit, each within depth*)
(* edges of the center.                                                      *)
AnswersAreGraphs ==
  \A v \in Reader : Answering(walk[v]) =>
    LET w == walk[v]
    IN /\ \A r \in DOMAIN w.edges : {w.edges[r].source, w.edges[r].target} \subseteq w.nodes
       /\ Cardinality(w.nodes) <= MaxNodes
       /\ \E dist \in [w.nodes -> 0..w.depth] : Leads(w, dist)

Population == Cardinality({e \in Entity : Exists(e)})

(* name_normalization.py:41-47 and entity_resolution_service.py:2-4: whatever*)
(* the entities that exist are called, and whatever somebody calls them,     *)
(* persons are recognised by their names, and what is nearly a person's name *)
(* is put forward for review, unless two entities bear the name looked up.   *)
PersonsAreRecognised == \A n \in 0..MaxRows : n <= Population => Recognised[n]

(* entity_resolution_service.py:2-4 promises that without exception: "finds  *)
(* an exact normalized-name match if one exists".                            *)
ExactMatchIsFound == \A n \in 0..MaxRows : n <= Population => ExactlyMatched[n]
=============================================================================
