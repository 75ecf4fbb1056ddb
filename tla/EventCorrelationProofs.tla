----------------------- MODULE EventCorrelationProofs -----------------------
(***************************************************************************)
(* Proofs about event correlation: the greedy loops of the rules, for any  *)
(* alerts, any rules and any order of the list; then, by one inductive     *)
(* invariant, the safety properties of the passes.                         *)
(***************************************************************************)
EXTENDS EventCorrelation, FiniteSetTheorems, WellFoundedInduction, TLAPS

-----------------------------------------------------------------------------
(* Lists of alerts *)

(* A set of natural numbers has a least element.                             *)
LEMMA LeastNat ==
  ASSUME NEW T \in SUBSET Nat, T # {}
  PROVE  \E x \in T : \A y \in T : x <= y
<1> DEFINE R == OpToRel(<, Nat)
<1>1. IsWellFoundedOn(R, Nat)
  BY NatLessThanWellFounded
<1>2. \A x, y \in Nat : y < x => <<y, x>> \in R
  BY DEF OpToRel
<1> HIDE DEF R
<1>3. PICK x \in T : \A y \in T : ~ (<<y, x>> \in R)
  BY <1>1, WFMin
<1>4. \A y \in T : ~(y < x)
  BY <1>2, <1>3
<1> QED
  BY <1>4

(* A list has a place for each of its alerts.                                *)
LEMMA OrderLemma ==
  ASSUME NEW r \in Rule, NEW S \in SUBSET Alert, NEW list \in Orders[S]
  PROVE  /\ DOMAIN list = S
         /\ \A a \in S : list[a] \in Nat
         /\ \A a, b \in S : a # b => list[a] # list[b]
         /\ IsFiniteSet(S)
<1>1. IsFiniteSet(S)
  BY GroupingAssumption, FS_Subset
<1>2. Cardinality(S) \in Nat
  BY <1>1, FS_CardinalityType
<1>3. list \in Bijection(S, 1..Cardinality(S))
  BY DEF Orders
<1> QED
  BY <1>1, <1>2, <1>3 DEF Bijection, Injection, IsInjective, Surjection

(* The loops go through the candidates one after the other.                  *)
LEMMA BeforeIsTotalOrder ==
  ASSUME NEW r \in Rule, NEW S \in SUBSET Alert, NEW list \in Orders[S]
  PROVE  /\ \A a \in S : ~Before(r, list, a, a)
         /\ \A a, b \in S : a = b \/ Before(r, list, a, b) \/ Before(r, list, b, a)
         /\ \A a, b, c \in S : Before(r, list, a, b) /\ Before(r, list, b, c) => Before(r, list, a, c)
<1>1. /\ \A a \in S : list[a] \in Nat
      /\ \A a, b \in S : a # b => list[a] # list[b]
  BY OrderLemma
<1>2. \A a \in S : AlertRow[a].created \in Nat
  BY GroupingAssumption DEF AlertRows
<1> QED
  BY <1>1, <1>2 DEF Before

(* A nonempty set of alerts of a list has a first.                           *)
LEMMA FirstAlert ==
  ASSUME NEW r \in Rule, NEW S \in SUBSET Alert, NEW list \in Orders[S],
         NEW T \in SUBSET S, T # {}
  PROVE  \E a \in T : \A b \in T : ~Before(r, list, b, a)
<1>1. PICK a0 \in T : \A b \in T : AlertRow[a0].created <= AlertRow[b].created
  <2> DEFINE C == {AlertRow[a].created : a \in T}
  <2>1. C \in SUBSET Nat /\ C # {}
    BY GroupingAssumption DEF AlertRows
  <2>2. PICK x \in C : \A y \in C : x <= y
    BY <2>1, LeastNat
  <2> QED
    BY <2>2
<1> DEFINE U == IF RuleRow[r].type = "temporal" 
                THEN {b \in T : AlertRow[b].created = AlertRow[a0].created} ELSE T
<1>2. PICK a \in U : \A b \in U : list[a] <= list[b]
  <2> DEFINE C == {list[b] : b \in U}
  <2>1. C \in SUBSET Nat /\ C # {}
    BY OrderLemma
  <2>2. PICK x \in C : \A y \in C : x <= y
    BY <2>1, LeastNat
  <2> QED
    BY <2>2
<1>3. \A b \in T : ~Before(r, list, b, a)
  <2>1. \A b \in S : AlertRow[b].created \in Nat /\ list[b] \in Nat
    BY GroupingAssumption, OrderLemma DEF AlertRows
  <2> QED
    BY <1>1, <1>2, <2>1 DEF Before
<1> QED
  BY <1>3

(* What a candidate takes, of what those before it have taken.               *)
TakenBefore(r, list, t, a) == UNION {t[b] : b \in {c \in Candidates(r, list) : Before(r, list, c, a)}}

Turn(r, list, t, a) == Anchor(r, a, TakenBefore(r, list, t, a), Around(r, list, a))

(* How far the loop has gone: candidates with all those before them, and what*)
(* they took.                                                                *)
Stages(r, list) ==
  {D \in SUBSET Candidates(r, list) :
    /\ \A a \in D, c \in Candidates(r, list) : Before(r, list, c, a) => c \in D
    /\ \E t \in [D -> SUBSET Candidates(r, list)] : \A a \in D : t[a] = Turn(r, list, t, a)}

(* An anchor takes candidates only.                                          *)
LEMMA TurnType ==
  ASSUME NEW r, NEW list, NEW t, NEW a \in Candidates(r, list)
  PROVE  Turn(r, list, t, a) \in SUBSET Candidates(r, list)
BY DEF Turn, Anchor, Around

(* While candidates are left the loop goes on with the first of them.        *)
LEMMA NextStage ==
  ASSUME NEW r \in Rule, NEW S \in SUBSET Alert, NEW list \in Orders[S],
         NEW D \in Stages(r, list), D # Candidates(r, list)
  PROVE  \E a \in Candidates(r, list) \ D : D \cup {a} \in Stages(r, list)
<1> DEFINE C == Candidates(r, list)
<1>1. C \subseteq S
  BY OrderLemma DEF Candidates
<1>2. PICK a \in C \ D : \A b \in C \ D : ~Before(r, list, b, a)
  <2>1. C \ D # {} /\ C \ D \in SUBSET S
    BY <1>1 DEF Stages
  <2> QED
    BY <2>1, FirstAlert
<1>3. \A b \in C : Before(r, list, b, a) => b \in D
  BY <1>2
<1>4. PICK t \in [D -> SUBSET C] : \A x \in D : t[x] = Turn(r, list, t, x)
  BY DEF Stages
<1> DEFINE u == [x \in D \cup {a} |-> IF x \in D THEN t[x] ELSE Turn(r, list, t, a)]
<1>5. \A x \in D, b \in C : Before(r, list, b, x) => b \in D
  BY DEF Stages
<1>6. \A x \in D \cup {a} : TakenBefore(r, list, u, x) = TakenBefore(r, list, t, x)
  <2> SUFFICES ASSUME NEW x \in D \cup {a}
               PROVE  TakenBefore(r, list, u, x) = TakenBefore(r, list, t, x)
    OBVIOUS
  <2>1. \A b \in {c \in C : Before(r, list, c, x)} : b \in D /\ u[b] = t[b]
    BY <1>3, <1>5
  <2> HIDE DEF u
  <2> QED
    BY <2>1 DEF TakenBefore
<1>7. \A x \in D \cup {a} : u[x] = Turn(r, list, t, x)
  BY <1>4
<1>8. \A x \in D \cup {a} : u[x] = Turn(r, list, u, x)
  BY <1>6, <1>7 DEF Turn
<1>9. u \in [D \cup {a} -> SUBSET C]
  <2>1. Turn(r, list, t, a) \in SUBSET C
    BY <1>2, TurnType
  <2> QED
    BY <1>4, <2>1
<1>10. D \cup {a} \in SUBSET C
  BY <1>2 DEF Stages
<1>11. \A x \in D \cup {a}, b \in C : Before(r, list, b, x) => b \in D \cup {a}
  BY <1>3, <1>5
<1> HIDE DEF u
<1>12. D \cup {a} \in Stages(r, list)
  BY <1>8, <1>9, <1>10, <1>11 DEF Stages
<1> QED
  BY <1>2, <1>12

(* The loop comes to its end: every candidate has its turn, and takes what   *)
(* the definition says.                                                      *)
LEMMA TakenEquation ==
  ASSUME NEW r \in Rule, NEW S \in SUBSET Alert, NEW list \in Orders[S]
  PROVE  /\ Candidates(r, list) \subseteq S
         /\ \A a \in Candidates(r, list) :
              /\ Taken(r, list)[a] = Turn(r, list, Taken(r, list), a)
              /\ Taken(r, list)[a] \subseteq Candidates(r, list)
<1> DEFINE C == Candidates(r, list)
           Left == {C \ D : D \in Stages(r, list)}
<1>1. C \subseteq S /\ IsFiniteSet(C)
  BY OrderLemma, FS_Subset DEF Candidates
<1>2. {} \in Stages(r, list)
  <2>1. [a \in {} |-> {}] \in [{} -> SUBSET C]
    OBVIOUS
  <2> QED
    BY <2>1 DEF Stages
<1>3. Left \subseteq FiniteSubsetsOf(C) /\ Left # {}
  <2>1. Left \subseteq SUBSET C
    OBVIOUS
  <2>2. FiniteSubsetsOf(C) = SUBSET C
    BY <1>1, FS_FiniteSubsetsOfFinite
  <2> QED
    BY <1>2, <2>1, <2>2
<1>4. PICK X \in Left : \A Y \in Left : ~(<<Y, X>> \in StrictSubsetOrdering(C))
  <2>1. IsWellFoundedOn(StrictSubsetOrdering(C), FiniteSubsetsOf(C))
    BY FS_StrictSubsetOrderingWellFounded
  <2> QED
    BY <1>3, <2>1, WFMin
<1>5. PICK D \in Stages(r, list) : X = C \ D
  OBVIOUS
<1>6. D = C
  <2> SUFFICES ASSUME D # C PROVE FALSE
    OBVIOUS
  <2>1. PICK a \in C \ D : D \cup {a} \in Stages(r, list)
    BY NextStage
  <2>2. C \ (D \cup {a}) \in Left
    BY <2>1
  <2>3. <<C \ (D \cup {a}), C \ D>> \in StrictSubsetOrdering(C)
    BY <2>1 DEF StrictSubsetOrdering
  <2> QED
    BY <1>4, <1>5, <2>2, <2>3
<1>7. PICK t \in [C -> SUBSET C] : \A a \in C : t[a] = Turn(r, list, t, a)
  BY <1>6 DEF Stages
<1>8. t = [a \in C |-> Anchor(r, a, UNION {t[b] : b \in {c \in C : Before(r, list, c, a)}}, Around(r, list, a))]
  BY <1>7 DEF Turn, TakenBefore
<1> DEFINE T == Taken(r, list)
<1>9. T = [a \in C |-> Anchor(r, a, UNION {T[b] : b \in {c \in C : Before(r, list, c, a)}}, Around(r, list, a))]
  BY <1>8, Zenon DEF Taken
<1>10. \A a \in C : T[a] = Turn(r, list, T, a)
  BY <1>9 DEF Turn, TakenBefore
<1> QED
  BY <1>1, <1>10, TurnType
(* More alerts than enough are enough.                                       *)
LEMMA LargerIsLargeEnough ==
  ASSUME NEW r \in Rule, NEW B \in SUBSET Alert, NEW A \in SUBSET B, LargeEnough(r, A)
  PROVE  LargeEnough(r, B)
<1>1. IsFiniteSet(B)
  BY GroupingAssumption, FS_Subset
<1>2. Cardinality(A) \in Nat /\ Cardinality(B) \in Nat /\ Cardinality(A) <= Cardinality(B)
  BY <1>1, FS_Subset, FS_CardinalityType
<1>3. RuleRow[r].threshold \in Nat
  BY GroupingAssumption DEF RuleRows
<1> QED
  BY <1>2, <1>3 DEF LargeEnough

(* The schema asks for a threshold of at least two.                          *)
LEMMA OneIsNotEnough ==
  ASSUME NEW r \in Rule, NEW a
  PROVE  ~LargeEnough(r, {a})
<1>1. Cardinality({a}) = 1
  BY FS_Singleton
<1>2. RuleRow[r].threshold \in Nat \ {0, 1}
  BY GroupingAssumption DEF RuleRows
<1> QED
  BY <1>1, <1>2 DEF LargeEnough

(* A group somebody took, and its anchor.                                    *)
LEMMA TakenGroup ==
  ASSUME NEW r \in Rule, NEW S \in SUBSET Alert, NEW list \in Orders[S],
         NEW a \in Candidates(r, list)
  PROVE  LET T == Taken(r, list)
             used == TakenBefore(r, list, T, a)
             group == {a} \cup (Around(r, list, a) \ used)
         IN T[a] = IF a \in used \/ ~LargeEnough(r, group) THEN {} ELSE group
BY TakenEquation DEF Turn, Anchor

(* No alert is taken by two anchors.                                         *)
LEMMA TakenApart ==
  ASSUME NEW r \in Rule, NEW S \in SUBSET Alert, NEW list \in Orders[S],
         NEW a \in Candidates(r, list), NEW b \in Candidates(r, list), a # b
  PROVE  Taken(r, list)[a] \cap Taken(r, list)[b] = {}
<1> DEFINE T == Taken(r, list)
<1>1. \A x, y \in Candidates(r, list) : Before(r, list, x, y) => T[x] \cap T[y] = {}
  <2> SUFFICES ASSUME NEW x \in Candidates(r, list), NEW y \in Candidates(r, list),
                      Before(r, list, x, y)
               PROVE  T[x] \cap T[y] = {}
    OBVIOUS
  <2>1. T[x] \subseteq TakenBefore(r, list, T, y)
    BY DEF TakenBefore
  <2>2. T[y] \cap TakenBefore(r, list, T, y) = {}
    <3> DEFINE used == TakenBefore(r, list, T, y)
    <3>1. \/ T[y] = {}
          \/ y \notin used /\ T[y] = {y} \cup (Around(r, list, y) \ used)
      BY TakenGroup, Zenon
    <3> HIDE DEF used, T
    <3>2. T[y] \cap used = {}
      BY <3>1
    <3> QED
      BY <3>2 DEF used
  <2> QED
    BY <2>1, <2>2
<1>2. Before(r, list, a, b) \/ Before(r, list, b, a)
  BY TakenEquation, BeforeIsTotalOrder
<1> QED
  BY <1>1, <1>2

(* A group is around its anchor.                                             *)
LEMMA AroundAnchor ==
  ASSUME NEW r \in Rule, NEW S \in SUBSET Alert, NEW list \in Orders[S],
         NEW a \in Candidates(r, list), Taken(r, list)[a] # {}
  PROVE  LET g == Taken(r, list)[a]
         IN g \subseteq S /\ LargeEnough(r, g) /\ a \in g /\ \A b \in g : b = a \/ Related(r, a, b)
<1>1. \A b \in Around(r, list, a) : Related(r, a, b)
  BY DEF Around
<1> DEFINE used == TakenBefore(r, list, Taken(r, list), a)
           group == {a} \cup (Around(r, list, a) \ used)
<1>2. Taken(r, list)[a] = group /\ LargeEnough(r, group)
  BY TakenGroup
<1>3. Taken(r, list)[a] \subseteq S
  BY TakenEquation
<1> QED
  BY <1>1, <1>2, <1>3

(* What is related to a candidate that is left over, and left over as well,  *)
(* is not enough: the first of them would have made a group.                 *)
LEMMA LeftOver ==
  ASSUME NEW r \in Rule, RuleRow[r].type # "category",
         NEW S \in SUBSET Alert, NEW list \in Orders[S],
         NEW left \in SUBSET S, \A c \in Candidates(r, list) : left \cap Taken(r, list)[c] = {},
         NEW a \in left
  PROVE  ~LargeEnough(r, {a} \cup {b \in left : Related(r, a, b)})
<1> DEFINE T == Taken(r, list)
           C == Candidates(r, list)
           A == {a} \cup {b \in left : Related(r, a, b)}
<1>1. RuleRow[r].type \in {"spatial", "temporal"}
  BY GroupingAssumption DEF RuleRows
<1>2. DOMAIN list = S
  BY OrderLemma
<1>3. C \subseteq S
  BY TakenEquation
<1>4. CASE a \notin C
  <2>1. A = {a}
    BY <1>1, <1>2, <1>4 DEF Candidates, Related, Near
  <2> QED
    BY <2>1, OneIsNotEnough
<1>5. CASE a \in C
  <2>1. A \subseteq C
    BY <1>1, <1>2, <1>5 DEF Candidates, Related, Near
  <2>2. PICK m \in A : /\ \A b \in A : b = m \/ Related(r, m, b)
                       /\ RuleRow[r].type = "temporal" => \A b \in A : b = m \/ Before(r, list, m, b)
    <3>1. CASE RuleRow[r].type = "spatial"
      BY <3>1
    <3>2. CASE RuleRow[r].type = "temporal"
      <4>1. PICK m \in A : \A b \in A : ~Before(r, list, b, m)
        BY <1>3, <2>1, FirstAlert
      <4>2. \A b \in A : b = m \/ Before(r, list, m, b)
        BY <1>3, <2>1, <4>1, BeforeIsTotalOrder
      <4>3. \A b \in A : AlertRow[b].created \in Nat /\ RuleRow[r].span \in Nat
        BY <1>3, <2>1, GroupingAssumption DEF AlertRows, RuleRows
      <4>4. AlertRow[m].created = AlertRow[a].created
        <5>1. m = a \/ InWindow(r, a, m)
          BY <3>2 DEF Related
        <5>2. m = a \/ Before(r, list, m, a)
          BY <4>2
        <5> QED
          BY <3>2, <4>3, <5>1, <5>2 DEF InWindow, Before
      <4>5. \A b \in A : b = m \/ Related(r, m, b)
        <5> SUFFICES ASSUME NEW b \in A, b # m PROVE Related(r, m, b)
          OBVIOUS
        <5>1. Wanted(r, m) /\ Wanted(r, b)
          BY <2>1, <3>2 DEF Candidates
        <5>2. InWindow(r, m, b)
          <6>1. b = a \/ InWindow(r, a, b)
            BY <3>2 DEF Related
          <6> QED
            BY <4>3, <4>4, <6>1 DEF InWindow
        <5> QED
          BY <3>2, <5>1, <5>2 DEF Related
      <4> QED
        BY <4>2, <4>5
    <3> QED
      BY <1>1, <3>1, <3>2
  <2> DEFINE used == TakenBefore(r, list, T, m)
             group == {m} \cup (Around(r, list, m) \ used)
  <2>3. left \cap used = {}
    BY DEF TakenBefore
  <2>4. A \subseteq group
    BY <2>1, <2>2, <2>3 DEF Around
  <2>5. m \notin used /\ m \in left /\ m \in C
    BY <2>1, <2>3
  <2>6. T[m] = IF m \in used \/ ~LargeEnough(r, group) THEN {} ELSE group
    BY <2>5, TakenGroup
  <2> HIDE DEF used, group, A, T
  <2>7. ~LargeEnough(r, group)
    <3>1. m \notin T[m]
      BY <2>5 DEF T
    <3> QED
      BY <2>5, <2>6, <3>1 DEF group
  <2>8. group \in SUBSET Alert
    BY <1>3, <2>5 DEF group, Around
  <2> QED
    BY <2>4, <2>7, <2>8, LargerIsLargeEnough DEF A
<1> QED
  BY <1>4, <1>5

(* Whatever the rule, the alerts and the order they come in.                 *)
THEOREM GroupingIsSound ==
  ASSUME NEW r \in Rule, NEW S \in SUBSET Alert, NEW list \in Orders[S]
  PROVE  SoundGrouping(r, S, Groups(r, list))
<1>1. CASE RuleRow[r].type = "category"
  <2> DEFINE Same(a) == {b \in S : Related(r, a, b)}
  <2>1. Groups(r, list) = {g \in {Same(a) : a \in S} : LargeEnough(r, g)}
    <3>1. DOMAIN list = S
      BY OrderLemma
    <3> QED
      BY <1>1, <3>1 DEF Groups, CategoryGroups
  <2>2. \A a, b \in S : Related(r, a, b) <=> AlertRow[a].category = AlertRow[b].category
    BY <1>1 DEF Related
  <2>3. ASSUME NEW g \in Groups(r, list)
        PROVE  /\ g \subseteq S /\ LargeEnough(r, g)
               /\ \E a \in g : \A b \in g : b = a \/ Related(r, a, b)
               /\ \A h \in Groups(r, list) : g = h \/ g \cap h = {}
    <3>1. PICK a \in S : g = Same(a)
      BY <2>1
    <3>2. \A h \in Groups(r, list) : g = h \/ g \cap h = {}
      BY <2>1, <2>2, <3>1
    <3> QED
      BY <2>1, <2>2, <3>1, <3>2
  <2>4. ASSUME NEW a \in S \ UNION Groups(r, list)
        PROVE  ~LargeEnough(r, {a} \cup {b \in S \ UNION Groups(r, list) : Related(r, a, b)})
    <3>1. a \in Same(a)
      BY <2>2
    <3>2. ~LargeEnough(r, Same(a))
      BY <2>1, <2>4, <3>1
    <3>3. {a} \cup {b \in S \ UNION Groups(r, list) : Related(r, a, b)} \in SUBSET Same(a)
      BY <3>1
    <3> QED
      BY <3>2, <3>3, LargerIsLargeEnough
  <2> QED
    BY <2>3, <2>4 DEF SoundGrouping
<1>2. CASE RuleRow[r].type # "category"
  <2> DEFINE C == Candidates(r, list)
             T == Taken(r, list)
  <2>1. Groups(r, list) = {T[a] : a \in C} \ {{}}
    BY <1>2 DEF Groups
  <2>2. ASSUME NEW g \in Groups(r, list)
        PROVE  /\ g \subseteq S /\ LargeEnough(r, g)
               /\ \E a \in g : \A b \in g : b = a \/ Related(r, a, b)
               /\ \A h \in Groups(r, list) : g = h \/ g \cap h = {}
    <3>1. PICK a \in C : g = T[a] /\ T[a] # {}
      BY <2>1
    <3>2. \A h \in Groups(r, list) : g = h \/ g \cap h = {}
      <4> SUFFICES ASSUME NEW h \in Groups(r, list) PROVE g = h \/ g \cap h = {}
        OBVIOUS
      <4>1. PICK b \in C : h = T[b]
        BY <2>1
      <4> QED
        BY <3>1, <4>1, TakenApart
    <3>3. /\ g \subseteq S /\ LargeEnough(r, g)
          /\ a \in g /\ \A b \in g : b = a \/ Related(r, a, b)
      BY <3>1, AroundAnchor
    <3> QED
      BY <3>2, <3>3
  <2> DEFINE left == S \ UNION Groups(r, list)
  <2>3. \A c \in C : left \cap T[c] = {}
    BY <2>1
  <2>4. \A a \in left : ~LargeEnough(r, {a} \cup {b \in left : Related(r, a, b)})
    <3> SUFFICES ASSUME NEW a \in left
                 PROVE  ~LargeEnough(r, {a} \cup {b \in left : Related(r, a, b)})
      OBVIOUS
    <3>1. left \in SUBSET S
      OBVIOUS
    <3> HIDE DEF left
    <3> QED
      BY <1>2, <2>3, <3>1, LeftOver
  <2> QED
    BY <2>2, <2>4 DEF SoundGrouping
<1> QED
  BY <1>1, <1>2

-----------------------------------------------------------------------------
(* The inductive invariant *)

Drafted(p) == IF draft[p] = Raises THEN {} ELSE draft[p]

(* A cluster a pass has made holds alerts of its organisation, and is        *)
(* escalated exactly when its incident has been made.                        *)
WellMade(c) ==
  /\ RuleRow[c.rule].org \in {Global, c.org}
  /\ \A a \in c.group : AlertRow[a].org = c.org
  /\ c.status = "escalated" <=> c.incident
  /\ c.no = 0

(* Where a pass is, and what it holds there.                                 *)
PassesInPlace ==
  \A p \in Pass :
    /\ pc[p] \in {"scan", "rules", "apply"} => org[p] \in todo[p]
    /\ pc[p] # "apply" => draft[p] = {}
    /\ pc[p] \notin {"rules", "apply"} => scanned[p] = {}
    /\ \A a \in scanned[p] : AlertRow[a].org = org[p]
    /\ pc[p] \in {"idle", "list", "release"} => fresh[p] = {}
    /\ since[p] <= commits
    /\ claimed[p] \cap scanned[p] = {}

(* What the rules made of the alerts scanned.                                *)
DraftsInOrder ==
  \A p \in Pass : \A c \in Drafted(p) :
    /\ c.org = org[p] /\ c.since = since[p] /\ c.group \subseteq scanned[p]
    /\ WellMade(c)
    /\ \A d \in Drafted(p) : c.rule = d.rule => c = d \/ c.group \cap d.group = {}

(* What a pass has flushed: organisations it has done, alerts nobody can     *)
(* delete now, one cluster of an alert and a rule.                           *)
FlushedInOrder ==
  \A p \in Pass : \A c \in fresh[p] :
    /\ c.org \notin todo[p] /\ c.since <= commits
    /\ WellMade(c)
    /\ \A a \in c.group : alert[a] # "deleted"
    /\ \A d \in fresh[p] : c.rule = d.rule => c = d \/ c.group \cap d.group = {}

(* The active clusters its first SELECT could see are claimed, and so what a *)
(* pass flushed is apart from them.                                          *)
ClaimsKept ==
  \A p \in Pass, d \in cluster : d.status = "active" =>
    /\ pc[p] \in {"scan", "rules", "apply"} /\ d.org = org[p] /\ d.no <= since[p]
         => Members(d) \subseteq claimed[p]
    /\ \A c \in fresh[p] : d.no <= c.since => c.group \cap Members(d) = {}

ClustersNumbered == \A c \in cluster : c.no \in 1..commits

CorrelationInv ==
  /\ TypeOK /\ PassesInPlace /\ DraftsInOrder /\ FlushedInOrder /\ ClaimsKept /\ ClustersNumbered
  /\ SharedOnlyByOverlap /\ EscalationIsWhole /\ TenantsApart /\ GroupsAreSound

-----------------------------------------------------------------------------
(* Types *)

(* A cluster a pass makes is a row.                                          *)
LEMMA NewClusterType ==
  ASSUME TypeOK, NEW p \in Pass, NEW r \in Rule, org[p] \in Org, NEW d,
         d.group \in SUBSET Alert, d.escalates \in BOOLEAN
  PROVE  NewCluster(p, r, d) \in ClusterRows
BY DEF TypeOK, NewCluster, ClusterRows, ClusterStatus

(* The drafts of a list are groups of its alerts, as many as the rule wants. *)
LEMMA DraftsAreGroups ==
  ASSUME NEW r \in Rule, NEW S \in SUBSET Alert, NEW list \in Orders[S]
  PROVE  /\ Drafts[r][list] = {[group |-> g, escalates |-> Escalates(r, g)] : g \in Groups(r, list)}
         /\ \A d \in Drafts[r][list] : d.group \in SUBSET S /\ d.escalates \in BOOLEAN
<1>1. Drafts[r][list] = {[group |-> g, escalates |-> Escalates(r, g)] : g \in Groups(r, list)}
  BY DEF Drafts
<1>2. \A g \in Groups(r, list) : g \in SUBSET S
  BY GroupingIsSound DEF SoundGrouping
<1>3. \A g \in Groups(r, list) : Escalates(r, g) \in BOOLEAN
  BY DEF Escalates
<1> QED
  BY <1>1, <1>2, <1>3

LEMMA ActiveRulesType == \A o : ActiveRules(o) \subseteq Rule
BY DEF ActiveRules

LEMMA EditType == TypeOK /\ Edit => edits' \in Nat
BY CorrelationAssumption DEF TypeOK, Edit

LEMMA FaultType == TypeOK /\ Fault => faults' \in Nat
BY CorrelationAssumption DEF TypeOK, Fault

USE DEF pass, bounds

(* What analysts do keeps the types.                                         *)
LEMMA TypeRequests ==
  ASSUME TypeOK,
         \/ \E a \in Alert : CreateAlert(a) \/ AgeOut(a) \/ DismissAlert(a) \/ DeleteAlert(a)
         \/ \E r \in Rule : CreateRule(r)
         \/ \E o \in Org, r \in Rule : UpdateRule(o, r) \/ DeleteRule(o, r)
         \/ \E o \in Org, c \in cluster : DismissCluster(o, c)
         \/ \E o \in Org : UpdateOrganization(o)
  PROVE  TypeOK'
<1>1. ASSUME NEW a \in Alert, CreateAlert(a)
      PROVE  TypeOK'
  BY <1>1 DEF CreateAlert, TypeOK
<1>2. ASSUME NEW a \in Alert, AgeOut(a)
      PROVE  TypeOK'
  BY <1>2, EditType DEF AgeOut, TypeOK
<1>3. ASSUME NEW a \in Alert, DismissAlert(a)
      PROVE  TypeOK'
  BY <1>3, EditType DEF DismissAlert, TypeOK
<1>4. ASSUME NEW a \in Alert, DeleteAlert(a)
      PROVE  TypeOK'
  BY <1>4, EditType DEF DeleteAlert, TypeOK
<1>5. ASSUME NEW r \in Rule, CreateRule(r)
      PROVE  TypeOK'
  BY <1>5, EditType DEF CreateRule, TypeOK, GivenRule
<1>6. ASSUME NEW o \in Org, NEW r \in Rule, UpdateRule(o, r)
      PROVE  TypeOK'
  BY <1>6, EditType DEF UpdateRule, TypeOK, GivenRule
<1>7. ASSUME NEW o \in Org, NEW r \in Rule, DeleteRule(o, r)
      PROVE  TypeOK'
  BY <1>7, EditType DEF DeleteRule, TypeOK
<1>8. ASSUME NEW o \in Org, NEW c \in cluster, DismissCluster(o, c)
      PROVE  TypeOK'
  <2>1. [c EXCEPT !.status = "dismissed"] \in ClusterRows
    BY DEF TypeOK, ClusterRows, ClusterStatus
  <2> QED
    BY <1>8, <2>1, EditType DEF DismissCluster, TypeOK
<1>9. ASSUME NEW o \in Org, UpdateOrganization(o)
      PROVE  TypeOK'
  BY <1>9, EditType DEF UpdateOrganization, TypeOK
<1> QED
  BY <1>1, <1>2, <1>3, <1>4, <1>5, <1>6, <1>7, <1>8, <1>9

(* The ends of a pass keep the types.                                        *)
LEMMA ForgetType ==
  ASSUME TypeOK, NEW p \in Pass, Forget(p)
  PROVE  /\ org' \in [Pass -> Org \cup {None}] /\ claimed' \in [Pass -> SUBSET Alert]
         /\ since' \in [Pass -> Nat] /\ scanned' \in [Pass -> SUBSET Alert]
         /\ rules' \in [Pass -> SUBSET Rule] /\ draft' \in [Pass -> (SUBSET ClusterRows) \cup {Raises}]
BY DEF TypeOK, Forget

LEMMA IdlePassType ==
  ASSUME TypeOK, NEW p \in Pass, IdlePass(p)
  PROVE  /\ org' \in [Pass -> Org \cup {None}] /\ claimed' \in [Pass -> SUBSET Alert]
         /\ since' \in [Pass -> Nat] /\ scanned' \in [Pass -> SUBSET Alert]
         /\ rules' \in [Pass -> SUBSET Rule] /\ draft' \in [Pass -> (SUBSET ClusterRows) \cup {Raises}]
         /\ todo' \in [Pass -> SUBSET Org] /\ fresh' \in [Pass -> SUBSET ClusterRows]
<1>1. Forget(p)
  BY DEF IdlePass
<1> QED
  BY <1>1, ForgetType DEF TypeOK, IdlePass

LEMMA LeaveType ==
  ASSUME TypeOK, NEW p \in Pass, Leave(p) \/ Goto(p, "idle")
  PROVE  pc' \in [Pass -> {"idle", "list", "next", "scan", "rules", "apply", "release"}]
BY DEF TypeOK, Leave, Goto

(* So does the start of a pass,                                              *)
LEMMA TypeStarts ==
  ASSUME TypeOK,
         \/ \E p \in Sweeper : StartSweep(p)
         \/ \E o \in RunNow : StartRunNow(o)
  PROVE  TypeOK'
<1>1. ASSUME NEW p \in Sweeper, StartSweep(p)
      PROVE  TypeOK'
  BY <1>1 DEF StartSweep, Start, Goto, TypeOK, Lock!Acquire, Pass
<1>2. ASSUME NEW o \in RunNow, StartRunNow(o)
      PROVE  TypeOK'
  BY <1>2, CorrelationAssumption DEF StartRunNow, Start, Goto, TypeOK, Pass
<1> QED
  BY <1>1, <1>2

(* What the rules make of the alerts a pass has scanned.                     *)
LEMMA ReadRulesType ==
  ASSUME TypeOK, NEW p \in Pass, org[p] \in Org, ReadRules(p)
  PROVE  /\ rules' \in [Pass -> SUBSET Rule]
         /\ draft' \in [Pass -> (SUBSET ClusterRows) \cup {Raises}]
<1> DEFINE alerts == scanned[p]
           used == ActiveRules(org[p])
<1>1. alerts \in SUBSET Alert /\ used \in SUBSET Rule
  BY ActiveRulesType DEF TypeOK
<1>2. \A list \in Orders[alerts] : UNION {{NewCluster(p, r, d) : d \in Drafts[r][list]} : r \in used} \in SUBSET ClusterRows
  <2> SUFFICES ASSUME NEW list \in Orders[alerts], NEW r \in used, NEW d \in Drafts[r][list]
               PROVE  NewCluster(p, r, d) \in ClusterRows
    OBVIOUS
  <2>1. d.group \in SUBSET alerts /\ d.escalates \in BOOLEAN
    BY <1>1, DraftsAreGroups
  <2> QED
    BY <1>1, <2>1, NewClusterType
<1>3. rules' = [rules EXCEPT ![p] = used]
  BY DEF ReadRules
<1>4. \/ draft' = [draft EXCEPT ![p] = Raises]
      \/ \E list \in Orders[alerts] :
           draft' = [draft EXCEPT ![p] = UNION {{NewCluster(p, r, d) : d \in Drafts[r][list]} : r \in used}]
  BY DEF ReadRules
<1>5. PICK D \in (SUBSET ClusterRows) \cup {Raises} : draft' = [draft EXCEPT ![p] = D]
  <2> DEFINE made(list) == UNION {{NewCluster(p, r, d) : d \in Drafts[r][list]} : r \in used}
  <2>1. \A list \in Orders[alerts] : made(list) \in SUBSET ClusterRows
    BY <1>2
  <2>2. \/ draft' = [draft EXCEPT ![p] = Raises]
        \/ \E list \in Orders[alerts] : draft' = [draft EXCEPT ![p] = made(list)]
    BY <1>4
  <2>3. CASE draft' = [draft EXCEPT ![p] = Raises]
    BY <2>3
  <2>4. ASSUME NEW list \in Orders[alerts], draft' = [draft EXCEPT ![p] = made(list)]
        PROVE  \E D \in (SUBSET ClusterRows) \cup {Raises} : draft' = [draft EXCEPT ![p] = D]
    BY <2>1, <2>4, Zenon
  <2> QED
    BY <2>2, <2>3, <2>4
<1> HIDE DEF alerts, used
<1> QED
  BY <1>1, <1>3, <1>5 DEF TypeOK

(* and each of its steps.                                                    *)
LEMMA TypePasses ==
  ASSUME TypeOK, PassesInPlace, NEW p \in Pass, PassStep(p) \/ Abort(p)
  PROVE  TypeOK'
<1>1. CASE ReadClaimed(p)
  <2>1. PICK o \in todo[p] : /\ org' = [org EXCEPT ![p] = o]
                             /\ claimed' = [claimed EXCEPT ![p] = Claimed(o)]
    BY <1>1 DEF ReadClaimed
  <2>2. o \in Org
    BY DEF TypeOK
  <2>3. Claimed(o) \in SUBSET Alert
    <3>1. \A c \in cluster : Members(c) \in SUBSET Alert
      BY DEF TypeOK, ClusterRows, Members
    <3> QED
      BY <3>1 DEF Claimed
  <2> QED
    BY <1>1, <2>1, <2>2, <2>3 DEF ReadClaimed, TypeOK, Goto
<1>2. CASE ListOrgs(p) \/ ReadAlerts(p)
  <2>1. Recent(org[p]) \in SUBSET Alert
    BY DEF TypeOK, Recent
  <2> QED
    BY <1>2, <2>1 DEF ListOrgs, ReadAlerts, TypeOK, Goto
<1>9. CASE ReadRules(p)
  <2>1. org[p] \in Org
    BY <1>9 DEF ReadRules, PassesInPlace, TypeOK
  <2>2. pc' \in [Pass -> {"idle", "list", "next", "scan", "rules", "apply", "release"}]
    BY <1>9 DEF ReadRules, TypeOK, Goto
  <2>3. UNCHANGED <<holder, todo, org, claimed, since, scanned, fresh, served, alert, recent, escalated, rule, cluster,
                    incident, commits, bounds>>
    BY <1>9 DEF ReadRules
  <2> QED
    BY <1>9, <2>1, <2>2, <2>3, ReadRulesType DEF TypeOK
<1>3. CASE Apply(p)
  <2>1. draft[p] \in SUBSET ClusterRows
    <3>1. draft[p] # Raises
      BY <1>3 DEF Apply, ApplyFails
    <3>2. draft[p] \in (SUBSET ClusterRows) \cup {Raises}
      BY DEF TypeOK
    <3> QED
      BY <3>1, <3>2
  <2> QED
    BY <1>3, <2>1, ForgetType DEF Apply, TypeOK, Goto
<1>4. CASE ApplyRaises(p)
  BY <1>4, IdlePassType, LeaveType DEF ApplyRaises, Rollback, TypeOK
<1>5. CASE Victim(p)
  BY <1>5, IdlePassType, LeaveType DEF Victim, Rollback, TypeOK
<1>6. CASE Commit(p)
  <2>1. \A c \in fresh[p] : /\ Numbered(c) \in ClusterRows
                             /\ IncidentOf(Numbered(c)) \in IncidentRows
                             /\ Marked(c) \in SUBSET Alert
    BY DEF TypeOK, ClusterRows, IncidentRows, Numbered, IncidentOf, Marked
  <2>2. cluster' \subseteq ClusterRows
    BY <1>6, <2>1 DEF Commit, TypeOK
  <2>3. incident' \subseteq IncidentRows
    BY <1>6, <2>1 DEF Commit, TypeOK
  <2>4. escalated' \subseteq Alert
    BY <1>6, <2>1 DEF Commit, TypeOK
  <2> QED
    BY <1>6, <2>2, <2>3, <2>4, IdlePassType, LeaveType DEF Commit, TypeOK
<1>7. CASE Release(p)
  BY <1>7 DEF Release, TypeOK, Goto, Lock!Release
<1>8. CASE Abort(p)
  <2>1. Leave(p) \/ Goto(p, "idle")
    BY <1>8 DEF Abort
  <2>2. IdlePass(p) /\ UNCHANGED <<served, alert, recent, escalated, rule, cluster, incident, commits, holder, edits>>
    BY <1>8 DEF Abort, Rollback
  <2>3. faults' \in Nat
    BY <1>8, FaultType DEF Abort
  <2> QED
    BY <2>1, <2>2, <2>3, IdlePassType, LeaveType DEF TypeOK
<1> QED
  BY <1>1, <1>2, <1>3, <1>4, <1>5, <1>6, <1>7, <1>8, <1>9 DEF PassStep

LEMMA TypeExpire == TypeOK /\ Expire => TypeOK'
<1> SUFFICES ASSUME TypeOK, Expire PROVE TypeOK'
  OBVIOUS
<1>1. faults' \in Nat
  BY FaultType DEF Expire, TypeOK
<1> QED
  BY <1>1 DEF Expire, TypeOK, Lock!Expire

(* The invariant holds at first.                                             *)
LEMMA InitInv == Init => CorrelationInv
<1> SUFFICES ASSUME Init PROVE CorrelationInv
  OBVIOUS
<1>1. TypeOK
  BY DEF Init, TypeOK
<1>2. PassesInPlace /\ DraftsInOrder /\ FlushedInOrder /\ ClaimsKept /\ ClustersNumbered
  BY DEF Init, PassesInPlace, DraftsInOrder, Drafted, FlushedInOrder, ClaimsKept, ClustersNumbered
<1>3. SharedOnlyByOverlap /\ EscalationIsWhole /\ TenantsApart /\ GroupsAreSound
  BY DEF Init, SharedOnlyByOverlap, EscalationIsWhole, TenantsApart, GroupsAreSound
<1> QED
  BY <1>1, <1>2, <1>3 DEF CorrelationInv

-----------------------------------------------------------------------------
(* The steps *)

Rest ==
  /\ PassesInPlace /\ DraftsInOrder /\ FlushedInOrder /\ ClaimsKept /\ ClustersNumbered
  /\ SharedOnlyByOverlap /\ EscalationIsWhole /\ TenantsApart /\ GroupsAreSound

(* What analysts do leaves the passes alone, deletes no alert a pass holds   *)
(* and only dismisses clusters, or takes them away.                          *)
LEMMA RequestsKeepInv ==
  ASSUME CorrelationInv, UNCHANGED <<pass, commits, incident>>,
         \A a \in Alert : alert[a] = "deleted" => alert'[a] = "deleted",
         \A a \in Alert : alert'[a] = "deleted" => alert[a] = "deleted" \/ ~KeyLocked(a),
         \A c \in cluster' : \/ c \in cluster
                             \/ \E d \in cluster : c = [d EXCEPT !.status = "dismissed"],
         escalated' = escalated \ {a \in Alert : alert'[a] = "deleted"}
  PROVE  Rest'
<1> USE DEF CorrelationInv
<1>1. PassesInPlace'
  BY DEF PassesInPlace
<1>2. DraftsInOrder'
  BY DEF DraftsInOrder, Drafted, WellMade
<1>3. FlushedInOrder'
  <2> SUFFICES ASSUME NEW p \in Pass, NEW c \in fresh[p]
               PROVE  \A a \in c.group : alert'[a] # "deleted"
    BY DEF FlushedInOrder, WellMade
  <2>1. c.group \subseteq Alert
    BY DEF TypeOK, ClusterRows
  <2>2. \A a \in c.group : KeyLocked(a) /\ alert[a] # "deleted"
    BY DEF KeyLocked, FlushedInOrder
  <2> QED
    BY <2>1, <2>2
<1>4. \A c \in cluster' : /\ c.group \subseteq Alert
                          /\ Members(c)' \subseteq Members(c)
  <2> SUFFICES ASSUME NEW c \in cluster'
               PROVE  c.group \subseteq Alert
    BY DEF Members
  <2> QED
    BY DEF TypeOK, ClusterRows
<1>5. \A c \in cluster' : \/ c \in cluster
                          \/ /\ c.status = "dismissed"
                             /\ \E d \in cluster : c = [d EXCEPT !.status = "dismissed"]
  BY DEF TypeOK, ClusterRows
<1>6. ClaimsKept'
  BY <1>4, <1>5 DEF ClaimsKept
<1>7. ClustersNumbered'
  BY <1>5 DEF ClustersNumbered, TypeOK, ClusterRows
<1>8. SharedOnlyByOverlap'
  BY <1>4, <1>5 DEF SharedOnlyByOverlap
<1>9. EscalationIsWhole'
  <2>1. \A c \in cluster' : c.incident => IncidentOf(c) \in incident
    <3> SUFFICES ASSUME NEW c \in cluster', c.incident PROVE IncidentOf(c) \in incident
      OBVIOUS
    <3>1. PICK d \in cluster : c = d \/ c = [d EXCEPT !.status = "dismissed"]
      BY <1>5
    <3>2. IncidentOf(c) = IncidentOf(d) /\ d.incident
      BY <3>1 DEF IncidentOf, TypeOK, ClusterRows
    <3> QED
      BY <3>2 DEF EscalationIsWhole
  <2>2. \A c \in cluster' : c.status = "escalated" => c.incident
    BY <1>5 DEF EscalationIsWhole
  <2> DEFINE linked == UNION {i.group : i \in incident}
  <2>3. escalated = linked \ {a \in Alert : alert[a] = "deleted"}
    BY DEF EscalationIsWhole
  <2> HIDE DEF linked
  <2>4. escalated' = linked \ {a \in Alert : alert'[a] = "deleted"}
    BY <2>3
  <2> QED
    BY <2>1, <2>2, <2>4 DEF EscalationIsWhole, linked
<1>10. TenantsApart'
  BY <1>5 DEF TenantsApart, TypeOK, ClusterRows
<1>11. GroupsAreSound'
  BY DEF GroupsAreSound
<1> QED
  BY <1>1, <1>2, <1>3, <1>6, <1>7, <1>8, <1>9, <1>10, <1>11 DEF Rest

(* A step of a pass that writes nothing the others can see.                  *)
Unseen == UNCHANGED <<alert, escalated, cluster, incident, commits>>

(* It says nothing of the other passes either.                               *)
OthersStand(p) ==
  \A q \in Pass \ {p} :
    /\ pc'[q] = pc[q] /\ todo'[q] = todo[q] /\ org'[q] = org[q] /\ claimed'[q] = claimed[q]
    /\ since'[q] = since[q] /\ scanned'[q] = scanned[q] /\ rules'[q] = rules[q]
    /\ draft'[q] = draft[q] /\ fresh'[q] = fresh[q]

(* What only looks at clusters holds after such a step.                      *)
LEMMA UnseenKeepsClusters ==
  ASSUME CorrelationInv, Unseen
  PROVE  ClustersNumbered' /\ SharedOnlyByOverlap' /\ EscalationIsWhole' /\ TenantsApart'
BY DEF CorrelationInv, Unseen, ClustersNumbered, SharedOnlyByOverlap, Members, EscalationIsWhole, TenantsApart, IncidentOf

(* Groups are sound that were drafted before.                                *)
LEMMA GroupsStand ==
  ASSUME GroupsAreSound,
         \A q \in Pass : pc'[q] = "apply" /\ draft'[q] # Raises =>
           /\ pc[q] = "apply" /\ draft'[q] = draft[q]
           /\ rules'[q] = rules[q] /\ scanned'[q] = scanned[q]
  PROVE  GroupsAreSound'
<1> SUFFICES ASSUME NEW q \in Pass, pc'[q] = "apply", draft'[q] # Raises, NEW r \in rules'[q]
             PROVE  SoundGrouping(r, scanned'[q], {c.group : c \in {d \in draft'[q] : d.rule = r}})
  BY DEF GroupsAreSound
<1>1. /\ pc[q] = "apply" /\ draft'[q] = draft[q]
      /\ rules'[q] = rules[q] /\ scanned'[q] = scanned[q]
  OBVIOUS
<1> QED
  BY <1>1 DEF GroupsAreSound

(* A pass that starts, or has let go of all it held.                         *)
LEMMA EmptyHandedKeepsInv ==
  ASSUME CorrelationInv, Unseen, NEW p \in Pass, OthersStand(p),
         pc'[p] \notin {"scan", "rules", "apply"}, draft'[p] = {}, fresh'[p] = {}, scanned'[p] = {},
         since'[p] <= commits
  PROVE  Rest'
<1> USE DEF CorrelationInv, Unseen, OthersStand
<1>1. PassesInPlace'
  BY DEF PassesInPlace
<1>2. DraftsInOrder'
  BY DEF DraftsInOrder, Drafted, WellMade
<1>3. FlushedInOrder'
  BY DEF FlushedInOrder, WellMade
<1>4. ClaimsKept'
  BY DEF ClaimsKept, Members
<1>5. GroupsAreSound'
  BY GroupsStand
<1> QED
  BY <1>1, <1>2, <1>3, <1>4, <1>5, UnseenKeepsClusters DEF Rest

(* Starts, rollbacks and releases.                                           *)
LEMMA EmptyHandedSteps ==
  ASSUME CorrelationInv, NEW p \in Pass,
         \/ p \in Sweeper /\ StartSweep(p)
         \/ p \in RunNow /\ StartRunNow(p)
         \/ ListOrgs(p) \/ ApplyRaises(p) \/ Victim(p) \/ Release(p) \/ Abort(p)
  PROVE  Rest'
<1> USE DEF CorrelationInv
<1>1. CASE \E orgs : Start(p, orgs, "next") \/ Start(p, orgs, "list")
  <2>1. Unseen /\ OthersStand(p)
    BY <1>1 DEF Start, Unseen, OthersStand, Goto, TypeOK
  <2>2. pc[p] = "idle"
    BY <1>1 DEF Start
  <2>3. pc'[p] \in {"next", "list"} /\ draft'[p] = {} /\ fresh'[p] = {} /\ scanned'[p] = {} /\ since'[p] <= commits
    BY <1>1, <2>2 DEF Start, Goto, TypeOK, PassesInPlace
  <2> QED
    BY <2>1, <2>3, EmptyHandedKeepsInv
<1>2. CASE Release(p)
  <2>1. Unseen /\ OthersStand(p)
    BY <1>2 DEF Release, Unseen, OthersStand, Goto, TypeOK
  <2>2. pc[p] = "release"
    BY <1>2 DEF Release
  <2>3. pc'[p] = "idle" /\ draft'[p] = {} /\ fresh'[p] = {} /\ scanned'[p] = {} /\ since'[p] <= commits
    BY <1>2, <2>2 DEF Release, Goto, TypeOK, PassesInPlace
  <2> QED
    BY <2>1, <2>3, EmptyHandedKeepsInv
<1>3. CASE Rollback(p) /\ (Leave(p) \/ Goto(p, "idle"))
  <2>1. Unseen /\ OthersStand(p)
    BY <1>3 DEF Rollback, IdlePass, Forget, Leave, Goto, Unseen, OthersStand, TypeOK
  <2>2. /\ pc'[p] \in {"idle", "release"} /\ draft'[p] = {} /\ fresh'[p] = {} /\ scanned'[p] = {}
        /\ since'[p] = 0
    BY <1>3 DEF Rollback, IdlePass, Forget, Leave, Goto, TypeOK
  <2>3. 0 <= commits
    BY DEF TypeOK
  <2> QED
    BY <2>1, <2>2, <2>3, EmptyHandedKeepsInv
<1>4. CASE ListOrgs(p)
  <2>1. Unseen /\ OthersStand(p)
    BY <1>4 DEF ListOrgs, Unseen, OthersStand, Goto, TypeOK
  <2>2. pc[p] = "list"
    BY <1>4 DEF ListOrgs
  <2>3. pc'[p] = "next" /\ draft'[p] = {} /\ fresh'[p] = {} /\ scanned'[p] = {} /\ since'[p] <= commits
    BY <1>4, <2>2 DEF ListOrgs, Goto, TypeOK, PassesInPlace
  <2> QED
    BY <2>1, <2>3, EmptyHandedKeepsInv
<1> QED
  BY <1>1, <1>2, <1>3, <1>4 DEF StartSweep, StartRunNow, ApplyRaises, Victim, Abort

(* What happens to an alert.                                                 *)
LEMMA AlertSteps ==
  ASSUME CorrelationInv, NEW a \in Alert,
         CreateAlert(a) \/ AgeOut(a) \/ DismissAlert(a) \/ DeleteAlert(a)
  PROVE  Rest'
<1> DEFINE gone == {x \in Alert : alert'[x] = "deleted"}
<1>1. TypeOK /\ EscalationIsWhole
  BY DEF CorrelationInv
<1>2. escalated = escalated \ {x \in Alert : alert[x] = "deleted"}
  BY <1>1 DEF EscalationIsWhole
<1>3. UNCHANGED <<pass, commits, incident, cluster>>
  BY DEF CreateAlert, AgeOut, DismissAlert, DeleteAlert
<1>4. \A x \in Alert : alert[x] = "deleted" => alert'[x] = "deleted"
  BY <1>1 DEF CreateAlert, AgeOut, DismissAlert, DeleteAlert, TypeOK
<1>5. \A x \in Alert : alert'[x] = "deleted" => alert[x] = "deleted" \/ ~KeyLocked(x)
  BY <1>1 DEF CreateAlert, AgeOut, DismissAlert, DeleteAlert, TypeOK
<1>6. escalated' = escalated \ gone
  <2>1. CASE DeleteAlert(a)
    <3>1. gone = {x \in Alert : alert[x] = "deleted"} \cup {a}
      BY <1>1, <2>1 DEF DeleteAlert, TypeOK
    <3> QED
      BY <1>2, <2>1, <3>1 DEF DeleteAlert
  <2>2. CASE ~DeleteAlert(a)
    <3>1. gone = {x \in Alert : alert[x] = "deleted"} /\ escalated' = escalated
      BY <1>1, <2>2 DEF CreateAlert, AgeOut, DismissAlert, TypeOK
    <3> QED
      BY <1>2, <3>1
  <2> QED
    BY <2>1, <2>2
<1> QED
  BY <1>3, <1>4, <1>5, <1>6, RequestsKeepInv

(* What happens to rules, clusters and organisations.                        *)
LEMMA RuleAndClusterSteps ==
  ASSUME CorrelationInv,
         \/ \E r \in Rule : CreateRule(r)
         \/ \E o \in Org, r \in Rule : UpdateRule(o, r) \/ DeleteRule(o, r)
         \/ \E o \in Org, c \in cluster : DismissCluster(o, c)
         \/ \E o \in Org : UpdateOrganization(o)
  PROVE  Rest'
<1>1. escalated = escalated \ {x \in Alert : alert[x] = "deleted"}
  BY DEF CorrelationInv, EscalationIsWhole
<1>2. UNCHANGED <<pass, commits, incident, alert, escalated>>
  BY DEF CreateRule, UpdateRule, DeleteRule, DismissCluster, UpdateOrganization
<1>3. \A x \in cluster' : x \in cluster \/ \E d \in cluster : x = [d EXCEPT !.status = "dismissed"]
  BY DEF CreateRule, UpdateRule, DeleteRule, DismissCluster, UpdateOrganization
<1> QED
  BY <1>1, <1>2, <1>3, RequestsKeepInv

(* The first SELECT.                                                         *)
LEMMA ReadClaimedStep ==
  ASSUME CorrelationInv, NEW p \in Pass, ReadClaimed(p)
  PROVE  Rest'
<1> USE DEF CorrelationInv
<1>1. PICK o \in todo[p] : /\ org' = [org EXCEPT ![p] = o]
                           /\ claimed' = [claimed EXCEPT ![p] = Claimed(o)]
  BY DEF ReadClaimed
<1>2. Unseen /\ OthersStand(p)
  BY DEF ReadClaimed, Unseen, OthersStand, Goto, TypeOK
<1>3. /\ pc[p] = "next" /\ pc'[p] = "scan" /\ org'[p] = o /\ claimed'[p] = Claimed(o) /\ since'[p] = commits
      /\ todo'[p] = todo[p] /\ scanned'[p] = {} /\ draft'[p] = {} /\ fresh'[p] = fresh[p]
  BY <1>1 DEF ReadClaimed, Goto, TypeOK, PassesInPlace
<1> USE DEF Unseen, OthersStand
<1>4. PassesInPlace'
  BY <1>2, <1>3 DEF PassesInPlace, TypeOK
<1>5. DraftsInOrder'
  BY <1>2, <1>3 DEF DraftsInOrder, Drafted, WellMade
<1>6. FlushedInOrder'
  BY <1>2, <1>3 DEF FlushedInOrder, WellMade
<1>7. ClaimsKept'
  <2>1. \A d \in cluster : d.status = "active" /\ d.org = o => Members(d) \subseteq Claimed(o)
    BY DEF Claimed
  <2> QED
    BY <1>2, <1>3, <2>1 DEF ClaimsKept, Members
<1>8. GroupsAreSound'
  BY <1>2, <1>3, GroupsStand
<1> QED
  BY <1>2, <1>4, <1>5, <1>6, <1>7, <1>8, UnseenKeepsClusters DEF Rest

(* What the rules make of a list of alerts of the pass's organisation.       *)
Made(p, list) == UNION {{NewCluster(p, r, d) : d \in Drafts[r][list]} : r \in ActiveRules(org[p])}

LEMMA DraftsOfAList ==
  ASSUME CorrelationInv, NEW p \in Pass, org[p] \in Org,
         NEW S \in SUBSET Alert, \A a \in S : AlertRow[a].org = org[p],
         NEW list \in Orders[S]
  PROVE  LET D == Made(p, list) IN
         /\ \A c \in D : /\ c.org = org[p] /\ c.since = since[p] /\ c.group \subseteq S
                         /\ WellMade(c)
                         /\ \A d \in D : c.rule = d.rule => c = d \/ c.group \cap d.group = {}
         /\ \A r \in ActiveRules(org[p]) : SoundGrouping(r, S, {c.group : c \in {d \in D : d.rule = r}})
<1> DEFINE D == Made(p, list)
           used == ActiveRules(org[p])
<1>1. used \subseteq Rule
  BY ActiveRulesType
<1>2. \A c \in D : \E r \in used : \E g \in Groups(r, list) :
        c = NewCluster(p, r, [group |-> g, escalates |-> Escalates(r, g)])
  <2> SUFFICES ASSUME NEW r \in used, NEW d \in Drafts[r][list]
               PROVE  \E g \in Groups(r, list) : d = [group |-> g, escalates |-> Escalates(r, g)]
    BY DEF Made
  <2> QED
    BY <1>1, DraftsAreGroups
<1>3. \A r \in used : \A g \in Groups(r, list) :
        NewCluster(p, r, [group |-> g, escalates |-> Escalates(r, g)]) \in D
  BY <1>1, DraftsAreGroups DEF Made
<1>4. \A r \in used : SoundGrouping(r, S, Groups(r, list))
  BY <1>1, GroupingIsSound
<1>5. \A c \in D : \E r \in used : \E g \in Groups(r, list) :
        /\ c.org = org[p] /\ c.since = since[p] /\ c.group = g /\ c.rule = r /\ c.no = 0
        /\ c.status = "escalated" <=> c.incident
        /\ c = NewCluster(p, r, [group |-> g, escalates |-> Escalates(r, g)])
  <2> SUFFICES ASSUME NEW c \in D
               PROVE  \E r \in used : \E g \in Groups(r, list) :
                        /\ c.org = org[p] /\ c.since = since[p] /\ c.group = g /\ c.rule = r /\ c.no = 0
                        /\ c.status = "escalated" <=> c.incident
                        /\ c = NewCluster(p, r, [group |-> g, escalates |-> Escalates(r, g)])
    OBVIOUS
  <2>0. PICK r \in used : \E g \in Groups(r, list) :
               c = NewCluster(p, r, [group |-> g, escalates |-> Escalates(r, g)])
    BY <1>2
  <2>1. PICK g \in Groups(r, list) :
               c = NewCluster(p, r, [group |-> g, escalates |-> Escalates(r, g)])
    BY <2>0
  <2> QED
    BY <2>1 DEF NewCluster
<1> HIDE DEF used, D
<1>6. ASSUME NEW c \in D
      PROVE  /\ c.org = org[p] /\ c.since = since[p] /\ c.group \subseteq S
             /\ WellMade(c)
             /\ \A d \in D : c.rule = d.rule => c = d \/ c.group \cap d.group = {}
  <2>0. PICK r \in used : \E g \in Groups(r, list) :
        /\ c.org = org[p] /\ c.since = since[p] /\ c.group = g /\ c.rule = r /\ c.no = 0
        /\ c.status = "escalated" <=> c.incident
        /\ c = NewCluster(p, r, [group |-> g, escalates |-> Escalates(r, g)])
    BY <1>5
  <2>1. PICK g \in Groups(r, list) :
        /\ c.org = org[p] /\ c.since = since[p] /\ c.group = g /\ c.rule = r /\ c.no = 0
        /\ c.status = "escalated" <=> c.incident
        /\ c = NewCluster(p, r, [group |-> g, escalates |-> Escalates(r, g)])
    BY <2>0
  <2>2. g \subseteq S /\ \A h \in Groups(r, list) : g = h \/ g \cap h = {}
    BY <1>4 DEF SoundGrouping
  <2>3. RuleRow[r].org \in {Global, org[p]}
    BY DEF used, ActiveRules
  <2>4. WellMade(c)
    BY <2>1, <2>2, <2>3 DEF WellMade
  <2>5. ASSUME NEW d \in D, c.rule = d.rule
        PROVE  c = d \/ c.group \cap d.group = {}
    <3>0. PICK q \in used : \E h \in Groups(q, list) :
            /\ d.group = h /\ d.rule = q
            /\ d = NewCluster(p, q, [group |-> h, escalates |-> Escalates(q, h)])
      BY <1>5
    <3>1. PICK h \in Groups(r, list) :
            /\ d.group = h
            /\ d = NewCluster(p, r, [group |-> h, escalates |-> Escalates(r, h)])
      BY <2>1, <2>5, <3>0
    <3> QED
      BY <2>1, <2>2, <3>1
  <2> QED
    BY <2>1, <2>2, <2>4, <2>5
<1>7. ASSUME NEW r \in used
      PROVE  SoundGrouping(r, S, {c.group : c \in {d \in D : d.rule = r}})
  <2> DEFINE made == {c.group : c \in {d \in D : d.rule = r}}
  <2>1. made \subseteq Groups(r, list)
    BY <1>5
  <2>2. Groups(r, list) \subseteq made
    <3> SUFFICES ASSUME NEW g \in Groups(r, list) PROVE g \in made
      OBVIOUS
    <3> DEFINE c == NewCluster(p, r, [group |-> g, escalates |-> Escalates(r, g)])
    <3>1. c \in D
      BY <1>3
    <3>2. c.group = g /\ c.rule = r
      BY DEF NewCluster
    <3> QED
      BY <3>1, <3>2
  <2>3. made = Groups(r, list)
    BY <2>1, <2>2
  <2> QED
    BY <1>4, <2>3
<1> QED
  BY <1>6, <1>7 DEF used, D

(* The second.                                                               *)
LEMMA ReadAlertsStep ==
  ASSUME CorrelationInv, NEW p \in Pass, ReadAlerts(p)
  PROVE  Rest'
<1> USE DEF CorrelationInv
<1> DEFINE S == Recent(org[p]) \ claimed[p]
<1>1. Unseen /\ OthersStand(p)
  BY DEF ReadAlerts, Unseen, OthersStand, Goto, TypeOK
<1>2. pc[p] = "scan" /\ S \cap claimed[p] = {} /\ \A a \in S : AlertRow[a].org = org[p]
  BY DEF ReadAlerts, Recent
<1>3. /\ pc'[p] = "rules" /\ scanned'[p] = S /\ draft'[p] = {}
      /\ todo'[p] = todo[p] /\ org'[p] = org[p] /\ claimed'[p] = claimed[p] /\ since'[p] = since[p]
      /\ fresh'[p] = fresh[p]
  BY <1>2 DEF ReadAlerts, Goto, TypeOK, PassesInPlace
<1> HIDE DEF S
<1> USE DEF Unseen, OthersStand
<1>4. PassesInPlace'
  BY <1>1, <1>2, <1>3 DEF PassesInPlace
<1>5. DraftsInOrder'
  BY <1>1, <1>3 DEF DraftsInOrder, Drafted, WellMade
<1>6. FlushedInOrder'
  BY <1>1, <1>3 DEF FlushedInOrder, WellMade
<1>7. ClaimsKept'
  BY <1>1, <1>2, <1>3 DEF ClaimsKept, Members
<1>8. GroupsAreSound'
  BY <1>1, <1>3, GroupsStand
<1> QED
  BY <1>1, <1>4, <1>5, <1>6, <1>7, <1>8, UnseenKeepsClusters DEF Rest

(* The third, of the rules, and what they make of the alerts.                *)
LEMMA ReadRulesStep ==
  ASSUME CorrelationInv, NEW p \in Pass, ReadRules(p)
  PROVE  Rest'
<1> USE DEF CorrelationInv
<1> DEFINE S == scanned[p]
           used == ActiveRules(org[p])
<1>1. Unseen /\ OthersStand(p)
  BY DEF ReadRules, Unseen, OthersStand, Goto, TypeOK
<1>2. pc[p] = "rules" /\ org[p] \in todo[p] /\ org[p] \in Org
  BY DEF ReadRules, PassesInPlace, TypeOK
<1>3. S \in SUBSET Alert /\ S \cap claimed[p] = {} /\ \A a \in S : AlertRow[a].org = org[p]
  BY DEF PassesInPlace, TypeOK
<1>4. /\ pc'[p] = "apply" /\ scanned'[p] = S /\ rules'[p] = used
      /\ todo'[p] = todo[p] /\ org'[p] = org[p] /\ claimed'[p] = claimed[p] /\ since'[p] = since[p]
      /\ fresh'[p] = fresh[p]
  BY DEF ReadRules, Goto, TypeOK
<1>5. \/ draft'[p] = Raises
      \/ \E list \in Orders[S] :
           draft'[p] = Made(p, list)
  BY DEF ReadRules, TypeOK, Made
<1> HIDE DEF S, used
<1>6. draft'[p] # Raises =>
        /\ \A c \in draft'[p] :
             /\ c.org = org[p] /\ c.since = since[p] /\ c.group \subseteq S
             /\ WellMade(c)
             /\ \A d \in draft'[p] : c.rule = d.rule => c = d \/ c.group \cap d.group = {}
        /\ \A r \in used : SoundGrouping(r, S, {c.group : c \in {d \in draft'[p] : d.rule = r}})
  <2> SUFFICES ASSUME draft'[p] # Raises
               PROVE  /\ \A c \in draft'[p] :
                           /\ c.org = org[p] /\ c.since = since[p] /\ c.group \subseteq S
                           /\ WellMade(c)
                           /\ \A d \in draft'[p] : c.rule = d.rule => c = d \/ c.group \cap d.group = {}
                      /\ \A r \in used : SoundGrouping(r, S, {c.group : c \in {d \in draft'[p] : d.rule = r}})
    OBVIOUS
  <2>1. PICK list \in Orders[S] : draft'[p] = Made(p, list)
    BY <1>5
  <2> QED
    BY <1>2, <1>3, <2>1, DraftsOfAList DEF used
<1> USE DEF Unseen, OthersStand
<1>7. PassesInPlace'
  BY <1>1, <1>2, <1>3, <1>4 DEF PassesInPlace
<1>8. DraftsInOrder'
  BY <1>1, <1>4, <1>6 DEF DraftsInOrder, Drafted, WellMade
<1>9. FlushedInOrder'
  BY <1>1, <1>4 DEF FlushedInOrder, WellMade
<1>10. ClaimsKept'
  BY <1>1, <1>2, <1>4 DEF ClaimsKept, Members
<1>11. GroupsAreSound'
  <2> SUFFICES ASSUME NEW q \in Pass, pc'[q] = "apply", draft'[q] # Raises, NEW r \in rules'[q]
               PROVE  SoundGrouping(r, scanned'[q], {c.group : c \in {d \in draft'[q] : d.rule = r}})
    BY DEF GroupsAreSound
  <2>1. CASE q = p
    BY <1>4, <1>6, <2>1
  <2>2. CASE q # p
    <3>1. /\ pc'[q] = pc[q] /\ draft'[q] = draft[q] /\ rules'[q] = rules[q]
          /\ scanned'[q] = scanned[q]
      BY <1>1, <2>2
    <3> QED
      BY <3>1 DEF GroupsAreSound
  <2> QED
    BY <2>1, <2>2
<1> QED
  BY <1>1, <1>7, <1>8, <1>9, <1>10, <1>11, UnseenKeepsClusters DEF Rest

(* The clusters are flushed.                                                 *)
LEMMA ApplyStep ==
  ASSUME CorrelationInv, NEW p \in Pass, Apply(p)
  PROVE  Rest'
<1> USE DEF CorrelationInv
<1>1. Unseen /\ OthersStand(p)
  BY DEF Apply, Forget, Unseen, OthersStand, Goto, TypeOK
<1>2. /\ pc[p] = "apply" /\ org[p] \in todo[p] /\ org[p] \in Org /\ draft[p] # Raises
      /\ \A c \in draft[p] : \A a \in c.group : alert[a] # "deleted"
  BY DEF Apply, ApplyFails, PassesInPlace, TypeOK
<1>3. /\ pc'[p] = "next" /\ todo'[p] = todo[p] \ {org[p]} /\ fresh'[p] = fresh[p] \cup draft[p]
      /\ draft'[p] = {} /\ scanned'[p] = {} /\ claimed'[p] = {} /\ since'[p] = 0
  BY DEF Apply, Forget, Goto, TypeOK
<1>4. \A c \in draft[p] :
        /\ c.org = org[p] /\ c.since = since[p] /\ c.group \subseteq scanned[p]
        /\ WellMade(c)
        /\ \A d \in draft[p] : c.rule = d.rule => c = d \/ c.group \cap d.group = {}
  BY <1>2 DEF DraftsInOrder, Drafted
<1>5. since[p] <= commits /\ 0 <= commits /\ claimed[p] \cap scanned[p] = {}
  BY DEF PassesInPlace, TypeOK
<1> USE DEF Unseen, OthersStand
<1>6. PassesInPlace'
  BY <1>1, <1>3, <1>5 DEF PassesInPlace
<1>7. DraftsInOrder'
  BY <1>1, <1>3 DEF DraftsInOrder, Drafted, WellMade
<1>8. FlushedInOrder'
  <2>1. ASSUME NEW c \in fresh[p] \cup draft[p]
        PROVE  /\ c.org \notin todo[p] \ {org[p]} /\ c.since <= commits /\ WellMade(c)
               /\ \A a \in c.group : alert[a] # "deleted"
    BY <1>2, <1>4, <1>5 DEF FlushedInOrder
  <2>2. ASSUME NEW c \in fresh[p], NEW d \in draft[p]
        PROVE  c.group \cap d.group = {}
    <3>1. c.org # d.org
      BY <1>2, <1>4 DEF FlushedInOrder
    <3>2. WellMade(c) /\ WellMade(d)
      BY <1>4 DEF FlushedInOrder
    <3> QED
      BY <3>1, <3>2 DEF WellMade
  <2>3. ASSUME NEW c \in fresh[p] \cup draft[p], NEW d \in fresh[p] \cup draft[p], c.rule = d.rule
        PROVE  c = d \/ c.group \cap d.group = {}
    BY <1>4, <2>2, <2>3 DEF FlushedInOrder
  <2>4. \A q \in Pass \ {p} : fresh'[q] = fresh[q] /\ todo'[q] = todo[q]
    BY <1>1
  <2> QED
    BY <1>1, <1>3, <2>1, <2>3, <2>4 DEF FlushedInOrder, WellMade
<1>9. ClaimsKept'
  <2>1. ASSUME NEW d \in cluster, d.status = "active", NEW c \in draft[p], d.no <= c.since
        PROVE  c.group \cap Members(d) = {}
    <3>1. CASE d.org = org[p]
      BY <1>2, <1>4, <1>5, <2>1, <3>1 DEF ClaimsKept
    <3>2. CASE d.org # org[p]
      <4>1. \A a \in c.group : AlertRow[a].org = org[p]
        BY <1>4 DEF WellMade
      <4>2. \A a \in d.group : AlertRow[a].org = d.org
        BY DEF TenantsApart
      <4> QED
        BY <3>2, <4>1, <4>2 DEF Members
    <3> QED
      BY <3>1, <3>2
  <2> QED
    BY <1>1, <1>3, <2>1 DEF ClaimsKept, Members
<1>10. GroupsAreSound'
  BY <1>1, <1>3, GroupsStand
<1> QED
  BY <1>1, <1>6, <1>7, <1>8, <1>9, <1>10, UnseenKeepsClusters DEF Rest

(* What a commit makes of the clusters a pass has flushed.                   *)
LEMMA CommittedClusters ==
  ASSUME CorrelationInv, NEW p \in Pass, NEW c \in fresh[p]
  PROVE  /\ Numbered(c).no = commits + 1 /\ Numbered(c).org = c.org /\ Numbered(c).rule = c.rule
         /\ Numbered(c).group = c.group /\ Numbered(c).since = c.since
         /\ Numbered(c).status = c.status /\ Numbered(c).incident = c.incident
         /\ c.group \subseteq Alert /\ c.since \in Nat
         /\ Members(Numbered(c)) = c.group
<1>1. c \in ClusterRows
  BY DEF CorrelationInv, TypeOK
<1>2. \A a \in c.group : alert[a] # "deleted"
  BY DEF CorrelationInv, FlushedInOrder
<1> QED
  BY <1>1, <1>2 DEF Numbered, ClusterRows, Members

(* The end of the transaction.                                               *)
LEMMA CommitStep ==
  ASSUME CorrelationInv, NEW p \in Pass, Commit(p)
  PROVE  Rest'
<1> USE DEF CorrelationInv
<1> DEFINE new == {Numbered(c) : c \in fresh[p]}
<1>1. /\ cluster' = cluster \cup new
      /\ incident' = incident \cup {IncidentOf(Numbered(c)) : c \in {d \in fresh[p] : d.incident}}
      /\ escalated' = escalated \cup UNION {Marked(c) : c \in fresh[p]}
      /\ commits' = IF fresh[p] = {} THEN commits ELSE commits + 1
      /\ alert' = alert
  BY DEF Commit
<1>2. OthersStand(p)
  BY DEF Commit, IdlePass, Forget, Leave, Goto, OthersStand, TypeOK
<1>3. /\ pc'[p] \in {"idle", "release"} /\ todo'[p] = {} /\ fresh'[p] = {}
      /\ draft'[p] = {} /\ scanned'[p] = {} /\ claimed'[p] = {} /\ since'[p] = 0
  BY DEF Commit, IdlePass, Forget, Leave, Goto, TypeOK
<1>4. commits \in Nat /\ commits' \in Nat /\ commits <= commits' /\ (fresh[p] # {} => commits' = commits + 1)
  BY <1>1 DEF TypeOK
<1>5. \A c \in new : \E b \in fresh[p] : c = Numbered(b)
  OBVIOUS
<1>6. \A c \in new : c.no = commits' /\ c.no = commits + 1
  BY <1>4, CommittedClusters
<1>7. \A c \in cluster : c.no \in 1..commits
  BY DEF ClustersNumbered
<1> HIDE DEF new
<1>8. PassesInPlace'
  BY <1>2, <1>3, <1>4 DEF PassesInPlace, OthersStand, TypeOK
<1>9. DraftsInOrder'
  BY <1>2, <1>3 DEF DraftsInOrder, Drafted, WellMade, OthersStand
<1>10. FlushedInOrder'
  <2>1. \A q \in Pass : \A c \in fresh[q] : c.since <= commits'
    BY <1>4 DEF FlushedInOrder, TypeOK, ClusterRows
  <2>2. \A q \in Pass : \A c \in fresh'[q] : q # p /\ c \in fresh[q]
    BY <1>2, <1>3 DEF OthersStand
  <2> QED
    BY <1>1, <1>2, <2>1, <2>2 DEF FlushedInOrder, WellMade, OthersStand
<1>11. ClaimsKept'
  <2>1. \A q \in Pass \ {p}, d \in new : ~(d.no <= since[q]) /\ \A c \in fresh[q] : ~(d.no <= c.since)
    <3>1. \A q \in Pass : since[q] \in Nat /\ since[q] <= commits
      BY DEF PassesInPlace, TypeOK
    <3>2. \A q \in Pass : \A c \in fresh[q] : c.since \in Nat /\ c.since <= commits
      BY DEF FlushedInOrder, TypeOK, ClusterRows
    <3> QED
      BY <1>4, <1>6, <3>1, <3>2
  <2> QED
    BY <1>1, <1>2, <1>3, <2>1 DEF ClaimsKept, Members, OthersStand
<1>12. ClustersNumbered'
  <2>1. \A c \in new : c.no \in 1..commits'
    BY <1>4, <1>6
  <2>2. \A c \in cluster : c.no \in 1..commits'
    BY <1>4, <1>7
  <2> QED
    BY <1>1, <2>1, <2>2 DEF ClustersNumbered
<1>13. SharedOnlyByOverlap'
  <2>1. \A c : Members(c)' = Members(c)
    BY <1>1 DEF Members
  <2>2. ASSUME NEW c \in new, NEW d \in new, Members(c) \cap Members(d) # {}, c # d
        PROVE  c.no = d.no /\ c.rule # d.rule
    <3>1. PICK b \in fresh[p] : c = Numbered(b)
      BY <1>5
    <3>2. PICK e \in fresh[p] : d = Numbered(e)
      BY <1>5
    <3>3. b # e /\ b.group \cap e.group # {} /\ c.rule = b.rule /\ d.rule = e.rule
      BY <2>2, <3>1, <3>2, CommittedClusters
    <3> QED
      BY <1>6, <3>3 DEF FlushedInOrder
  <2>3. ASSUME NEW c \in new, NEW d \in cluster, d.status = "active", Members(c) \cap Members(d) # {}
        PROVE  d.no < c.no /\ c.since < d.no
    <3>1. PICK b \in fresh[p] : c = Numbered(b)
      BY <1>5
    <3>2. b.group \cap Members(d) # {} /\ c.since = b.since /\ b.since \in Nat
      BY <2>3, <3>1, CommittedClusters
    <3>3. ~(d.no <= b.since)
      BY <2>3, <3>2 DEF ClaimsKept
    <3>4. d.no \in Nat /\ d.no <= commits
      BY <1>4, <1>7
    <3> QED
      BY <1>4, <1>6, <3>2, <3>3, <3>4
  <2> SUFFICES ASSUME NEW c \in cluster', NEW d \in cluster', c # d, c.status = "active", d.status = "active",
                      Members(c) \cap Members(d) # {}
               PROVE  \/ c.no = d.no /\ c.rule # d.rule
                      \/ c.no < d.no /\ d.since < c.no
                      \/ d.no < c.no /\ c.since < d.no
    BY <2>1 DEF SharedOnlyByOverlap
  <2>4. CASE c \in cluster /\ d \in cluster
    BY <2>4 DEF SharedOnlyByOverlap
  <2>5. CASE c \in new /\ d \in new
    BY <2>2, <2>5
  <2>6. CASE c \in new /\ d \in cluster
    BY <2>3, <2>6
  <2>7. CASE c \in cluster /\ d \in new
    BY <2>3, <2>7
  <2> QED
    BY <1>1, <2>4, <2>5, <2>6, <2>7
<1>14. EscalationIsWhole'
  <2> DEFINE linked == UNION {i.group : i \in incident}
             added == {IncidentOf(Numbered(c)) : c \in {d \in fresh[p] : d.incident}}
             gone == {a \in Alert : alert[a] = "deleted"}
  <2>1. \A c \in new : /\ c.status = "escalated" => c.incident
                       /\ c.incident => IncidentOf(c) \in added
    <3> SUFFICES ASSUME NEW b \in fresh[p]
                 PROVE  /\ Numbered(b).status = "escalated" => Numbered(b).incident
                        /\ Numbered(b).incident => IncidentOf(Numbered(b)) \in added
      BY <1>5
    <3>1. b.status = "escalated" <=> b.incident
      BY DEF FlushedInOrder, WellMade
    <3> QED
      BY <3>1, CommittedClusters
  <2>2. \A c \in cluster : /\ c.status = "escalated" => c.incident
                           /\ c.incident => IncidentOf(c) \in incident
    BY DEF EscalationIsWhole
  <2>3. UNION {i.group : i \in added} = UNION {c.group : c \in {d \in fresh[p] : d.incident}}
    <3>1. \A c \in fresh[p] : IncidentOf(Numbered(c)).group = c.group
      BY CommittedClusters DEF IncidentOf
    <3> QED
      BY <3>1
  <2>4. UNION {Marked(c) : c \in fresh[p]} = (UNION {c.group : c \in {d \in fresh[p] : d.incident}}) \ escalated
    <3>1. \A c \in fresh[p] : Marked(c) = IF c.incident THEN c.group \ escalated ELSE {}
      BY DEF FlushedInOrder, WellMade, Marked
    <3> QED
      BY <3>1
  <2>5. (UNION {c.group : c \in {d \in fresh[p] : d.incident}}) \cap gone = {}
    BY DEF FlushedInOrder
  <2>6. escalated = linked \ gone
    BY DEF EscalationIsWhole
  <2>7. UNION {i.group : i \in incident \cup added} = linked \cup UNION {i.group : i \in added}
    OBVIOUS
  <2>8. incident' = incident \cup added /\ alert' = alert
    BY <1>1
  <2> DEFINE grown == UNION {i.group : i \in added}
  <2>9. escalated' = escalated \cup (grown \ escalated) /\ grown \cap gone = {}
    BY <1>1, <2>3, <2>4, <2>5
  <2> HIDE DEF linked, added, gone, grown
  <2>10. escalated' = (linked \cup grown) \ gone
    BY <2>6, <2>9
  <2>11. escalated' = (UNION {i.group : i \in incident'}) \ {a \in Alert : alert'[a] = "deleted"}
    BY <2>7, <2>8, <2>10 DEF grown, gone
  <2>12. \A c \in cluster' : /\ c.status = "escalated" => c.incident
                             /\ c.incident => IncidentOf(c) \in incident'
    BY <1>1, <2>1, <2>2, <2>8
  <2> QED
    BY <2>11, <2>12 DEF EscalationIsWhole, IncidentOf
<1>15. TenantsApart'
  <2>1. \A b \in fresh[p] : /\ RuleRow[b.rule].org \in {Global, b.org}
                            /\ \A a \in b.group : AlertRow[a].org = b.org
    BY DEF FlushedInOrder, WellMade
  <2>2. \A b \in fresh[p] : /\ IncidentOf(Numbered(b)).org = b.org /\ IncidentOf(Numbered(b)).rule = b.rule
                            /\ IncidentOf(Numbered(b)).group = b.group
    BY CommittedClusters DEF IncidentOf
  <2>3. \A c \in cluster' \cup incident' :
          \/ c \in cluster \cup incident
          \/ \E b \in fresh[p] : c.org = b.org /\ c.rule = b.rule /\ c.group = b.group
    BY <1>1, <1>5, <2>2, CommittedClusters
  <2> QED
    BY <2>1, <2>3 DEF TenantsApart
<1>16. GroupsAreSound'
  BY <1>2, <1>3, GroupsStand DEF OthersStand
<1> QED
  BY <1>8, <1>9, <1>10, <1>11, <1>12, <1>13, <1>14, <1>15, <1>16 DEF Rest

(* The lock is lost.                                                         *)
LEMMA ExpireStep ==
  ASSUME CorrelationInv, Expire
  PROVE  Rest'
<1>1. UNCHANGED <<pass, alert, escalated, cluster, incident, commits>>
  BY DEF Expire
<1>2. escalated = escalated \ {a \in Alert : alert[a] = "deleted"}
  BY DEF CorrelationInv, EscalationIsWhole
<1> QED
  BY <1>1, <1>2, RequestsKeepInv

(* The invariant is inductive.                                               *)
LEMMA StepKeepsInv == CorrelationInv /\ [Next]_vars => CorrelationInv'
<1> SUFFICES ASSUME CorrelationInv, [Next]_vars
             PROVE  CorrelationInv'
  OBVIOUS
<1>0. TypeOK /\ PassesInPlace
  BY DEF CorrelationInv
<1>7. TypeOK' /\ Rest' => CorrelationInv'
  BY DEF CorrelationInv, Rest
<1>1. ASSUME NEW a \in Alert, CreateAlert(a) \/ AgeOut(a) \/ DismissAlert(a) \/ DeleteAlert(a)
      PROVE  TypeOK' /\ Rest'
  BY <1>0, <1>1, TypeRequests, AlertSteps
<1>2. CASE \/ \E r \in Rule : CreateRule(r)
           \/ \E o \in Org, r \in Rule : UpdateRule(o, r) \/ DeleteRule(o, r)
           \/ \E o \in Org, c \in cluster : DismissCluster(o, c)
           \/ \E o \in Org : UpdateOrganization(o)
  BY <1>0, <1>2, <1>7, TypeRequests, RuleAndClusterSteps
<1>3. CASE \/ \E p \in Sweeper : StartSweep(p)
           \/ \E o \in RunNow : StartRunNow(o)
  BY <1>0, <1>3, <1>7, TypeStarts, EmptyHandedSteps DEF Pass
<1>4. ASSUME NEW p \in Pass, PassStep(p) \/ Abort(p)
      PROVE  TypeOK' /\ Rest'
  <2>1. TypeOK'
    BY <1>0, <1>4, TypePasses
  <2>2. Rest'
    BY <1>4, EmptyHandedSteps, ReadClaimedStep, ReadAlertsStep, ReadRulesStep, ApplyStep, CommitStep DEF PassStep
  <2> QED
    BY <2>1, <2>2
<1>5. CASE Expire
  BY <1>0, <1>5, <1>7, TypeExpire, ExpireStep
<1>6. CASE UNCHANGED vars
  BY <1>6 DEF vars, CorrelationInv, TypeOK, PassesInPlace, DraftsInOrder, Drafted, WellMade, FlushedInOrder,
              ClaimsKept, Members, ClustersNumbered, SharedOnlyByOverlap, EscalationIsWhole, IncidentOf,
              TenantsApart, GroupsAreSound
<1> QED
  BY <1>1, <1>2, <1>3, <1>4, <1>5, <1>6, <1>7 DEF Next, CorrelationRequest

(* Always, for any organisations, alerts, rules, workers and bounds.         *)
THEOREM CorrelationInvariant == Spec => []CorrelationInv
BY InitInv, StepKeepsInv, PTL DEF Spec

(* The state of the passes and the tables stays in its types: in particular  *)
(* what the rules make of a list is a set of rows.                           *)
THEOREM CorrelationTypes == Spec => []TypeOK
<1>1. CorrelationInv => TypeOK
  BY DEF CorrelationInv
<1> QED
  BY <1>1, CorrelationInvariant, PTL

(* correlation_service.py:94 for any number of overlapping passes: two active*)
(* clusters share an alert only if two rules of one pass made them, or the   *)
(* pass that committed later had looked before the other committed.          *)
THEOREM ActiveClustersShareOnlyByOverlap == Spec => []SharedOnlyByOverlap
<1>1. CorrelationInv => SharedOnlyByOverlap
  BY DEF CorrelationInv
<1> QED
  BY <1>1, CorrelationInvariant, PTL

(* _auto_escalate: an escalated cluster has its incident, and an alert is    *)
(* marked exactly when an incident is linked to it, through rollbacks,       *)
(* dismissals, deletions and cascades.                                       *)
THEOREM EscalationIsAllOrNothing == Spec => []EscalationIsWhole
<1>1. CorrelationInv => EscalationIsWhole
  BY DEF CorrelationInv
<1> QED
  BY <1>1, CorrelationInvariant, PTL

(* Clusters and incidents hold alerts of their own organisation, made by a   *)
(* rule it may use.                                                          *)
THEOREM TenantsStayApart == Spec => []TenantsApart
<1>1. CorrelationInv => TenantsApart
  BY DEF CorrelationInv
<1> QED
  BY <1>1, CorrelationInvariant, PTL

(* What a pass makes of what it scanned is a sound grouping, in whatever     *)
(* order its alerts came.                                                    *)
THEOREM PassesGroupSoundly == Spec => []GroupsAreSound
<1>1. CorrelationInv => GroupsAreSound
  BY DEF CorrelationInv
<1> QED
  BY <1>1, CorrelationInvariant, PTL
=============================================================================
