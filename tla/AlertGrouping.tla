--------------------------- MODULE AlertGrouping ---------------------------
(***************************************************************************)
(* How a correlation rule groups a list of alerts (correlation_service.py, *)
(* _apply_spatial_rule, _apply_temporal_rule, _apply_category_rule): each  *)
(* operator returns the set of groups it makes clusters of.  A place is a  *)
(* point of a line, or NoPlace: all the rules use is whether two alerts    *)
(* are within a radius, which is not transitive on a line either.          *)
(***************************************************************************)
EXTENDS Integers, FiniteSets, Functions

CONSTANTS
  Org, Alert, Rule,
  NoPlace,     \* an alert without latitude or longitude
  Global,      \* the organization_id of a rule shared by every organisation
  AlertRow,    \* [Alert -> [org, place, created, category, severity]]
  RuleRow      \* [Rule -> [org, type, threshold, span, only, escalateAt]]

(* The columns of an alert its life cycle leaves alone; severity is its rank *)
(* in SEVERITY_RANK.                                                         *)
AlertRows ==
  [org : Org, place : Int \cup {NoPlace}, created : Nat, category : STRING, severity : 0..4]

(* span is parameters_json's radius_km or window_minutes, only its category  *)
(* or "any"; the schema makes a threshold of at least two.                   *)
RuleRows ==
  [org : Org \cup {Global}, type : {"spatial", "temporal", "category"},
   threshold : Nat \ {0, 1}, span : Nat, only : STRING, escalateAt : 0..4]

ASSUME GroupingAssumption ==
  /\ AlertRow \in [Alert -> AlertRows]
  /\ RuleRow \in [Rule -> RuleRows]
  /\ IsFiniteSet(Alert) /\ Global \notin Org /\ NoPlace \notin Int

Distance(a, b) ==
  LET d == AlertRow[a].place - AlertRow[b].place IN IF d < 0 THEN -d ELSE d

HasPlace(a) == AlertRow[a].place # NoPlace

Near(r, a, b) == HasPlace(a) /\ HasPlace(b) /\ Distance(a, b) <= RuleRow[r].span

Wanted(r, a) == RuleRow[r].only \in {"any", AlertRow[a].category}

InWindow(r, a, b) == AlertRow[b].created - AlertRow[a].created \in 0..RuleRow[r].span

(* Whether the rule counts alert b as related to the anchor a.               *)
Related(r, a, b) ==
  CASE RuleRow[r].type = "spatial"  -> Near(r, a, b)
    [] RuleRow[r].type = "temporal" -> Wanted(r, a) /\ Wanted(r, b) /\ InWindow(r, a, b)
    [] RuleRow[r].type = "category" -> AlertRow[a].category = AlertRow[b].category

LargeEnough(r, group) == Cardinality(group) >= RuleRow[r].threshold

(* The lists in which a SELECT without ORDER BY may return a set of alerts:  *)
(* each alert has its place in the list.                                     *)
Orders == [S \in SUBSET Alert |-> Bijection(S, 1..Cardinality(S))]

-----------------------------------------------------------------------------
(* The greedy loops of _apply_spatial_rule and _apply_temporal_rule.         *)

(* What they go through: geo_alerts, or the candidates.                      *)
Candidates(r, list) ==
  {a \in DOMAIN list : IF RuleRow[r].type = "spatial" THEN HasPlace(a) ELSE Wanted(r, a)}

(* As it comes; a temporal rule sorts it by the time of creation first.      *)
Before(r, list, a, b) ==
  LET Time(x) == IF RuleRow[r].type = "temporal" THEN AlertRow[x].created ELSE 0
  IN Time(a) < Time(b) \/ (Time(a) = Time(b) /\ list[a] < list[b])

(* What an anchor may take; for a temporal rule, of those that follow it.    *)
Around(r, list, a) ==
  {b \in Candidates(r, list) :
    Related(r, a, b) /\ (RuleRow[r].type = "temporal" => Before(r, list, a, b))}

(* Mutant: groups below the threshold are kept.                              *)
Anchor_AnySize(r, a, used, around) ==
  IF a \in used THEN {} ELSE {a} \cup (around \ used)

(* One turn of the loop over anchors: the group a makes, or none.            *)
Anchor(r, a, used, around) ==
  LET group == {a} \cup (around \ used)
  IN IF a \in used \/ ~LargeEnough(r, group) THEN {} ELSE group

(* What each candidate took when its turn as an anchor came.                 *)
Taken(r, list) ==
  LET taken[a \in Candidates(r, list)] ==
        Anchor(r, a, UNION {taken[b] : b \in {c \in Candidates(r, list) : Before(r, list, c, a)}},
               Around(r, list, a))
  IN taken

CategoryGroups(r, list) ==
  LET Same(a) == {b \in DOMAIN list : Related(r, a, b)}
  IN {g \in {Same(a) : a \in DOMAIN list} : LargeEnough(r, g)}

Groups(r, list) ==
  IF RuleRow[r].type = "category" THEN CategoryGroups(r, list)
  ELSE {Taken(r, list)[a] : a \in Candidates(r, list)} \ {{}}

(* Whether the worst of the alerts is bad enough.                            *)
Escalates(r, group) == \E a \in group : AlertRow[a].severity >= RuleRow[r].escalateAt

(* The groups a rule makes of a list, and whether each one is escalated; as  *)
(* a function, which TLC tabulates once.                                     *)
Drafts ==
  [r \in Rule |-> [list \in UNION {Orders[S] : S \in SUBSET Alert} |->
    {[group |-> g, escalates |-> Escalates(r, g)] : g \in Groups(r, list)}]]

-----------------------------------------------------------------------------
(* What the greedy loops promise, without the loops.                         *)

(* Groups are large enough, disjoint, each around an anchor, and what is     *)
(* left over would not make another group.                                   *)
SoundGrouping(r, alerts, groups) ==
  LET left == alerts \ UNION groups
  IN /\ \A g \in groups :
          /\ g \subseteq alerts /\ LargeEnough(r, g)
          /\ \E a \in g : \A b \in g : b = a \/ Related(r, a, b)
          /\ \A h \in groups : g = h \/ g \cap h = {}
     /\ \A a \in left : ~LargeEnough(r, {a} \cup {b \in left : Related(r, a, b)})
=============================================================================
