----------------------------- MODULE EntityNames -----------------------------
(***************************************************************************)
(* Names of entities (utils/name_normalization.py), and the resolution of  *)
(* one against the entities of an organisation (entity_resolution_service. *)
(* py).  A name is the list of its words once it is lowercased, without    *)
(* diacritics and punctuation; a word stands for its place in the          *)
(* alphabet.                                                               *)
(***************************************************************************)
EXTENDS Naturals, FiniteSets, Sequences, Functions

CONSTANTS
  Word, Honorific, LegalSuffix,
  Spelling,       \* [variants -> the common spelling], TRANSLITERATION_MAP
  PoolSize,       \* limit of search_similar, 200
  MaxCandidates,  \* MAX_CANDIDATES_RETURNED, 10
  MaxWords,       \* bound: words of a name
  MaxRows         \* bound: entities of an organisation

ASSUME NamesAssumption ==
  /\ Word \subseteq Nat /\ Honorific \cup LegalSuffix \subseteq Word
  /\ DOMAIN Spelling \subseteq Word /\ \A w \in DOMAIN Spelling : Spelling[w] \in Word \ Honorific
  /\ {PoolSize, MaxCandidates, MaxWords, MaxRows} \subseteq Nat

EntityType == {"person", "organization", "location"}
Name == UNION {[1..n -> Word] : n \in 1..MaxWords}

(* A finite set in some order, given by what comes before each element:      *)
(* listed from the first to the last, and the first n.                       *)
Listed(before) ==
  [k \in 1..Cardinality(DOMAIN before) |->
    CHOOSE x \in DOMAIN before : Cardinality(before[x]) = k - 1]

First(n, before) == {x \in DOMAIN before : Cardinality(before[x]) < n}

Ascending(S) == [j \in S |-> {i \in S : i < j}]

Common(w) == IF w \in DOMAIN Spelling THEN Spelling[w] ELSE w

(* Where the words stand that are no titles.                                 *)
Kept(name) == {i \in DOMAIN name : name[i] \notin Honorific}

(* Their order once they are sorted, by the common spelling.                 *)
Sorted(name) ==
  [j \in Kept(name) |->
    {i \in Kept(name) : \/ Common(name[i]) < Common(name[j])
                        \/ Common(name[i]) = Common(name[j]) /\ i < j}]

(* Mutant: the words stay in the order in which they are given.              *)
PersonName_Unsorted(name) ==
  LET at == Listed(Ascending(Kept(name))) IN [k \in DOMAIN at |-> Common(name[at[k]])]

PersonName(name) ==
  LET at == Listed(Sorted(name)) IN [k \in DOMAIN at |-> Common(name[at[k]])]

OrganizationName(name) ==
  LET at == Listed(Ascending({i \in DOMAIN name : name[i] \notin LegalSuffix}))
  IN [k \in DOMAIN at |-> name[at[k]]]

Normalize(name, type) ==
  CASE type = "person" -> PersonName(name)
    [] type = "organization" -> OrganizationName(name)
    [] OTHER -> name

(* A row as it is created, or renamed.                                       *)
Named(name, type) == [name |-> name, type |-> type, normal |-> Normalize(name, type)]

(* name_similarity: the words in common, of the words of both.               *)
Overlap(a, b) == Cardinality(Range(a) \cap Range(b))
Union(a, b) == Cardinality(Range(a) \cup Range(b))

(* Mutant: the threshold of one half is exclusive.                           *)
Similar_Strictly(a, b) == Range(a) # {} /\ Range(b) # {} /\ 2 * Overlap(a, b) > Union(a, b)

Similar(a, b) == Range(a) # {} /\ Range(b) # {} /\ 2 * Overlap(a, b) >= Union(a, b)

Closer(name, a, b) == Overlap(name, a) * Union(name, b) > Overlap(name, b) * Union(name, a)

(* find_by_normalized_name: of any type.                                     *)
Matches(rows, name) == {i \in DOMAIN rows : rows[i].normal = name}

(* search_similar: rows in the order in which they come.                     *)
Pool(rows, type) == First(PoolSize, Ascending({i \in DOMAIN rows : rows[i].type = type}))

(* The most similar first; what is as similar as another stays behind it.    *)
Ranked(rows, name, near) ==
  [j \in near |->
    {i \in near : \/ Closer(name, rows[i].normal, rows[j].normal)
                  \/ ~Closer(name, rows[j].normal, rows[i].normal) /\ i < j}]

(* scalar_one_or_none raises when two rows match, before any candidate is    *)
(* read.                                                                     *)
Raised == [raises |-> TRUE, exact |-> {}, candidates |-> {}]

(* resolve.                                                                  *)
Resolve(rows, raw, type) ==
  LET name  == Normalize(raw, type)
      exact == Matches(rows, name)
      near  == {i \in Pool(rows, type) : i \notin exact /\ Similar(name, rows[i].normal)}
  IN IF Cardinality(exact) > 1 THEN Raised
     ELSE [raises |-> FALSE, exact |-> exact,
           candidates |-> First(MaxCandidates, Ranked(rows, name, near))]

-----------------------------------------------------------------------------
(* Properties *)

(* How often a word counts in a person's name.                               *)
Count(name, w) == Cardinality({i \in Kept(name) : Common(name[i]) = w})

SamePerson(a, b) == \A w \in Word : Count(a, w) = Count(b, w)

OneWordApart(a, b) ==
  /\ Range(a) \subseteq Range(b) \/ Range(b) \subseteq Range(a)
  /\ Range(a) # {} /\ Range(b) # {} /\ Union(a, b) = Overlap(a, b) + 1

Persons(rows) == {i \in DOMAIN rows : rows[i].type = "person"}

(* What n entities may be called, and what one may be looked up by.          *)
Called(n) == [1..n -> {Named(name, type) : name \in Name, type \in EntityType}]

(* Two entities, of any type, that have become one name.                     *)
Ambiguous(rows, name) ==
  \E i, j \in DOMAIN rows : i # j /\ rows[i].normal = name /\ rows[j].normal = name

(* Whether n entities, whatever they are called, are recognised.  A lookup   *)
(* raises when, and only when, two entities bear that name.  If none does,   *)
(* it finds the person, and no other, in whatever order the words of the name*)
(* come, however they are spelled and whatever titles are given; and a name  *)
(* that has one word more or less is put forward for review, unless there are*)
(* enough others, none of which it is closer than, or more persons than are  *)
(* looked at.                                                                *)
Recognised ==
  [n \in 0..MaxRows |->
    \A rows \in Called(n), raw \in Name :
      LET answer == Resolve(rows, raw, "person")
      IN /\ answer.raises <=> Ambiguous(rows, PersonName(raw))
         /\ ~answer.raises =>
              \A i \in Persons(rows) :
                /\ SamePerson(rows[i].name, raw) => answer.exact = {i}
                /\ OneWordApart(rows[i].normal, PersonName(raw)) =>
                     \/ i \in answer.candidates
                     \/ /\ Cardinality(answer.candidates) = MaxCandidates
                        /\ \A c \in answer.candidates :
                             ~Closer(PersonName(raw), rows[i].normal, rows[c].normal)
                     \/ Cardinality(Persons(rows)) > PoolSize]

(* Whether a lookup among n entities finds an exact match if one exists.     *)
ExactlyMatched ==
  [n \in 0..MaxRows |->
    \A rows \in Called(n), raw \in Name, type \in EntityType :
      (\E i \in DOMAIN rows : rows[i].normal = Normalize(raw, type)) =>
        Resolve(rows, raw, type).exact # {}]
=============================================================================
