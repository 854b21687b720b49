------------------------------- MODULE Memory -------------------------------
(* The fact store of src/internal/actions/memory.go and the element finder    *)
(* of ui_finder.go that reads and fills it.  Every operation holds memMu from *)
(* start to end, so each is one step; FindUIElement is two, because it takes  *)
(* the lock once to look and, after a screenshot and OCR, once more to store. *)
EXTENDS Integers, FiniteSets

CONSTANTS Keys, Scopes, DefaultScope, UIScope,
          FactTags, UITags,         \* tags of facts; those a detection writes
          TagTexts,                 \* tag texts callers write
          Elements, Notes,          \* values that are a place on screen, and others
          TTLs, UITTL,              \* times to live; 0 is none
          Limits,                   \* of answers a caller may ask for
          Finders, MaxHour

ASSUME ScopesAssumption == {DefaultScope, UIScope} \subseteq Scopes
ASSUME TTLAssumption == TTLs \subseteq Nat /\ UITTL \in Nat \ {0}
ASSUME ClockAssumption == MaxHour \in Nat
ASSUME TagsAssumption ==
  UITags \subseteq FactTags /\ TagTexts \subseteq SUBSET (FactTags \X {"tight", "padded"})
ASSUME ValuesAssumption ==
  "none" \notin Elements \cup Notes /\ Limits \subseteq Nat \ {0}
ASSUME FinitelyMany == IsFiniteSet(Keys) /\ IsFiniteSet(Scopes)

VARIABLES facts, hour,
          finding                   \* finder -> how far its FindUIElement is

memVars == <<facts, hour, finding>>

NoFact == [value |-> "none"]
Ids == Keys \X Scopes

(* The stored tag text is kept as typed: a piece between two commas is a tag  *)
(* with or without blanks around it.                                          *)
Pieces == FactTags \X {"tight", "padded"}

Fact == [value : Elements \cup Notes, tags : SUBSET Pieces, created : 0..MaxHour,
         updated : 0..MaxHour, ttl : TTLs \cup {UITTL, 0}]

Idle == [at |-> "idle"]
Finding == {Idle} \cup [at : {"screen"}, key : Keys]
  \cup [at : {"memory"}, key : Keys, element : Elements]
  \cup [at : {"prior", "onnx", "ocr", "none"}, key : Keys]

-----------------------------------------------------------------------------
(* One row per key and scope: an insert that conflicts moves everything but   *)
(* created_at.                                                                *)
Created(old) == IF old = NoFact THEN hour ELSE old.created

Upsert(old, value, tags, ttl) ==
  [value |-> value, tags |-> tags, created |-> Created(old), updated |-> hour, ttl |-> ttl]

\* Mutant: a fact dies at its time to live instead of after it.
ExpiredEarly(f) == f.ttl > 0 /\ hour - f.created >= f.ttl
Expired(f) == f.ttl > 0 /\ hour - f.created > f.ttl

Live(id) == facts[id] # NoFact /\ ~Expired(facts[id])
MemoryGet(id) == IF Live(id) THEN facts[id].value ELSE "none"

(* What the LIKE of a tag filter matches: the tag with commas right around it.*)
Tagged(f, tags) == \A t \in tags : <<t, "tight">> \in f.tags
\* Mutant: any one of the tags is enough.
SelectedByAny(scope, tags) ==
  {id \in Ids : /\ facts[id] # NoFact
                /\ scope \in {"", id[2]}
                /\ tags = {} \/ \E t \in tags : Tagged(facts[id], {t})}
Selected(scope, tags) ==
  {id \in Ids : /\ facts[id] # NoFact
                /\ scope \in {"", id[2]}
                /\ Tagged(facts[id], tags)}

(* A LIMIT keeps the rows last updated, and only then are expired rows left   *)
(* out.  Rows updated at the same moment come in any order.                   *)
Newest(ids, limit) ==
  {top \in SUBSET ids :
     /\ Cardinality(top) = IF Cardinality(ids) < limit THEN Cardinality(ids) ELSE limit
     /\ \A a \in top, b \in ids \ top : facts[a].updated >= facts[b].updated}
MemoryList(scope, tags, limit) ==
  {{id \in top : Live(id)} : top \in Newest(Selected(scope, tags), limit)}

(* Search ranks by text, which says nothing of age: any rows may be the best. *)
Best(ids, limit) ==
  {top \in SUBSET ids :
     Cardinality(top) = IF Cardinality(ids) < limit THEN Cardinality(ids) ELSE limit}
MemorySearch(value, scope, limit) ==
  {{id \in top : Live(id)} :
     top \in Best({id \in Selected(scope, {}) : facts[id].value = value}, limit)}

-----------------------------------------------------------------------------
MemoryInit ==
  /\ facts = [id \in Ids |-> NoFact]
  /\ hour = 0
  /\ finding = [p \in Finders |-> Idle]

MemorySet(id, value, tags, ttl) ==
  /\ facts' = [facts EXCEPT ![id] = Upsert(@, value, tags, ttl)]
  /\ UNCHANGED <<hour, finding>>

(* Filters are ANDed and an absent one matches all; a call with none of the   *)
(* three is refused.  `typed` says whether a tag text was given: a text of    *)
(* blanks is one, and holds no tag.                                           *)
MemoryForget(key, scope, typed, tags) ==
  /\ key # "" \/ scope # "" \/ typed
  /\ typed \/ tags = {}
  /\ facts' = [id \in Ids |-> IF id \in Selected(scope, tags) /\ key \in {"", id[1]}
                              THEN NoFact ELSE facts[id]]
  /\ UNCHANGED <<hour, finding>>

(* What ONNX saw goes into the scope "ui" in one transaction, an hour to live.*)
StoreDetection(seen) ==
  facts' = [id \in Ids |-> IF id[2] = UIScope /\ id[1] \in DOMAIN seen
                           THEN Upsert(facts[id], seen[id[1]], UITags \X {"tight"}, UITTL) ELSE facts[id]]
MemoryStoreDetectionElements(seen) ==
  /\ DOMAIN seen # {}
  /\ StoreDetection(seen)
  /\ UNCHANGED <<hour, finding>>

(* FindUIElement: memory first, then the priors, both before the screenshot;  *)
(* then ONNX, which saves a training sample of the find, then OCR, which      *)
(* stores the place for next time, and at last a sample of the failure.       *)
MemoryToElement(key) ==
  LET v == MemoryGet(<<key, UIScope>>) IN IF v \in Elements THEN v ELSE "none"
FindInMemory(p, key) ==
  /\ finding[p].at # "screen"
  /\ finding' = [finding EXCEPT ![p] =
       IF MemoryToElement(key) # "none"
       THEN [at |-> "memory", key |-> key, element |-> MemoryToElement(key)]
       ELSE [at |-> "screen", key |-> key]]
  /\ UNCHANGED <<facts, hour>>
FindElsewhere(p, source) ==
  /\ finding[p].at = "screen"
  /\ finding' = [finding EXCEPT ![p].at = source]
  /\ UNCHANGED <<facts, hour>>
FindByOCR(p, element) ==
  /\ finding[p].at = "screen"
  /\ StoreDetection([key \in {finding[p].key} |-> element])
  /\ finding' = [finding EXCEPT ![p].at = "ocr"]
  /\ UNCHANGED hour

HourPasses == hour < MaxHour /\ hour' = hour + 1 /\ UNCHANGED <<facts, finding>>

MemoryNext ==
  \/ \E id \in Ids, v \in Elements \cup Notes, tags \in TagTexts, ttl \in TTLs :
       MemorySet(id, v, tags, ttl)
  \/ \E key \in Keys \cup {""}, scope \in Scopes \cup {""}, tags \in SUBSET FactTags,
        typed \in BOOLEAN : MemoryForget(key, scope, typed, tags)
  \/ \E seen \in UNION {[K -> Elements] : K \in SUBSET Keys} : MemoryStoreDetectionElements(seen)
  \/ \E p \in Finders, key \in Keys : FindInMemory(p, key)
  \/ \E p \in Finders, source \in {"prior", "onnx", "none"} : FindElsewhere(p, source)
  \/ \E p \in Finders, element \in Elements : FindByOCR(p, element)
  \/ HourPasses
MemorySpec == MemoryInit /\ [][MemoryNext]_memVars

-----------------------------------------------------------------------------
MemoryTypeOK ==
  /\ facts \in [Ids -> Fact \cup {NoFact}]
  /\ hour \in 0..MaxHour
  /\ finding \in [Finders -> Finding]

(* Nothing is served that was last written longer ago than its time to live,  *)
(* although the life of a row is counted from its first insert.               *)
ServedInTime ==
  \A id \in Ids : Live(id) /\ facts[id].ttl > 0 => hour - facts[id].updated <= facts[id].ttl

(* Filters are a conjunction: naming two tags, to list or to forget, selects  *)
(* what naming each of them selects, never more.                              *)
TagsNarrow ==
  \A scope \in Scopes \cup {""}, t, u \in FactTags :
    Selected(scope, {t, u}) = Selected(scope, {t}) \cap Selected(scope, {u})

(* A list shows live facts only, and leaves a live one out only for as many   *)
(* others, updated no earlier, as the limit allows: expired rows are among    *)
(* them, since the limit comes before the time to live.  A search leaves one  *)
(* out only when more rows match than the limit.                              *)
ListsNewest ==
  \A scope \in Scopes \cup {""}, limit \in Limits :
    LET rows == Selected(scope, {})
        Fresher(id) == {o \in rows \ {id} : facts[o].updated >= facts[id].updated}
    IN /\ \A shown \in MemoryList(scope, {}, limit) :
            /\ \A id \in shown : MemoryGet(id) # "none"
            /\ \A id \in rows \ shown : Live(id) => Cardinality(Fresher(id)) >= limit
       /\ \A v \in Elements \cup Notes : \A shown \in MemorySearch(v, scope, limit) :
            LET matches == {id \in rows : facts[id].value = v} IN
              \A id \in matches \ shown : Live(id) => Cardinality(matches) > limit

(* What a caller is told, by key, tag or newest first.                        *)
ListAnswers == ServedInTime /\ TagsNarrow /\ ListsNewest

(* A place OCR has just found is in memory for the next call, unless the row  *)
(* of that key was first written an hour ago: an update leaves created_at     *)
(* alone, so such a row is dead as soon as it is refreshed.                   *)
OCRRemembered ==
  \A p \in Finders, element \in Elements :
    LET id == <<finding[p].key, UIScope>> IN
      FindByOCR(p, element) /\ (facts[id] = NoFact \/ hour - facts[id].created <= UITTL)
        => MemoryToElement(id[1])' = element
OCRPaysOff == [][OCRRemembered]_memVars

(* What memory is for: what is in time and asked for is answered, and what is *)
(* found by reading the screen need not be read again.                        *)
FactsServe == []ListAnswers /\ OCRPaysOff
=============================================================================
