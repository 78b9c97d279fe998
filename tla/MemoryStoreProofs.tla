------------------------- MODULE MemoryStoreProofs -------------------------
(***************************************************************************)
(* What the operators of MemoryStore return, for every store.              *)
(***************************************************************************)
EXTENDS MemoryStore, TLAPS

\* An export or an import may only add rows and append changes to a store.
Extends(st, new) ==
    /\ st.rows \subseteq new.rows
    /\ Len(st.changes) <= Len(new.changes)
    /\ \A k \in 1..Len(st.changes) : new.changes[k] = st.changes[k]

\* st grew to new by some of objs, each with a change of the given origin.
GrownBy(st, new, objs, origin) ==
    /\ new \in Store
    /\ Extends(st, new)
    /\ new.rows \subseteq st.rows \union objs
    /\ \A k \in 1..Len(new.changes) :
          \/ k \in 1..Len(st.changes)
          \/ /\ new.changes[k].entity \in objs
             /\ new.changes[k].entity \in new.rows
             /\ new.changes[k].origin = origin

\* The session that an object belongs to.
LEMMA SessionInType ==
    ASSUME NEW o \in Objects
    PROVE  SessionIn(o) \in Sessions
BY StoreAssumption DEF SessionIn, Objects

\* Sessions are objects, as items are.
LEMMA SessionsAreObjects == Sessions \subseteq Objects
BY DEF Objects

\* The parts of a store.
LEMMA StoreFields ==
    ASSUME NEW st \in Store
    PROVE  /\ st.rows \subseteq Objects
           /\ Len(st.changes) \in Nat
           /\ \A k \in 1..Len(st.changes) :
                 /\ st.changes[k].entity \in Objects
                 /\ st.changes[k].origin \in Origins
<1>1. st.changes \in Seq(Change)
  BY DEF Store
<1>2. \A k \in 1..Len(st.changes) : st.changes[k] \in Change
  BY <1>1
<1>. QED
  BY <1>1, <1>2 DEF Store, Change

\* One INSERT OR IGNORE: the store grows by the row and, when that is new, by
\* one change at the end of the log.
LEMMA InsertProperties ==
    ASSUME NEW st \in Store, NEW o \in Objects, NEW origin \in Origins
    PROVE  /\ GrownBy(st, Insert(st, o, origin), {o}, origin)
           /\ o \in Insert(st, o, origin).rows
<1> DEFINE change == [entity |-> o, origin |-> origin]
<1>1. /\ st.rows \in SUBSET Objects
      /\ st.changes \in Seq(Change)
      /\ Len(st.changes) \in Nat
      /\ change \in Change
  BY DEF Store, Change
<1>2. CASE o \in st.rows
  BY <1>1, <1>2 DEF Insert, GrownBy, Extends
<1>3. CASE o \notin st.rows
  <2>1. Insert(st, o, origin) =
           [rows |-> st.rows \union {o}, changes |-> Append(st.changes, change)]
    BY <1>3 DEF Insert
  <2>2. /\ Append(st.changes, change) \in Seq(Change)
        /\ Len(Append(st.changes, change)) = Len(st.changes) + 1
        /\ \A k \in 1..Len(st.changes) : Append(st.changes, change)[k] = st.changes[k]
        /\ Append(st.changes, change)[Len(st.changes) + 1] = change
    BY <1>1
  <2>3. Insert(st, o, origin) \in Store
    BY <1>1, <2>1, <2>2 DEF Store
  <2>4. Extends(st, Insert(st, o, origin))
    BY <1>1, <2>1, <2>2 DEF Extends
  <2>5. ASSUME NEW k \in 1..(Len(st.changes) + 1), k \notin 1..Len(st.changes)
        PROVE  Append(st.changes, change)[k] = change
    BY <1>1, <2>2, <2>5
  <2>. QED
    BY <1>1, <2>1, <2>2, <2>3, <2>4, <2>5 DEF GrownBy
<1>. QED
  BY <1>2, <1>3

\* One transaction of an import: the object, or first the session it is in.
LEMMA ImportStepProperties ==
    ASSUME NEW st \in Store, NEW o \in Objects, NEW origin \in Origins
    PROVE  /\ GrownBy(st, ImportStep(st, o, origin), {o, SessionIn(o)}, origin)
           /\ SessionIn(o) \in ImportStep(st, o, origin).rows
           /\ \/ o \in ImportStep(st, o, origin).rows
              \/ o \in Items /\ SessionMissing(st, o)
<1>1. SessionIn(o) \in Objects
  BY SessionInType, SessionsAreObjects
<1>2. CASE SessionMissing(st, o)
  <2>1. ImportStep(st, o, origin) = Insert(st, SessionIn(o), origin)
    BY <1>2 DEF ImportStep, EnsureSession
  <2>2. o \in Items \/ o = SessionIn(o)
    BY DEF SessionIn, Objects
  <2>3. /\ GrownBy(st, Insert(st, SessionIn(o), origin), {SessionIn(o)}, origin)
        /\ SessionIn(o) \in Insert(st, SessionIn(o), origin).rows
    BY <1>1, InsertProperties
  <2>. QED
    BY <1>2, <2>1, <2>2, <2>3 DEF GrownBy
<1>3. CASE ~SessionMissing(st, o)
  <2>1. ImportStep(st, o, origin) = Insert(st, o, origin)
    BY <1>3 DEF ImportStep
  <2>2. SessionIn(o) \in st.rows
    BY <1>3 DEF SessionMissing
  <2>3. /\ GrownBy(st, Insert(st, o, origin), {o}, origin)
        /\ o \in Insert(st, o, origin).rows
    BY InsertProperties
  <2>. QED
    BY <2>1, <2>2, <2>3 DEF GrownBy, Extends
<1>. QED
  BY <1>2, <1>3

\* The cursor of an export is a place in the log, or 0.
LEMMA CurrentCursorType ==
    ASSUME NEW st \in Store, NEW scope
    PROVE  /\ CurrentCursor(st, scope) \in Nat
           /\ CurrentCursor(st, scope) <= Len(st.changes)
<1>1. Len(st.changes) \in Nat
  BY DEF Store
<1> DEFINE P(k) == IsLastInScope(st, scope, k)
<1>2. CASE \E k \in 1..Len(st.changes) : P(k)
  <2>1. (CHOOSE k \in 1..Len(st.changes) : P(k)) \in 1..Len(st.changes)
    BY <1>2
  <2>. QED
    BY <1>1, <1>2, <2>1 DEF CurrentCursor
<1>3. CASE ~\E k \in 1..Len(st.changes) : P(k)
  BY <1>1, <1>3 DEF CurrentCursor
<1>. QED
  BY <1>2, <1>3

\* An incremental export consists of rows of the store's objects.
LEMMA DeltaProperties ==
    ASSUME NEW st \in Store, NEW ex \in Export
    PROVE  Delta(st, ex) \subseteq Objects
<1>1. \A k \in 1..Len(st.changes) : st.changes[k].entity \in Objects
  BY StoreFields
<1>. QED
  BY <1>1, SessionInType, SessionsAreObjects DEF Delta, ChangedIn

\* An export keeps its parameters and its type from statement to statement.
LEMMA ExportStepType ==
    ASSUME NEW st \in Store, NEW ex \in Export
    PROVE  /\ ExportStep(st, ex) \in Export
           /\ ExportStep(st, ex).after = ex.after
           /\ ExportStep(st, ex).scope = ex.scope
           /\ ExportStep(st, ex).exclude = ex.exclude
<1>1. CurrentCursor(st, ex.scope) \in Nat
  BY CurrentCursorType
<1>2. Delta(st, ex) \subseteq Objects
  BY DeltaProperties
<1>3. \A kind : RowsOf(st, kind, ex.scope) \subseteq Objects
  BY DEF RowsOf, Store
<1>4. \A kind : ex.objs \union RowsOf(st, kind, ex.scope) \subseteq Objects
  BY <1>3 DEF Export
<1>5. CASE ex.stage = "cursor"
  BY <1>1, <1>5 DEF ExportStep, Export, Stages
<1>6. CASE ex.stage = "changes"
  BY <1>2, <1>6 DEF ExportStep, Export, Stages
<1>7. CASE ex.stage = "sessions"
  BY <1>3, <1>7 DEF ExportStep, Export, Stages
<1>8. CASE ex.stage = "messages"
  BY <1>4, <1>8 DEF ExportStep, Export, Stages
<1>9. CASE ex.stage \notin {"cursor", "changes", "sessions", "messages"}
  BY <1>4, <1>9 DEF ExportStep, Export, Stages
<1>. QED
  BY <1>5, <1>6, <1>7, <1>8, <1>9

\* An export begins with the three arguments of its caller.
LEMMA BeginExportType ==
    ASSUME NEW after \in Nat, NEW scope \in Scopes, NEW exclude \in Origins
    PROVE  BeginExport(after, scope, exclude) \in Export
BY DEF BeginExport, Export, Stages

\* An import takes its objects from the bundle.
LEMMA SubsetImport ==
    ASSUME NEW todo, NEW o \in Importable(todo)
    PROVE  o \in todo
BY DEF Importable
=============================================================================
