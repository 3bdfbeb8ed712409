-------------------------- MODULE MiParseTreeProofs --------------------------
(***************************************************************************)
(* Whatever is parsed, whatever callbacks are set, however they nest and   *)
(* whichever allocation fails: everything on the heap of MiParseTree is    *)
(* owned once, and all of it is freed.                                     *)
(*                                                                         *)
(* The heap is a forest: its objects own each other, but for the roots,    *)
(* which the values on the parser's stack and the outputs own, each a root *)
(* of its own.  A semantic action takes the roots of the values it pops    *)
(* and leaves the one of its value; a free function takes a root and all   *)
(* that is under it.                                                       *)
(***************************************************************************)
EXTENDS MiParseTree, MiPushParserProofs, FiniteSetTheorems,
        WellFoundedInduction, TLAPS

\* A set of naturals that is not empty has a least element.
LEMMA LeastOf ==
    ASSUME NEW T \in SUBSET Nat, T # {}
    PROVE  \E i \in T : \A j \in T : i <= j
<1> DEFINE R == OpToRel(<, Nat)
<1>1. IsWellFoundedOn(R, Nat)
  BY NatLessThanWellFounded DEF R
<1>2. \A i, j \in Nat : j < i => <<j, i>> \in R
  BY DEF OpToRel
<1> HIDE DEF R
<1>3. PICK i \in T : \A j \in T : ~ (<<j, i>> \in R)
  BY <1>1, WFMin
<1>4. ASSUME NEW j \in T PROVE i <= j
  <2>1. ~ (j < i)
    BY <1>2, <1>3, Zenon
  <2> QED BY <2>1
<1> QED BY <1>4

\* There is an address left for one more object, and Malloc takes it.
LEMMA RoomLeft ==
    ASSUME NEW S, IsFiniteSet(S)
    PROVE  LET T == (1..(Cardinality(S) + 1)) \ S
           IN Min(T) \in (Nat \ {0}) \ S
<1>1. Cardinality(S) \in Nat
  BY FS_CardinalityType
<1>2. IsFiniteSet(1..(Cardinality(S)+1)) /\ Cardinality(1..(Cardinality(S)+1)) = Cardinality(S)+1
  BY <1>1, FS_Interval
<1> DEFINE T == (1..(Cardinality(S)+1)) \ S
<1>3. T # {}
  <2>1. SUFFICES ASSUME 1..(Cardinality(S)+1) \subseteq S PROVE FALSE
    OBVIOUS
  <2>2. Cardinality(1..(Cardinality(S)+1)) <= Cardinality(S)
    BY <2>1, FS_Subset
  <2> QED BY <1>1, <1>2, <2>2
<1>4. T \subseteq (Nat \ {0}) \ S
  BY <1>1
<1> HIDE DEF T
<1>5. PICK m \in T : \A k \in T : m <= k
  BY <1>3, <1>4, LeastOf
<1>6. Min(T) \in T
  BY <1>5 DEF Min
<1> QED BY <1>4, <1>6 DEF T

HeapFields == {"objects", "left", "failed", "undefined", "crashed"}

\* Malloc either fails and leaves the objects alone, or adds one that is new.
LEMMA MallocFacts ==
    ASSUME NEW h, DOMAIN h = HeapFields, IsFiniteSet(DOMAIN h.objects), NEW o
    PROVE  LET m == Malloc(h, o)
           IN /\ DOMAIN m = {"at", "heap"} /\ DOMAIN m.heap = HeapFields
              /\ m.heap.undefined = h.undefined /\ m.heap.crashed = h.crashed
              /\ m.at = NULL => m.heap.objects = h.objects
              /\ m.at # NULL =>
                 /\ m.at \in Nat \ {0} /\ m.at \notin DOMAIN h.objects
                 /\ DOMAIN m.heap.objects = DOMAIN h.objects \cup {m.at}
                 /\ m.heap.objects[m.at] = o
                 /\ \A q \in DOMAIN h.objects : m.heap.objects[q] = h.objects[q]
<1> DEFINE p == Min((1..(Cardinality(DOMAIN h.objects)+1)) \ DOMAIN h.objects)
           more == [q \in DOMAIN h.objects \cup {p} |->
                     IF q = p THEN o ELSE h.objects[q]]
           left == IF h.left > 0 THEN h.left - 1 ELSE 0
<1>1. p \in Nat \ {0} /\ p \notin DOMAIN h.objects
  BY RoomLeft
<1>2. CASE h.left = 1
  <2> DEFINE g == [h EXCEPT !.left = 0, !.failed = TRUE]
  <2>1. Malloc(h, o) = [at |-> NULL, heap |-> g]
    BY <1>2 DEF Malloc
  <2>2. /\ DOMAIN g = HeapFields
        /\ g.undefined = h.undefined /\ g.crashed = h.crashed
        /\ g.objects = h.objects
    BY DEF HeapFields
  <2> HIDE DEF g
  <2> QED BY <2>1, <2>2
<1>3. CASE h.left # 1
  <2> DEFINE g == [h EXCEPT !.objects = more, !.left = left]
  <2>1. Malloc(h, o) = [at |-> p, heap |-> g]
    BY <1>3 DEF Malloc, HeapFields
  <2>2. /\ DOMAIN more = DOMAIN h.objects \cup {p}
        /\ more[p] = o
        /\ \A q \in DOMAIN h.objects : more[q] = h.objects[q]
    BY <1>1
  <2> HIDE DEF more, left, p
  <2>3. /\ DOMAIN g = HeapFields
        /\ g.undefined = h.undefined /\ g.crashed = h.crashed
        /\ g.objects = more
    BY DEF HeapFields
  <2>4. p # NULL
    BY <1>1 DEF NULL
  <2> HIDE DEF g
  <2> QED BY <1>1, <2>1, <2>2, <2>3, <2>4
<1> QED BY <1>2, <1>3

\* An allocation that is not looked at either crashes or adds an object.
LEMMA StructFacts ==
    ASSUME NEW h, DOMAIN h = HeapFields, IsFiniteSet(DOMAIN h.objects), NEW o
    PROVE  LET m == Struct(h, o)
           IN /\ DOMAIN m = {"at", "heap"} /\ DOMAIN m.heap = HeapFields
              /\ m.heap.undefined = h.undefined
              /\ m.at = NULL => m.heap.crashed
              /\ m.at # NULL =>
                 /\ m.heap.crashed = h.crashed
                 /\ m.at \in Nat \ {0} /\ m.at \notin DOMAIN h.objects
                 /\ DOMAIN m.heap.objects = DOMAIN h.objects \cup {m.at}
                 /\ m.heap.objects[m.at] = o
                 /\ \A q \in DOMAIN h.objects : m.heap.objects[q] = h.objects[q]
<1> DEFINE made == Malloc(h, o)
           m == Struct(h, o)
<1>1. CASE made.at = NULL
  <2>1. /\ DOMAIN made = {"at", "heap"} /\ DOMAIN made.heap = HeapFields
        /\ made.heap.undefined = h.undefined
    BY MallocFacts
  <2>2. m = [made EXCEPT !.heap.crashed = TRUE]
    BY <1>1 DEF Struct
  <2> HIDE DEF made, m
  <2>3. /\ DOMAIN m = {"at", "heap"} /\ m.at = made.at
        /\ m.heap = [made.heap EXCEPT !.crashed = TRUE]
    BY <2>1, <2>2
  <2>4. /\ DOMAIN m.heap = HeapFields /\ m.heap.crashed
        /\ m.heap.undefined = h.undefined
    BY <2>1, <2>3 DEF HeapFields
  <2>5. m.at = NULL
    BY <1>1, <2>3
  <2> QED BY <2>3, <2>4, <2>5 DEF m
<1>2. CASE made.at # NULL
  <2>1. m = made
    BY <1>2 DEF Struct
  <2> HIDE DEF made, m
  <2>2. m = Malloc(h, o)
    BY <2>1 DEF made
  <2> QED BY <1>2, <2>1, <2>2, MallocFacts DEF m
<1> QED BY <1>1, <1>2

\* Free removes the object at p, and is defined when there is one.
LEMMA FreeFacts ==
    ASSUME NEW h, DOMAIN h = HeapFields, NEW p
    PROVE  /\ DOMAIN Free(h, p) = HeapFields
           /\ Free(h, p).crashed = h.crashed
           /\ p = NULL \/ p \in DOMAIN h.objects =>
                 Free(h, p).undefined = h.undefined
           /\ Free(h, p).objects =
                 IF p # NULL /\ p \in DOMAIN h.objects
                 THEN Restrict(h.objects, DOMAIN h.objects \ {p})
                 ELSE h.objects
<1>1. CASE p = NULL
  BY <1>1 DEF Free
<1>2. CASE p # NULL /\ p \in DOMAIN h.objects
  <2> DEFINE left == Restrict(h.objects, DOMAIN h.objects \ {p})
  <2>1. Free(h, p) = [h EXCEPT !.objects = left]
    BY <1>2 DEF Free, HeapFields
  <2> HIDE DEF left
  <2>2. /\ DOMAIN Free(h, p) = HeapFields
        /\ Free(h, p).crashed = h.crashed
        /\ Free(h, p).undefined = h.undefined
        /\ Free(h, p).objects = left
    BY <2>1 DEF HeapFields
  <2> QED BY <1>2, <2>2 DEF left
<1>3. CASE p # NULL /\ p \notin DOMAIN h.objects
  BY <1>3 DEF Free, HeapFields
<1> QED BY <1>1, <1>2, <1>3

-----------------------------------------------------------------------------
(* Forests: what is on the heap, and who owns it.                          *)

Types ==
    {"text", "output", "oob_record", "result_record", "async_record",
     "stream_record", "result", "result_list"}

WellFormed(o) ==
    /\ o.type \in Types
    /\ o.type = "output" =>
          /\ DOMAIN o = {"type", "kind", "variant", "pos", "line", "next"}
          /\ o.kind \in {"OOB", "RESULT", "PROMPT", "PARSE_ERROR"}
          /\ o.kind = "PROMPT" => o.variant = NULL
    /\ o.type = "result" =>
          DOMAIN o = {"type", "variable", "kind", "variant", "next"}
    /\ o.type = "result_list" => DOMAIN o = {"type", "head", "tail"}

\* What the object at p owns: the calls its free function makes.
Of(objects, p) == Frees(objects[p].type, p, objects[p])

\* The objects are well-formed and own each other, but for those at the roots:
\* everything has exactly one owner, of the type its pointer has.
Forest(objects, roots) ==
    /\ IsFiniteSet(DOMAIN objects)
    /\ DOMAIN objects \subseteq Nat \ {0}
    /\ roots \subseteq DOMAIN objects
    /\ \A p \in DOMAIN objects : WellFormed(objects[p])
    /\ \A p \in DOMAIN objects :
          p \in roots \/ \E q \in DOMAIN objects : \E c \in Of(objects, q) : c.at = p
    /\ \A q \in DOMAIN objects : \A c \in Of(objects, q) :
          /\ c.at \in DOMAIN objects \ roots
          /\ objects[c.at].type = c.type
    /\ \A q, r \in DOMAIN objects :
          \A c \in Of(objects, q), d \in Of(objects, r) : c.at = d.at => c = d

\* A free function calls that of another type, never of NULL, on a field of p.
LEMMA FreesFacts ==
    ASSUME NEW type \in Types, NEW p, NEW o, NEW c \in Frees(type, p, o),
           type = "output" =>
              o.kind \in {"OOB", "RESULT", "PROMPT", "PARSE_ERROR"}
    PROVE  /\ c = [type |-> c.type, at |-> c.at, place |-> c.place]
           /\ c.type \in Types \ {"result_list"}
           /\ c.at # NULL
           /\ c.place[1] = p
<1>1. CASE type = "text"
  BY <1>1 DEF Frees
<1>2. CASE type = "output"
  BY <1>2 DEF Frees, OutputFree, Call, Types
<1>3. CASE type = "oob_record"
  BY <1>3 DEF Frees, OobRecordFree, Call, Types
<1>4. CASE type \in {"result_record", "async_record"}
  BY <1>4 DEF Frees, RecordFree, Call, Types
<1>5. CASE type = "stream_record"
  BY <1>5 DEF Frees, StreamRecordFree, Call, Types
<1>6. CASE type = "result"
  BY <1>6 DEF Frees, ResultFree, Call, Types
<1>7. CASE type = "result_list"
  BY <1>7 DEF Frees, Call, Types
<1> QED BY <1>1, <1>2, <1>3, <1>4, <1>5, <1>6, <1>7 DEF Types

\* What owns is told by where its pointer is.
LEMMA OfFacts ==
    ASSUME NEW objects, NEW p \in DOMAIN objects, WellFormed(objects[p]),
           NEW c \in Of(objects, p)
    PROVE  /\ c = [type |-> c.type, at |-> c.at, place |-> c.place]
           /\ c.type \in Types \ {"result_list"}
           /\ c.at # NULL
           /\ c.place[1] = p
BY FreesFacts DEF Of, WellFormed

\* A root goes, and what it owns are roots.
LEMMA RootGoes ==
    ASSUME NEW objects, NEW roots, Forest(objects, roots), NEW p \in roots
    PROVE  LET left == Restrict(objects, DOMAIN objects \ {p})
               owned == {c.at : c \in Of(objects, p)}
           IN /\ Forest(left, (roots \ {p}) \cup owned)
              /\ DOMAIN left = DOMAIN objects \ {p}
              /\ \A q \in DOMAIN left : left[q] = objects[q]
              /\ owned \cap roots = {}
              /\ \A c \in Of(objects, p) :
                    c.at \in DOMAIN left /\ left[c.at].type = c.type
              /\ \A c, d \in Of(objects, p) : c.at = d.at => c = d
<1> DEFINE left == Restrict(objects, DOMAIN objects \ {p})
           owned == {c.at : c \in Of(objects, p)}
           new == (roots \ {p}) \cup owned
<1>1. p \in DOMAIN objects
  BY DEF Forest
<1>2. /\ DOMAIN left = DOMAIN objects \ {p}
      /\ \A q \in DOMAIN left : left[q] = objects[q]
  BY DEF Restrict
<1>3. \A q \in DOMAIN left : Of(left, q) = Of(objects, q)
  BY <1>2 DEF Of
<1> HIDE DEF left
<1>4. IsFiniteSet(DOMAIN left)
  <2>1. DOMAIN left \in SUBSET DOMAIN objects /\ IsFiniteSet(DOMAIN objects)
    BY <1>2 DEF Forest
  <2> QED BY <2>1, FS_Subset
<1>5. \A c \in Of(objects, p) :
         /\ c.at \in DOMAIN left /\ c.at \notin roots
         /\ left[c.at].type = c.type
  BY <1>1, <1>2 DEF Forest
<1>6. new \subseteq DOMAIN left
  BY <1>2, <1>5 DEF Forest
<1>7. ASSUME NEW q \in DOMAIN left
      PROVE  q \in new \/ \E r \in DOMAIN left : \E c \in Of(left, r) : c.at = q
  <2>1. CASE q \in roots
    BY <2>1, <1>2, <1>7
  <2>2. CASE q \notin roots
    <3>1. PICK r \in DOMAIN objects : \E c \in Of(objects, r) : c.at = q
      BY <1>2, <2>2 DEF Forest
    <3>2. CASE r = p
      BY <3>1, <3>2
    <3>3. CASE r # p
      BY <3>1, <3>3, <1>2, <1>3
    <3> QED BY <3>2, <3>3
  <2> QED BY <2>1, <2>2
<1>8. ASSUME NEW q \in DOMAIN left, NEW c \in Of(left, q)
      PROVE  c.at \in DOMAIN left \ new /\ left[c.at].type = c.type
  <2>1. q \in DOMAIN objects /\ c \in Of(objects, q) /\ q # p
    BY <1>2, <1>3
  <2>2. c.at \in DOMAIN objects /\ c.at \notin roots
        /\ objects[c.at].type = c.type
    BY <2>1 DEF Forest
  <2>3. c.at \notin owned
    <3> SUFFICES ASSUME NEW d \in Of(objects, p), d.at = c.at PROVE FALSE
      OBVIOUS
    <3>1. c = d
      BY <1>1, <2>1 DEF Forest
    <3>2. c.place[1] = q /\ d.place[1] = p
      BY <1>1, <2>1, OfFacts DEF Forest
    <3> QED BY <2>1, <3>1, <3>2
  <2> QED BY <1>2, <2>2, <2>3
<1>9. Forest(left, new)
  <2>1. \A q \in DOMAIN left : WellFormed(left[q])
    BY <1>2 DEF Forest
  <2>2. \A q, r \in DOMAIN left : \A c \in Of(left, q), d \in Of(left, r) :
            c.at = d.at => c = d
    BY <1>2, <1>3 DEF Forest
  <2>3. DOMAIN left \subseteq Nat \ {0}
    BY <1>2 DEF Forest
  <2> HIDE DEF new
  <2> QED BY <1>4, <1>6, <1>7, <1>8, <2>1, <2>2, <2>3 DEF Forest
<1>10. \A c, d \in Of(objects, p) : c.at = d.at => c = d
  BY <1>1 DEF Forest
<1> QED BY <1>2, <1>5, <1>9, <1>10 DEF left

\* A new root takes some of the roots.
LEMMA RootComes ==
    ASSUME NEW objects, NEW roots, Forest(objects, roots),
           NEW p \in Nat \ {0}, p \notin DOMAIN objects,
           NEW o, WellFormed(o),
           \A c \in Frees(o.type, p, o) :
              c.at \in roots /\ objects[c.at].type = c.type,
           \A c, d \in Frees(o.type, p, o) : c.at = d.at => c = d,
           NEW more, DOMAIN more = DOMAIN objects \cup {p}, more[p] = o,
           \A q \in DOMAIN objects : more[q] = objects[q]
    PROVE  Forest(more, (roots \ {c.at : c \in Frees(o.type, p, o)}) \cup {p})
<1> DEFINE taken == {c.at : c \in Frees(o.type, p, o)}
           new == (roots \ taken) \cup {p}
<1>1. /\ \A q \in DOMAIN objects : Of(more, q) = Of(objects, q)
      /\ Of(more, p) = Frees(o.type, p, o)
  BY DEF Of
<1>2. IsFiniteSet(DOMAIN more)
  BY FS_AddElement DEF Forest
<1>3. roots \subseteq DOMAIN objects /\ p \notin roots
  BY DEF Forest
<1>4. new \subseteq DOMAIN more
  BY <1>3
<1>5. ASSUME NEW q \in DOMAIN more
      PROVE  q \in new \/ \E r \in DOMAIN more : \E c \in Of(more, r) : c.at = q
  <2>1. CASE q = p \/ q \in roots \ taken
    BY <2>1
  <2>2. CASE q \in taken
    BY <2>2, <1>1
  <2>3. CASE q \in DOMAIN objects \ roots
    BY <2>3, <1>1 DEF Forest
  <2> QED BY <2>1, <2>2, <2>3
<1>6. ASSUME NEW q \in DOMAIN more, NEW c \in Of(more, q)
      PROVE  c.at \in DOMAIN more \ new /\ more[c.at].type = c.type
  <2>1. CASE q = p
    <3>1. c \in Frees(o.type, p, o)
      BY <2>1, <1>1
    <3> QED BY <3>1, <1>3
  <2>2. CASE q # p
    <3>1. q \in DOMAIN objects /\ c \in Of(objects, q)
      BY <2>2, <1>1
    <3>2. c.at \in DOMAIN objects \ roots /\ objects[c.at].type = c.type
      BY <3>1 DEF Forest
    <3> QED BY <3>2
  <2> QED BY <2>1, <2>2
<1>7. ASSUME NEW q \in DOMAIN more, NEW r \in DOMAIN more,
             NEW c \in Of(more, q), NEW d \in Of(more, r), c.at = d.at
      PROVE  c = d
  <2>1. CASE q = p /\ r = p
    BY <2>1, <1>1, <1>7
  <2>2. CASE q = p /\ r # p
    <3>1. c.at \in roots
      BY <2>2, <1>1
    <3>2. d.at \notin roots
      BY <2>2, <1>1 DEF Forest
    <3> QED BY <3>1, <3>2, <1>7
  <2>3. CASE q # p /\ r = p
    <3>1. d.at \in roots
      BY <2>3, <1>1
    <3>2. c.at \notin roots
      BY <2>3, <1>1 DEF Forest
    <3> QED BY <3>1, <3>2, <1>7
  <2>4. CASE q # p /\ r # p
    BY <2>4, <1>1, <1>7 DEF Forest
  <2> QED BY <2>1, <2>2, <2>3, <2>4
<1>8. \A q \in DOMAIN more : WellFormed(more[q])
  BY DEF Forest
<1>9. DOMAIN more \subseteq Nat \ {0}
  BY DEF Forest
<1> HIDE DEF new
<1> QED BY <1>2, <1>4, <1>5, <1>6, <1>7, <1>8, <1>9 DEF Forest, new

\* An object takes a root into a field that was NULL.
LEMMA RootIsTaken ==
    ASSUME NEW objects, NEW roots, Forest(objects, roots),
           NEW q \in DOMAIN objects,
           NEW a, a.at \in roots, objects[a.at].type = a.type,
           NEW more, DOMAIN more = DOMAIN objects,
           Of(more, q) = Of(objects, q) \cup {a},
           \A r \in DOMAIN objects \ {q} : Of(more, r) = Of(objects, r),
           \A r \in DOMAIN objects :
              WellFormed(more[r]) /\ more[r].type = objects[r].type
    PROVE  Forest(more, roots \ {a.at})
<1> DEFINE new == roots \ {a.at}
<1>3. IsFiniteSet(DOMAIN more) /\ DOMAIN more \subseteq Nat \ {0}
      /\ new \subseteq DOMAIN more
      /\ \A r \in DOMAIN more : WellFormed(more[r])
  BY DEF Forest
<1>4. ASSUME NEW r \in DOMAIN more
      PROVE  r \in new \/ \E s \in DOMAIN more : \E c \in Of(more, s) : c.at = r
  <2>1. CASE r \in new
    BY <2>1
  <2>2. CASE r = a.at
    BY <2>2
  <2>3. CASE r \notin roots
    <3>1. PICK s \in DOMAIN objects : \E c \in Of(objects, s) : c.at = r
      BY <2>3 DEF Forest
    <3> QED BY <3>1
  <2> QED BY <2>1, <2>2, <2>3
<1>5. ASSUME NEW r \in DOMAIN more, NEW c \in Of(more, r)
      PROVE  c \in Of(objects, r) \/ (r = q /\ c = a)
  OBVIOUS
<1>6. ASSUME NEW r \in DOMAIN more, NEW c \in Of(more, r)
      PROVE  c.at \in DOMAIN more \ new /\ more[c.at].type = c.type
  <2>1. CASE c \in Of(objects, r)
    BY <2>1 DEF Forest
  <2>2. CASE c = a
    BY <2>2 DEF Forest
  <2> QED BY <1>5, <1>6, <2>1, <2>2
<1>7. ASSUME NEW r \in DOMAIN more, NEW s \in DOMAIN more,
             NEW c \in Of(more, r), NEW d \in Of(more, s), c.at = d.at
      PROVE  c = d
  <2>1. c \in Of(objects, r) => c.at \notin roots
    BY DEF Forest
  <2>2. d \in Of(objects, s) => d.at \notin roots
    BY DEF Forest
  <2>3. CASE c \in Of(objects, r) /\ d \in Of(objects, s)
    BY <2>3, <1>7 DEF Forest
  <2> QED BY <1>5, <1>7, <2>1, <2>2, <2>3
<1> HIDE DEF new
<1> QED BY <1>3, <1>4, <1>6, <1>7 DEF Forest, new

-----------------------------------------------------------------------------
(* Lists: the tail of a list is reached from it, and from no other list.   *)

\* S holds the end of the list L, and what owns anything in it but L.
Reaches(objects, L, S) ==
    /\ S \subseteq DOMAIN objects
    /\ objects[L].tail \in S
    /\ \A q \in S \ {L} : \E r \in S : \E c \in Of(objects, r) : c.at = q

ListsOf(objects) == {p \in DOMAIN objects : objects[p].type = "result_list"}

Tailed(objects, L) ==
    LET tail == objects[L].tail
    IN /\ tail = L => objects[L].head = NULL
       /\ tail # L => objects[tail].type = "result" /\ objects[tail].next = NULL
       /\ \E S : Reaches(objects, L, S)

Lists(objects) ==
    /\ \A L \in ListsOf(objects) : Tailed(objects, L)
    /\ \A L, M \in ListsOf(objects) : objects[L].tail = objects[M].tail => L = M

\* Nothing is owned in a circle: of any objects one is a root, or is owned by
\* another object.
Rooted(objects, roots) ==
    \A T \in SUBSET DOMAIN objects :
        T # {} => \E q \in T :
                     \/ q \in roots
                     \/ \E r \in DOMAIN objects \ T :
                           \E c \in Of(objects, r) : c.at = q

\* What is on the heap, between any two steps of a semantic action.
Sound(objects, roots) ==
    Forest(objects, roots) /\ Rooted(objects, roots) /\ Lists(objects)

\* A root outside of S is taken by something in S: what is in S is reached
\* from the root L.
LEMMA RootedIsTaken ==
    ASSUME NEW objects, NEW roots, Forest(objects, roots), Rooted(objects, roots),
           NEW a, NEW S \in SUBSET DOMAIN objects, a.at \notin S,
           NEW q \in S, NEW L \in roots,
           \A x \in S \ {L} : \E r \in S : \E c \in Of(objects, r) : c.at = x,
           NEW more, DOMAIN more = DOMAIN objects,
           a \in Of(more, q),
           \A r \in DOMAIN objects : Of(objects, r) \subseteq Of(more, r)
    PROVE  Rooted(more, roots \ {a.at})
<1> SUFFICES ASSUME NEW T \in SUBSET DOMAIN objects, T # {}
             PROVE  \E x \in T :
                       \/ x \in roots \ {a.at}
                       \/ \E r \in DOMAIN objects \ T :
                             \E c \in Of(more, r) : c.at = x
  BY DEF Rooted
<1>1. CASE q \notin T
  <2>1. PICK x \in T : \/ x \in roots
                      \/ \E r \in DOMAIN objects \ T :
                            \E c \in Of(objects, r) : c.at = x
    BY DEF Rooted
  <2>2. CASE x = a.at
    BY <1>1, <2>2
  <2>3. CASE x # a.at
    BY <2>1, <2>3
  <2> QED BY <2>2, <2>3
<1>2. CASE q \in T
  <2>1. PICK x \in T \cap S :
           \/ x \in roots
           \/ \E r \in DOMAIN objects \ (T \cap S) :
                 \E c \in Of(objects, r) : c.at = x
    BY <1>2 DEF Rooted
  <2>2. CASE x \in roots
    BY <2>1, <2>2
  <2>3. CASE x \notin roots
    <3>1. PICK r \in DOMAIN objects \ (T \cap S) :
             \E c \in Of(objects, r) : c.at = x
      BY <2>1, <2>3
    <3>2. PICK c \in Of(objects, r) : c.at = x
      BY <3>1
    <3>3. PICK s \in S : \E d \in Of(objects, s) : d.at = x
      BY <2>1, <2>3
    <3>4. PICK d \in Of(objects, s) : d.at = x
      BY <3>3
    <3>5. c = d
      BY <3>2, <3>4 DEF Forest
    <3>6. c.place[1] = r /\ d.place[1] = s
      BY OfFacts DEF Forest
    <3>7. r \notin T
      BY <3>1, <3>3, <3>5, <3>6
    <3> QED BY <2>1, <3>2, <3>7
  <2> QED BY <2>2, <2>3
<1> QED BY <1>1, <1>2

\* The tail of a list is on the heap, and a root only if it is the list itself.
LEMMA TailFacts ==
    ASSUME NEW objects, NEW roots, Sound(objects, roots), NEW L \in ListsOf(objects)
    PROVE  /\ objects[L].tail \in DOMAIN objects
           /\ objects[L].tail # L => objects[L].tail \notin roots
<1>1. PICK S : Reaches(objects, L, S)
  BY DEF Sound, Lists, Tailed
<1> QED BY <1>1 DEF Reaches, Sound, Forest

\* A root is freed: what it owned are roots then.
LEMMA SoundRootGoes ==
    ASSUME NEW objects, NEW roots, Sound(objects, roots), NEW p \in roots
    PROVE  LET left == Restrict(objects, DOMAIN objects \ {p})
               owned == {c.at : c \in Of(objects, p)}
           IN Sound(left, (roots \ {p}) \cup owned)
<1> DEFINE left == Restrict(objects, DOMAIN objects \ {p})
           owned == {c.at : c \in Of(objects, p)}
<1>1. /\ Forest(left, (roots \ {p}) \cup owned)
      /\ DOMAIN left = DOMAIN objects \ {p}
      /\ \A q \in DOMAIN left : left[q] = objects[q]
  BY RootGoes DEF Sound
<1> HIDE DEF left, owned
<1>2. \A q \in DOMAIN left : Of(left, q) = Of(objects, q)
  BY <1>1 DEF Of
<1>3. ListsOf(left) \subseteq ListsOf(objects)
  BY <1>1 DEF ListsOf
<1>4. ASSUME NEW L \in ListsOf(left)
      PROVE  Tailed(left, L)
  <2>1. Tailed(objects, L) /\ L # p /\ L \in DOMAIN left
    BY <1>1, <1>3 DEF Sound, Lists, ListsOf
  <2>2. PICK S : Reaches(objects, L, S)
    BY <2>1 DEF Tailed
  <2>3. p \notin S
    BY <2>1, <2>2 DEF Reaches, Sound, Forest
  <2>4. Reaches(left, L, S)
    BY <1>1, <1>2, <2>1, <2>2, <2>3 DEF Reaches
  <2>5. objects[L].tail \in DOMAIN left
    BY <1>1, <2>2, <2>3 DEF Reaches
  <2> QED BY <1>1, <2>1, <2>4, <2>5 DEF Tailed
<1>5. Lists(left)
  BY <1>1, <1>3, <1>4 DEF Lists, Sound, ListsOf
<1>6. Rooted(left, (roots \ {p}) \cup owned)
  <2> SUFFICES ASSUME NEW T \in SUBSET DOMAIN left, T # {}
               PROVE  \E q \in T :
                         \/ q \in (roots \ {p}) \cup owned
                         \/ \E r \in DOMAIN left \ T :
                               \E c \in Of(left, r) : c.at = q
    BY DEF Rooted
  <2>1. PICK q \in T : \/ q \in roots
                      \/ \E r \in DOMAIN objects \ T :
                            \E c \in Of(objects, r) : c.at = q
    BY <1>1 DEF Sound, Rooted
  <2>2. q \in DOMAIN left /\ q # p
    BY <1>1
  <2>3. CASE q \in roots
    BY <2>2, <2>3
  <2>4. ASSUME NEW r \in DOMAIN objects \ T, NEW c \in Of(objects, r), c.at = q
        PROVE  q \in owned
               \/ (r \in DOMAIN left \ T /\ c \in Of(left, r))
    <3>1. CASE r = p
      BY <2>4, <3>1 DEF owned
    <3>2. CASE r # p
      BY <1>1, <1>2, <2>4, <3>2
    <3> QED BY <3>1, <3>2
  <2> QED BY <2>1, <2>3, <2>4
<1> QED BY <1>1, <1>5, <1>6 DEF Sound, left, owned

\* An object is allocated: it is a root, and what it owns no longer is.
LEMMA SoundRootComes ==
    ASSUME NEW objects, NEW roots, Sound(objects, roots),
           NEW p \in Nat \ {0}, p \notin DOMAIN objects,
           NEW o, WellFormed(o),
           \A c \in Frees(o.type, p, o) :
              c.at \in roots /\ objects[c.at].type = c.type,
           \A c, d \in Frees(o.type, p, o) : c.at = d.at => c = d,
           o.type = "result_list" => o.tail = p /\ o.head = NULL,
           NEW more, DOMAIN more = DOMAIN objects \cup {p}, more[p] = o,
           \A q \in DOMAIN objects : more[q] = objects[q]
    PROVE  Sound(more, (roots \ {c.at : c \in Frees(o.type, p, o)}) \cup {p})
<1>1. Forest(more, (roots \ {c.at : c \in Frees(o.type, p, o)}) \cup {p})
  BY RootComes DEF Sound
<1>2. \A q \in DOMAIN objects : Of(more, q) = Of(objects, q)
  BY DEF Of
<1>3. ASSUME NEW L \in ListsOf(more)
      PROVE  Tailed(more, L) /\ (L # p => more[L].tail \in DOMAIN objects)
  <2>1. CASE L = p
    <3>1. more[L].tail = L /\ more[L].head = NULL
      BY <2>1 DEF ListsOf
    <3>2. Reaches(more, L, {p})
      BY <2>1, <3>1 DEF Reaches
    <3> QED BY <2>1, <3>1, <3>2 DEF Tailed
  <2>2. CASE L # p
    <3>1. L \in ListsOf(objects) /\ L \in DOMAIN objects
      BY <2>2 DEF ListsOf
    <3>2. Tailed(objects, L)
      BY <3>1 DEF Sound, Lists
    <3>3. PICK S : Reaches(objects, L, S)
      BY <3>2 DEF Tailed
    <3>4. Reaches(more, L, S)
      BY <1>2, <3>1, <3>3 DEF Reaches
    <3>5. objects[L].tail \in DOMAIN objects
      BY <3>3 DEF Reaches
    <3> QED BY <3>1, <3>2, <3>4, <3>5 DEF Tailed
  <2> QED BY <2>1, <2>2
<1>4. ASSUME NEW L \in ListsOf(more), NEW M \in ListsOf(more),
             more[L].tail = more[M].tail
      PROVE  L = M
  <2>1. L = p => more[L].tail = p
    BY DEF ListsOf
  <2>2. M = p => more[M].tail = p
    BY DEF ListsOf
  <2>3. CASE L # p /\ M # p
    <3>1. L \in ListsOf(objects) /\ M \in ListsOf(objects)
      BY <2>3 DEF ListsOf
    <3>2. objects[L].tail = objects[M].tail
      BY <1>4, <3>1 DEF ListsOf
    <3> QED BY <3>1, <3>2 DEF Sound, Lists
  <2> QED BY <1>3, <1>4, <2>1, <2>2, <2>3
<1>5. Rooted(more, (roots \ {c.at : c \in Frees(o.type, p, o)}) \cup {p})
  <2> DEFINE new == (roots \ {c.at : c \in Frees(o.type, p, o)}) \cup {p}
  <2> SUFFICES ASSUME NEW T \in SUBSET DOMAIN more, T # {}
               PROVE  \E q \in T :
                         \/ q \in new
                         \/ \E r \in DOMAIN more \ T :
                               \E c \in Of(more, r) : c.at = q
    BY DEF Rooted
  <2>1. CASE p \in T
    BY <2>1
  <2>2. CASE p \notin T
    <3>1. Of(more, p) = Frees(o.type, p, o)
      BY DEF Of
    <3>2. PICK q \in T : \/ q \in roots
                        \/ \E r \in DOMAIN objects \ T :
                              \E c \in Of(objects, r) : c.at = q
      BY <2>2 DEF Sound, Rooted
    <3>3. CASE q \in roots
      <4>1. q \in new \/ \E c \in Frees(o.type, p, o) : c.at = q
        BY <3>3
      <4> HIDE DEF new
      <4> QED BY <2>2, <3>1, <4>1
    <3>4. CASE \E r \in DOMAIN objects \ T : \E c \in Of(objects, r) : c.at = q
      <4> HIDE DEF new
      <4> QED BY <1>2, <2>2, <3>4
    <3> QED BY <3>2, <3>3, <3>4
  <2> QED BY <2>1, <2>2
<1> QED BY <1>1, <1>3, <1>4, <1>5 DEF Sound, Lists

\* A root that is no list and no result takes another root.
LEMMA SoundRootIsTaken ==
    ASSUME NEW objects, NEW roots, Sound(objects, roots),
           NEW q \in roots,
           objects[q].type \notin {"result", "result_list"},
           NEW a, a.at \in roots \ {q}, objects[a.at].type = a.type,
           NEW more, DOMAIN more = DOMAIN objects,
           WellFormed(more[q]), more[q].type = objects[q].type,
           Of(more, q) = Of(objects, q) \cup {a},
           \A r \in DOMAIN objects \ {q} : more[r] = objects[r]
    PROVE  Sound(more, roots \ {a.at})
<1>0. q \in DOMAIN objects
  BY DEF Sound, Forest
<1>1. \A r \in DOMAIN objects \ {q} : Of(more, r) = Of(objects, r)
  BY DEF Of
<1>2. \A r \in DOMAIN objects :
         WellFormed(more[r]) /\ more[r].type = objects[r].type
  BY DEF Sound, Forest
<1>3. Forest(more, roots \ {a.at})
  BY <1>0, <1>1, <1>2, RootIsTaken DEF Sound
<1>6. Rooted(more, roots \ {a.at})
  <2>1. a \in Of(more, q)
        /\ \A r \in DOMAIN objects : Of(objects, r) \subseteq Of(more, r)
    BY <1>1
  <2> DEFINE S == {q}
  <2>2. /\ S \in SUBSET DOMAIN objects /\ a.at \notin S /\ q \in S
        /\ \A x \in S \ {q} : \E r \in S : \E c \in Of(objects, r) : c.at = x
    BY <1>0
  <2> HIDE DEF S
  <2> QED BY <2>1, <2>2, RootedIsTaken DEF Sound
<1>4. \A L \in ListsOf(more) : L \in ListsOf(objects) /\ more[L] = objects[L]
  BY <1>2 DEF ListsOf
<1>5. ASSUME NEW L \in ListsOf(more)
      PROVE  Tailed(more, L)
  <2>1. Tailed(objects, L) /\ more[L] = objects[L]
    BY <1>4 DEF Sound, Lists
  <2>2. PICK S : Reaches(objects, L, S)
    BY <2>1 DEF Tailed
  <2>3. Reaches(more, L, S)
    BY <1>1, <2>1, <2>2 DEF Reaches
  <2>4. objects[L].tail \in DOMAIN objects
    BY <2>2 DEF Reaches
  <2> QED BY <2>1, <2>3, <2>4 DEF Tailed
<1> QED BY <1>3, <1>4, <1>5, <1>6 DEF Sound, Lists

\* The heap g is h with the result at the end of the list.
Pushed(h, g, roots, list, result) ==
    /\ DOMAIN g = HeapFields
    /\ g.undefined = h.undefined /\ g.crashed = h.crashed
    /\ Sound(g.objects, roots \ {result})
    /\ \A q \in roots \ {list} : g.objects[q] = h.objects[q]
    /\ g.objects[list].type = "result_list"

\* gdbwire_mi_result_list_push_back moves a result from the roots to the list.
LEMMA PushBackIsSound ==
    ASSUME NEW h, DOMAIN h = HeapFields, NEW roots, Sound(h.objects, roots),
           NEW list \in roots, h.objects[list].type = "result_list",
           NEW result \in roots, h.objects[result].type = "result",
           h.objects[result].next = NULL
    PROVE  Pushed(h, PushBack(h, list, result), roots, list, result)
<1> DEFINE objects == h.objects
           tail == objects[list].tail
           at == IF tail = list THEN [objects[list] EXCEPT !.head = result]
                 ELSE [objects[tail] EXCEPT !.next = result]
           linked == [objects EXCEPT ![tail] = at]
           more == [linked EXCEPT ![list] = [linked[list] EXCEPT !.tail = result]]
           g == PushBack(h, list, result)
           o == more[list]
<1>1. /\ list \in ListsOf(objects) /\ list \in DOMAIN objects
      /\ result \in DOMAIN objects /\ result # list /\ result # NULL
      /\ tail \in DOMAIN objects /\ result # tail
      /\ tail # list => tail \notin roots
  <2>1. list \in DOMAIN objects /\ result \in DOMAIN objects /\ result # list
    BY DEF Sound, Forest
  <2>2. list \in ListsOf(objects)
    BY <2>1 DEF ListsOf
  <2>3. tail \in DOMAIN objects /\ (tail # list => tail \notin roots)
    BY <2>2, TailFacts
  <2>4. result # NULL
    BY <2>1 DEF Sound, Forest, NULL
  <2> QED BY <2>1, <2>2, <2>3, <2>4
<1>2. g = [h EXCEPT !.objects = more]
  BY <1>1 DEF PushBack
<1>3. /\ DOMAIN g = HeapFields
      /\ g.undefined = h.undefined /\ g.crashed = h.crashed
      /\ g.objects = more
  <2> HIDE DEF more, g
  <2> QED BY <1>2 DEF HeapFields
<1>4. PICK S : Reaches(objects, list, S)
  BY <1>1 DEF Sound, Lists, Tailed
<1>5. /\ tail = list => objects[list].head = NULL
      /\ tail # list => objects[tail].type = "result" /\ objects[tail].next = NULL
  BY <1>1 DEF Sound, Lists, Tailed
<1>6. /\ DOMAIN objects[list] = {"type", "head", "tail"}
      /\ tail # list =>
           DOMAIN objects[tail] = {"type", "variable", "kind", "variant", "next"}
  BY <1>1, <1>5 DEF Sound, Forest, WellFormed
<1>7. /\ DOMAIN more = DOMAIN objects
      /\ \A q \in DOMAIN objects \ {list, tail} : more[q] = objects[q]
      /\ tail # list => more[tail] = [objects[tail] EXCEPT !.next = result]
      /\ more[list] = [linked[list] EXCEPT !.tail = result]
      /\ tail = list => linked[list] = [objects[list] EXCEPT !.head = result]
      /\ tail # list => linked[list] = objects[list]
  BY <1>1
<1>8. /\ DOMAIN o = {"type", "head", "tail"} /\ o.type = "result_list"
      /\ o.tail = result
      /\ o.head = IF tail = list THEN result ELSE objects[list].head
  <2> HIDE DEF more, linked
  <2> QED BY <1>6, <1>7
<1> DEFINE t == more[tail]
<1>9. tail # list =>
        /\ DOMAIN t = {"type", "variable", "kind", "variant", "next"}
        /\ t.type = "result" /\ t.next = result
        /\ t.variable = objects[tail].variable /\ t.kind = objects[tail].kind
        /\ t.variant = objects[tail].variant
  <2> HIDE DEF more, linked
  <2> QED BY <1>5, <1>6, <1>7
<1> HIDE DEF more, linked, g
<1> DEFINE a == [type |-> "result", at |-> result,
                 place |-> <<tail, IF tail = list THEN "head" ELSE "next">>]
<1>10. Of(more, tail) = Of(objects, tail) \cup {a}
  <2>1. CASE tail = list
    <3>1. Of(more, list) = Call("result", result, <<list, "head">>)
      BY <1>8, <2>1 DEF Of, Frees
    <3>2. Of(objects, list) = Call("result", NULL, <<list, "head">>)
      BY <1>5, <2>1 DEF Of, Frees
    <3> QED BY <1>1, <2>1, <3>1, <3>2 DEF Call
  <2>2. CASE tail # list
    <3> DEFINE rest == Call("text", objects[tail].variable, <<tail, "variable">>)
                       \cup Call(IF objects[tail].kind = "CSTRING" THEN "text"
                                 ELSE "result",
                                 objects[tail].variant, <<tail, "variant">>)
    <3>1. Of(more, tail) = rest \cup Call("result", result, <<tail, "next">>)
      BY <1>9, <2>2 DEF Of, Frees, ResultFree
    <3>2. Of(objects, tail) = rest \cup Call("result", NULL, <<tail, "next">>)
      BY <1>5, <2>2 DEF Of, Frees, ResultFree
    <3> HIDE DEF rest
    <3> QED BY <1>1, <2>2, <3>1, <3>2 DEF Call
  <2> QED BY <2>1, <2>2
<1>11. tail # list => Of(more, list) = Of(objects, list)
  BY <1>8 DEF Of, Frees
<1>12. \A q \in DOMAIN objects \ {tail} : Of(more, q) = Of(objects, q)
  BY <1>7, <1>11 DEF Of
<1>13. \A q \in DOMAIN objects :
          WellFormed(more[q]) /\ more[q].type = objects[q].type
  <2>1. CASE tail = list
    BY <1>7, <1>8, <2>1 DEF Sound, Forest, WellFormed
  <2>2. CASE tail # list
    BY <1>5, <1>7, <1>8, <1>9, <2>2 DEF Sound, Forest, WellFormed
  <2> QED BY <2>1, <2>2
<1>14. Forest(more, roots \ {result})
  <2>1. a.at = result /\ a.type = "result"
    OBVIOUS
  <2>2. Forest(objects, roots)
    BY DEF Sound
  <2>3. objects[a.at].type = a.type /\ a.at \in roots
    BY <2>1
  <2> HIDE DEF a, objects, tail
  <2>4. Forest(more, roots \ {a.at})
    BY <1>1, <1>7, <1>10, <1>12, <1>13, <2>2, <2>3, RootIsTaken
  <2> QED BY <2>1, <2>4
<1>15. Tailed(more, list)
  <2>1. Reaches(more, list, S \cup {result})
    <3>1. S \subseteq DOMAIN objects /\ tail \in S
      BY <1>4 DEF Reaches
    <3>2. \E c \in Of(more, tail) : c.at = result
      <4>1. a \in Of(more, tail) /\ a.at = result
        BY <1>10
      <4> HIDE DEF a
      <4> QED BY <4>1
    <3>3. \A q \in S \ {list} : \E r \in S : \E c \in Of(more, r) : c.at = q
      <4> HIDE DEF a
      <4> QED BY <1>4, <1>10, <1>12, <3>1 DEF Reaches
    <3> QED BY <1>1, <1>7, <1>8, <3>1, <3>2, <3>3 DEF Reaches
  <2>2. more[result] = objects[result]
    BY <1>1, <1>7
  <2> QED BY <1>1, <1>8, <2>1, <2>2 DEF Tailed
<1>16. ASSUME NEW L \in ListsOf(more), L # list
       PROVE  /\ Tailed(more, L)
              /\ L \in ListsOf(objects)
              /\ more[L] = objects[L]
              /\ objects[L].tail # result
  <2>1. L \in ListsOf(objects) /\ L \in DOMAIN objects
    BY <1>7, <1>13 DEF ListsOf
  <2>2. L # tail /\ more[L] = objects[L]
    BY <1>5, <1>7, <1>16, <2>1 DEF ListsOf
  <2>3. /\ objects[L].tail # tail /\ objects[L].tail \in DOMAIN objects
        /\ objects[L].tail # result
    <3>1. objects[L].tail # tail
      BY <1>1, <1>16, <2>1 DEF Sound, Lists
    <3>2. objects[L].tail \in DOMAIN objects
          /\ (objects[L].tail # L => objects[L].tail \notin roots)
      BY <2>1, TailFacts
    <3>3. L # result
      BY <2>1 DEF ListsOf
    <3> QED BY <3>1, <3>2, <3>3
  <2>4. Tailed(objects, L)
    BY <2>1 DEF Sound, Lists
  <2>5. objects[L].tail # list
    BY <1>1, <1>16, <2>4 DEF Tailed, ListsOf
  <2>6. more[objects[L].tail] = objects[objects[L].tail]
    BY <1>7, <2>3, <2>5
  <2>7. PICK T : Reaches(objects, L, T)
    BY <2>4 DEF Tailed
  <2>8. Reaches(more, L, T)
    <3>1. \A q \in T \ {L} : \E r \in T : \E c \in Of(more, r) : c.at = q
      BY <1>10, <1>12, <2>7 DEF Reaches
    <3> QED BY <1>7, <2>2, <2>7, <3>1 DEF Reaches
  <2>9. Tailed(more, L)
    BY <2>2, <2>4, <2>6, <2>8 DEF Tailed
  <2> QED BY <2>1, <2>2, <2>3, <2>9
<1>17. Lists(more)
  <2>1. ASSUME NEW L \in ListsOf(more), NEW M \in ListsOf(more),
               more[L].tail = more[M].tail
        PROVE  L = M
    <3>1. CASE L = list /\ M # list
      BY <1>8, <1>16, <2>1, <3>1
    <3>2. CASE L # list /\ M = list
      BY <1>8, <1>16, <2>1, <3>2
    <3>3. CASE L # list /\ M # list
      <4>1. /\ L \in ListsOf(objects) /\ M \in ListsOf(objects)
            /\ objects[L].tail = objects[M].tail
        BY <1>16, <2>1, <3>3
      <4> QED BY <4>1 DEF Sound, Lists
    <3> QED BY <3>1, <3>2, <3>3
  <2> QED BY <1>15, <1>16, <2>1 DEF Lists
<1>18. \A q \in roots \ {list} : g.objects[q] = h.objects[q]
  BY <1>1, <1>3, <1>7 DEF Sound, Forest
<1>19. Rooted(more, roots \ {result})
  <2>1. a \in Of(more, tail) /\ a.at = result
    BY <1>10
  <2>2. \A r \in DOMAIN objects : Of(objects, r) \subseteq Of(more, r)
    BY <1>10, <1>12
  <2>3. /\ S \in SUBSET DOMAIN objects /\ tail \in S
        /\ \A x \in S \ {list} : \E r \in S : \E c \in Of(objects, r) : c.at = x
    BY <1>4 DEF Reaches
  <2>4. result \notin S
    BY <1>1, <2>3 DEF Sound, Forest
  <2> HIDE DEF a
  <2>5. Rooted(more, roots \ {a.at})
    BY <1>7, <2>1, <2>2, <2>3, <2>4, RootedIsTaken DEF Sound
  <2> QED BY <2>1, <2>5
<1> QED BY <1>3, <1>8, <1>14, <1>17, <1>18, <1>19 DEF Sound, Pushed, g

-----------------------------------------------------------------------------
(* The recursive free functions.                                           *)

\* The calls to be made are of the types of the roots they free, and each
\* root is freed once; the other roots are kept.
Freeing(objects, keep, todo) ==
    /\ Sound(objects, keep \cup {c.at : c \in todo})
    /\ \A c \in todo : c.at \notin keep /\ objects[c.at].type = c.type
    /\ \A c, d \in todo : c.at = d.at => c = d

\* One call of a free function frees one object, of those not to be kept.
LEMMA FreeOneIsSound ==
    ASSUME NEW s, DOMAIN s = {"objects", "todo", "undefined"}, NEW keep,
           Freeing(s.objects, keep, s.todo), s.todo # {}
    PROVE  LET t == FreeOne(s)
           IN /\ DOMAIN t = {"objects", "todo", "undefined"}
              /\ t.undefined = s.undefined
              /\ Freeing(t.objects, keep, t.todo)
              /\ Cardinality(DOMAIN t.objects) = Cardinality(DOMAIN s.objects) - 1
              /\ \A q \in keep : t.objects[q] = s.objects[q]
<1> DEFINE call == CHOOSE c \in s.todo : TRUE
           rest == s.todo \ {call}
           p == call.at
           roots == keep \cup {c.at : c \in s.todo}
           left == Restrict(s.objects, DOMAIN s.objects \ {p})
           owned == {c.at : c \in Of(s.objects, p)}
           more == rest \cup Of(s.objects, p)
           t == FreeOne(s)
<1>1. call \in s.todo
  OBVIOUS
<1> HIDE DEF call
<1>2. p \in roots /\ p \in DOMAIN s.objects
  BY <1>1 DEF Freeing, Sound, Forest
<1>3. Frees(call.type, p, s.objects[p]) = Of(s.objects, p)
  BY <1>1 DEF Of, Freeing
<1>4. t = [s EXCEPT !.todo = more, !.objects = left]
  BY <1>2, <1>3 DEF FreeOne, call
<1>5. /\ DOMAIN t = {"objects", "todo", "undefined"}
      /\ t.undefined = s.undefined /\ t.objects = left /\ t.todo = more
  <2> HIDE DEF t, more, left
  <2> QED BY <1>4
<1>6. /\ Sound(left, (roots \ {p}) \cup owned)
      /\ DOMAIN left = DOMAIN s.objects \ {p}
      /\ \A q \in DOMAIN left : left[q] = s.objects[q]
      /\ owned \cap roots = {}
      /\ \A c \in Of(s.objects, p) :
            c.at \in DOMAIN left /\ left[c.at].type = c.type
      /\ \A c, d \in Of(s.objects, p) : c.at = d.at => c = d
  <2> HIDE DEF roots, p
  <2>1. Sound(s.objects, roots)
    BY DEF Freeing, roots
  <2> QED BY <1>2, <2>1, RootGoes, SoundRootGoes DEF Sound
<1> HIDE DEF left, t
<1>7. (roots \ {p}) \cup owned = keep \cup {c.at : c \in more}
  <2>1. roots \ {p} = keep \cup {c.at : c \in rest}
    BY <1>1 DEF Freeing
  <2>2. {c.at : c \in more} = {c.at : c \in rest} \cup owned
    OBVIOUS
  <2> HIDE DEF roots, owned, more, rest
  <2> QED BY <2>1, <2>2
<1>8. \A c \in more : c.at \notin keep /\ left[c.at].type = c.type
  <2>1. ASSUME NEW c \in rest
        PROVE  c.at \notin keep /\ left[c.at].type = c.type
    <3>1. c.at \notin keep /\ s.objects[c.at].type = c.type /\ c.at # p
      BY <1>1 DEF Freeing
    <3>2. c.at \in DOMAIN s.objects
      BY DEF Freeing, Sound, Forest
    <3> QED BY <1>6, <3>1, <3>2
  <2>2. ASSUME NEW c \in Of(s.objects, p)
        PROVE  c.at \notin keep /\ left[c.at].type = c.type
    BY <1>6
  <2> QED BY <2>1, <2>2
<1>9. \A c, d \in more : c.at = d.at => c = d
  <2>1. \A c, d \in rest : c.at = d.at => c = d
    BY DEF Freeing
  <2>2. \A c \in rest, d \in Of(s.objects, p) : c.at # d.at
    BY <1>6
  <2> QED BY <1>6, <2>1, <2>2
<1>10. Freeing(left, keep, more)
  <2> HIDE DEF more, roots, owned, p
  <2> QED BY <1>6, <1>7, <1>8, <1>9 DEF Freeing
<1>11. Cardinality(DOMAIN left) = Cardinality(DOMAIN s.objects) - 1
  <2>1. IsFiniteSet(DOMAIN s.objects)
    BY DEF Freeing, Sound, Forest
  <2> QED BY <1>2, <1>6, <2>1, FS_RemoveElement
<1>12. \A q \in keep : left[q] = s.objects[q]
  BY <1>1, <1>6 DEF Freeing, Sound, Forest
<1> QED BY <1>5, <1>10, <1>11, <1>12 DEF t

\* The rounds of FreeAll.
Freed(h, calls, rounds) ==
    LET freed[n \in 0..rounds] ==
            IF n = 0
            THEN [objects |-> h.objects, todo |-> calls,
                  undefined |-> h.undefined]
            ELSE FreeOne(freed[n - 1])
    IN freed

\* What FreeAll returns is what its last round does.
LEMMA FreeAllIsFreed ==
    ASSUME NEW h, DOMAIN h = HeapFields, NEW calls
    PROVE  LET rounds == Cardinality(DOMAIN h.objects)
               all == Freed(h, calls, rounds)[rounds]
               g == FreeAll(h, calls)
           IN /\ DOMAIN g = HeapFields /\ g.crashed = h.crashed
              /\ g.objects = all.objects
              /\ g.undefined = (all.undefined \/ all.todo # {})
<1> DEFINE rounds == Cardinality(DOMAIN h.objects)
           all == Freed(h, calls, rounds)[rounds]
           g == FreeAll(h, calls)
<1>1. g = [h EXCEPT !.objects = all.objects,
                    !.undefined = all.undefined \/ all.todo # {}]
  BY DEF FreeAll, Freed
<1> HIDE DEF all, g
<1>2. /\ DOMAIN g = HeapFields /\ g.crashed = h.crashed
      /\ g.objects = all.objects
      /\ g.undefined = (all.undefined \/ all.todo # {})
  BY <1>1 DEF HeapFields
<1> QED BY <1>2 DEF all, g

\* Each round of FreeAll makes one call.
LEMMA FreedIs ==
    ASSUME NEW h, NEW calls, NEW rounds \in Nat
    PROVE  \A n \in 0..rounds :
              Freed(h, calls, rounds)[n] =
                 IF n = 0
                 THEN [objects |-> h.objects, todo |-> calls,
                       undefined |-> h.undefined]
                 ELSE FreeOne(Freed(h, calls, rounds)[n - 1])
<1> DEFINE Makes(f, n) ==
              IF n = 0
              THEN [objects |-> h.objects, todo |-> calls,
                    undefined |-> h.undefined]
              ELSE FreeOne(f[n - 1])
           Solves(f, m) ==
              /\ f = [n \in 0..rounds |-> f[n]]
              /\ \A n \in 0..rounds : n <= m => f[n] = Makes(f, n)
           T == {m \in Nat : m <= rounds /\ ~ \E f : Solves(f, m)}
<1>1. T = {}
  <2>1. SUFFICES ASSUME T # {} PROVE FALSE
    OBVIOUS
  <2>2. PICK m \in T : \A j \in T : m <= j
    <3>1. T \in SUBSET Nat
      OBVIOUS
    <3> HIDE DEF T
    <3> QED BY <2>1, <3>1, LeastOf
  <2>3. m # 0
    <3> DEFINE f == [n \in 0..rounds |->
                        [objects |-> h.objects, todo |-> calls,
                         undefined |-> h.undefined]]
    <3>1. f = [n \in 0..rounds |-> f[n]]
      OBVIOUS
    <3>2. ASSUME NEW n \in 0..rounds, n <= 0 PROVE f[n] = Makes(f, n)
      BY <3>2
    <3>3. Solves(f, 0)
      <4> HIDE DEF f, Makes
      <4> QED BY <3>1, <3>2
    <3> HIDE DEF Solves
    <3> QED BY <2>2, <3>3
  <2>4. m - 1 \in Nat /\ m - 1 <= rounds /\ m \in Nat /\ m <= rounds
    BY <2>2, <2>3
  <2>5. PICK f : Solves(f, m - 1)
    <3>1. m - 1 \notin T
      <4> HIDE DEF T
      <4> QED BY <2>2, <2>4
    <3> HIDE DEF Solves
    <3> QED BY <2>4, <3>1
  <2> DEFINE g == [n \in 0..rounds |-> IF n = m THEN FreeOne(f[m - 1]) ELSE f[n]]
  <2>6. g = [n \in 0..rounds |-> g[n]]
    OBVIOUS
  <2>7. ASSUME NEW n \in 0..rounds, n <= m PROVE g[n] = Makes(g, n)
    <3>1. CASE n = m
      <4>1. g[n] = FreeOne(f[m - 1]) /\ g[m - 1] = f[m - 1]
        BY <2>4, <3>1
      <4> HIDE DEF g
      <4> QED BY <2>3, <3>1, <4>1
    <3>2. CASE n # m
      <4>1. g[n] = f[n] /\ n <= m - 1
        BY <2>4, <2>7, <3>2
      <4>2. n # 0 => g[n - 1] = f[n - 1]
        BY <2>4, <2>7, <3>2
      <4>3. f[n] = Makes(f, n)
        <5> HIDE DEF Makes
        <5> QED BY <2>5, <4>1
      <4> HIDE DEF g
      <4> QED BY <4>1, <4>2, <4>3
    <3> QED BY <3>1, <3>2
  <2>8. Solves(g, m)
    <3> HIDE DEF g, Makes
    <3> QED BY <2>6, <2>7
  <2> HIDE DEF Solves
  <2> QED BY <2>2, <2>8
<1>2. \E f : Solves(f, rounds)
  <2> HIDE DEF Solves
  <2> QED BY <1>1
<1>3. \E f : f = [n \in 0..rounds |-> Makes(f, n)]
  <2>1. PICK f : Solves(f, rounds)
    <3> HIDE DEF Solves
    <3> QED BY <1>2
  <2>2. f = [n \in 0..rounds |-> f[n]]
        /\ \A n \in 0..rounds : f[n] = Makes(f, n)
    <3> HIDE DEF Makes
    <3> QED BY <2>1
  <2>3. f = [n \in 0..rounds |-> Makes(f, n)]
    <3> HIDE DEF Makes
    <3> QED BY <2>2
  <2> HIDE DEF Makes
  <2> QED BY <2>3
<1> DEFINE F == Freed(h, calls, rounds)
<1>4. F = CHOOSE f : f = [n \in 0..rounds |-> Makes(f, n)]
  BY DEF Freed
<1>5. F = [n \in 0..rounds |-> Makes(F, n)]
  <2> HIDE DEF Makes, F
  <2> QED BY <1>3, <1>4
<1>6. \A n \in 0..rounds : F[n] = Makes(F, n)
  <2> HIDE DEF Makes, F
  <2> QED BY <1>5
<1> QED BY <1>6

\* Whatever is to be freed is freed, and what it owns, and nothing else; no
\* call is made twice.
LEMMA FreeAllIsSound ==
    ASSUME NEW h, DOMAIN h = HeapFields, ~h.undefined, NEW keep, NEW calls,
           Freeing(h.objects, keep, calls)
    PROVE  LET g == FreeAll(h, calls)
           IN /\ DOMAIN g = HeapFields /\ ~g.undefined /\ g.crashed = h.crashed
              /\ Sound(g.objects, keep)
              /\ \A q \in keep : g.objects[q] = h.objects[q]
<1> DEFINE rounds == Cardinality(DOMAIN h.objects)
           F == Freed(h, calls, rounds)
           Holds(n) ==
              /\ DOMAIN F[n] = {"objects", "todo", "undefined"}
              /\ F[n].undefined = h.undefined
              /\ Freeing(F[n].objects, keep, F[n].todo)
              /\ \A q \in keep : F[n].objects[q] = h.objects[q]
              /\ F[n].todo = {}
                 \/ Cardinality(DOMAIN F[n].objects) = rounds - n
           T == {n \in Nat : n <= rounds /\ ~Holds(n)}
<1>1. rounds \in Nat
  BY FS_CardinalityType DEF Freeing, Sound, Forest
<1> HIDE DEF rounds
<1>2. Holds(0)
  <2>1. F[0] = [objects |-> h.objects, todo |-> calls, undefined |-> h.undefined]
    BY <1>1, FreedIs
  <2> HIDE DEF F
  <2> QED BY <1>1, <2>1 DEF rounds
<1>3. ASSUME NEW n \in Nat, n + 1 <= rounds, Holds(n) PROVE Holds(n + 1)
  <2>1. F[n + 1] = FreeOne(F[n])
    <3> DEFINE k == n + 1
    <3>1. k \in 0..rounds /\ k # 0 /\ k - 1 = n
      BY <1>1, <1>3
    <3> HIDE DEF k
    <3>2. F[k] = FreeOne(F[k - 1])
      <4>1. \A i \in 0..rounds :
               F[i] = IF i = 0
                      THEN [objects |-> h.objects, todo |-> calls,
                            undefined |-> h.undefined]
                      ELSE FreeOne(F[i - 1])
        BY <1>1, FreedIs
      <4> HIDE DEF F
      <4> QED BY <3>1, <4>1
    <3> QED BY <3>1, <3>2 DEF k
  <2> HIDE DEF F
  <2>2. CASE F[n].todo = {}
    <3>1. F[n + 1] = F[n]
      BY <2>1, <2>2 DEF FreeOne
    <3> QED BY <1>3, <2>2, <3>1
  <2>3. CASE F[n].todo # {}
    <3> DEFINE t == FreeOne(F[n])
    <3>1. /\ DOMAIN t = {"objects", "todo", "undefined"}
          /\ t.undefined = F[n].undefined
          /\ Freeing(t.objects, keep, t.todo)
          /\ Cardinality(DOMAIN t.objects) = Cardinality(DOMAIN F[n].objects) - 1
          /\ \A q \in keep : t.objects[q] = F[n].objects[q]
      BY <1>3, <2>3, FreeOneIsSound
    <3> HIDE DEF t
    <3>2. F[n + 1] = t
      BY <2>1 DEF t
    <3>3. Cardinality(DOMAIN F[n].objects) = rounds - n
      BY <1>3, <2>3
    <3>4. Cardinality(DOMAIN t.objects) = rounds - (n + 1)
      BY <1>1, <3>1, <3>3
    <3> QED BY <1>3, <3>1, <3>2, <3>4
  <2> QED BY <2>2, <2>3
<1>4. Holds(rounds)
  <2>1. SUFFICES ASSUME T # {} PROVE FALSE
    <3> HIDE DEF Holds
    <3> QED BY <1>1
  <2>2. PICK m \in T : \A j \in T : m <= j
    <3>1. T \in SUBSET Nat
      OBVIOUS
    <3> HIDE DEF T
    <3> QED BY <2>1, <3>1, LeastOf
  <2> HIDE DEF Holds
  <2>3. m # 0 /\ m \in Nat /\ m <= rounds /\ ~Holds(m)
    BY <1>2, <2>2
  <2>4. m - 1 \in Nat /\ m - 1 \notin T
    <3> HIDE DEF T
    <3> QED BY <2>2, <2>3
  <2>5. Holds(m - 1)
    BY <1>1, <2>3, <2>4
  <2>6. Holds((m - 1) + 1)
    BY <1>3, <2>3, <2>4, <2>5
  <2> QED BY <2>3, <2>6
<1> DEFINE s == F[rounds]
<1> HIDE DEF F
<1>5. s.todo = {}
  <2>1. SUFFICES ASSUME s.todo # {} PROVE FALSE
    OBVIOUS
  <2>2. Cardinality(DOMAIN s.objects) = 0
    BY <1>1, <1>4, <2>1
  <2>3. IsFiniteSet(DOMAIN s.objects)
    BY <1>4 DEF Freeing, Sound, Forest
  <2>4. DOMAIN s.objects = {}
    BY <2>2, <2>3, FS_EmptySet
  <2>5. PICK c \in s.todo : TRUE
    BY <2>1
  <2>6. c.at \in DOMAIN s.objects
    BY <1>4, <2>5 DEF Freeing, Sound, Forest
  <2> QED BY <2>4, <2>6
<1>6. Sound(s.objects, keep)
  <2>1. keep \cup {c.at : c \in s.todo} = keep
    BY <1>5
  <2> QED BY <1>4, <2>1 DEF Freeing
<1> DEFINE g == FreeAll(h, calls)
<1>7. /\ DOMAIN g = HeapFields /\ g.crashed = h.crashed
      /\ g.objects = s.objects
      /\ g.undefined = (s.undefined \/ s.todo # {})
  BY FreeAllIsFreed DEF F, rounds
<1> HIDE DEF g, s
<1>8. s.undefined = h.undefined /\ \A q \in keep : s.objects[q] = h.objects[q]
  BY <1>4 DEF s
<1> QED BY <1>5, <1>6, <1>7, <1>8 DEF g

-----------------------------------------------------------------------------
(* What the semantic actions do to the heap.                               *)

\* The object o takes the roots "taken" when it is allocated.
Takes(o, objects, roots, taken) ==
    /\ WellFormed(o) /\ o.type # "result_list"
    /\ \A p : /\ taken = {c.at : c \in Frees(o.type, p, o)}
              /\ \A c \in Frees(o.type, p, o) :
                    c.at \in roots /\ objects[c.at].type = c.type
              /\ \A c, d \in Frees(o.type, p, o) : c.at = d.at => c = d

\* A heap that holds what is reached from its roots and nothing else.
Good(h, roots) == DOMAIN h = HeapFields /\ ~h.undefined /\ Sound(h.objects, roots)

\* The heap h has become g: crashed, or one that has what is at p, of the type
\* of o, in the place of the roots taken.
Becomes(h, g, roots, p, o) ==
    /\ DOMAIN g = HeapFields
    /\ \/ g.crashed
       \/ /\ p \in Nat \ {0} /\ p \notin roots
          /\ Good(g, roots \cup {p})
          /\ g.objects[p] = o
          /\ \A q \in roots : g.objects[q] = h.objects[q]

\* The objects of a good heap are finitely many, and none is at NULL.
LEMMA GoodHeap ==
    ASSUME NEW h, NEW roots, Good(h, roots)
    PROVE  IsFiniteSet(DOMAIN h.objects) /\ roots \subseteq DOMAIN h.objects
           /\ DOMAIN h.objects \subseteq Nat \ {0}
BY DEF Good, Sound, Forest

\* An object that is allocated takes some of the roots, or the program crashes.
LEMMA StructIsSound ==
    ASSUME NEW h, NEW roots, Good(h, roots), NEW o, NEW taken,
           Takes(o, h.objects, roots, taken)
    PROVE  LET m == Struct(h, o)
           IN Becomes(h, m.heap, roots \ taken, m.at, o)
<1> DEFINE m == Struct(h, o)
           p == m.at
           more == m.heap.objects
<1> SUFFICES Becomes(h, m.heap, roots \ taken, p, o)
  OBVIOUS
<1>1. /\ DOMAIN m.heap = HeapFields
      /\ m.heap.undefined = h.undefined
      /\ p = NULL => m.heap.crashed
      /\ p # NULL =>
            /\ p \in Nat \ {0} /\ p \notin DOMAIN h.objects
            /\ DOMAIN more = DOMAIN h.objects \cup {p}
            /\ more[p] = o
            /\ \A q \in DOMAIN h.objects : more[q] = h.objects[q]
  BY StructFacts, GoodHeap DEF Good
<1> HIDE DEF m
<1>2. CASE p = NULL
  BY <1>1, <1>2 DEF Becomes
<1>3. CASE p # NULL
  <2>1. Sound(more, (roots \ {c.at : c \in Frees(o.type, p, o)}) \cup {p})
    BY <1>1, <1>3, SoundRootComes DEF Good, Takes
  <2>2. taken = {c.at : c \in Frees(o.type, p, o)}
    BY DEF Takes
  <2>3. Sound(more, (roots \ taken) \cup {p})
    BY <2>1, <2>2
  <2>4. p \notin roots \ taken
    BY <1>1, <1>3, GoodHeap
  <2>5. \A q \in roots \ taken : more[q] = h.objects[q]
    BY <1>1, <1>3, GoodHeap
  <2>6. ~m.heap.undefined
    BY <1>1 DEF Good
  <2> QED BY <1>1, <1>3, <2>3, <2>4, <2>5, <2>6 DEF Becomes, Good
<1> QED BY <1>2, <1>3

\* A root is freed: what it owns are roots.
LEMMA FreeIsSound ==
    ASSUME NEW h, NEW roots, Good(h, roots), NEW p \in roots
    PROVE  LET g == Free(h, p)
               owned == {c.at : c \in Of(h.objects, p)}
           IN /\ Good(g, (roots \ {p}) \cup owned)
              /\ g.crashed = h.crashed
              /\ DOMAIN g.objects = DOMAIN h.objects \ {p}
              /\ owned \cap roots = {}
              /\ \A c \in Of(h.objects, p) :
                    c.at \in DOMAIN g.objects /\ h.objects[c.at].type = c.type
              /\ \A c, d \in Of(h.objects, p) : c.at = d.at => c = d
              /\ \A q \in DOMAIN g.objects : g.objects[q] = h.objects[q]
<1> DEFINE g == Free(h, p)
           owned == {c.at : c \in Of(h.objects, p)}
           left == Restrict(h.objects, DOMAIN h.objects \ {p})
<1>1. p \in DOMAIN h.objects /\ p # NULL
  BY GoodHeap DEF NULL
<1>2. /\ DOMAIN g = HeapFields /\ g.crashed = h.crashed
      /\ g.undefined = h.undefined /\ g.objects = left
  BY <1>1, FreeFacts DEF Good
<1> HIDE DEF g
<1>3. Sound(left, (roots \ {p}) \cup owned)
  BY SoundRootGoes DEF Good
<1>4. /\ DOMAIN left = DOMAIN h.objects \ {p}
      /\ \A q \in DOMAIN left : left[q] = h.objects[q]
      /\ owned \cap roots = {}
      /\ \A c \in Of(h.objects, p) :
            c.at \in DOMAIN left /\ left[c.at].type = c.type
      /\ \A c, d \in Of(h.objects, p) : c.at = d.at => c = d
  BY RootGoes DEF Good, Sound
<1> HIDE DEF left, owned
<1>5. Good(g, (roots \ {p}) \cup owned)
  BY <1>2, <1>3 DEF Good
<1> QED BY <1>2, <1>4, <1>5 DEF g, owned

\* An allocation that takes what the root q owns, and q is freed.
LEMMA StructFreeIsSound ==
    ASSUME NEW h, NEW roots, Good(h, roots), NEW q \in roots, NEW o, NEW taken,
           Takes(o, h.objects,
                 (roots \ {q}) \cup {c.at : c \in Of(h.objects, q)}, taken),
           {c.at : c \in Of(h.objects, q)} \subseteq taken
    PROVE  LET m == Struct(h, o)
           IN Becomes(h, Free(m.heap, q), roots \ (taken \cup {q}), m.at, o)
<1> DEFINE m == Struct(h, o)
           p == m.at
           more == m.heap.objects
           g == Free(m.heap, q)
           owned == {c.at : c \in Of(h.objects, q)}
           left == Restrict(h.objects, DOMAIN h.objects \ {q})
           rest == (roots \ {q}) \cup owned
<1> SUFFICES Becomes(h, g, roots \ (taken \cup {q}), p, o)
  OBVIOUS
<1>1. /\ DOMAIN m.heap = HeapFields
      /\ m.heap.undefined = h.undefined
      /\ p = NULL => m.heap.crashed
      /\ p # NULL =>
            /\ p \in Nat \ {0} /\ p \notin DOMAIN h.objects
            /\ DOMAIN more = DOMAIN h.objects \cup {p}
            /\ more[p] = o
            /\ \A r \in DOMAIN h.objects : more[r] = h.objects[r]
  BY StructFacts, GoodHeap DEF Good
<1>2. q \in DOMAIN h.objects /\ q # NULL
  BY GoodHeap DEF NULL
<1> HIDE DEF m
<1>3. /\ DOMAIN g = HeapFields /\ g.crashed = m.heap.crashed
      /\ q \in DOMAIN more =>
            /\ g.undefined = m.heap.undefined
            /\ g.objects = Restrict(more, DOMAIN more \ {q})
  BY <1>1, <1>2, FreeFacts
<1> HIDE DEF g
<1>4. CASE p = NULL
  BY <1>1, <1>3, <1>4 DEF Becomes
<1>5. CASE p # NULL
  <2>1. /\ Sound(left, rest)
        /\ DOMAIN left = DOMAIN h.objects \ {q}
        /\ \A r \in DOMAIN left : left[r] = h.objects[r]
    BY RootGoes, SoundRootGoes DEF Good, Sound
  <2> HIDE DEF left
  <2>2. /\ DOMAIN g.objects = DOMAIN left \cup {p}
        /\ g.objects[p] = o
        /\ \A r \in DOMAIN left : g.objects[r] = left[r]
    <3>1. q \in DOMAIN more /\ q # p
      BY <1>1, <1>2, <1>5
    <3>2. g.objects = [r \in DOMAIN more \ {q} |-> more[r]]
      BY <1>3, <3>1 DEF Restrict
    <3> QED BY <1>1, <1>5, <2>1, <3>1, <3>2
  <2>3. p \notin DOMAIN left /\ p \in Nat \ {0}
    BY <1>1, <1>5, <2>1
  <2>4. \A c \in Frees(o.type, p, o) : c.at \in rest /\ left[c.at].type = c.type
    <3>1. rest \subseteq DOMAIN left
      BY <2>1 DEF Sound, Forest
    <3> HIDE DEF rest
    <3>2. Takes(o, h.objects, rest, taken)
      BY DEF rest
    <3> QED BY <2>1, <3>1, <3>2 DEF Takes
  <2>5. Sound(g.objects, (rest \ {c.at : c \in Frees(o.type, p, o)}) \cup {p})
    <3> HIDE DEF rest
    <3>1. Takes(o, h.objects, rest, taken)
      BY DEF rest
    <3>2. /\ WellFormed(o) /\ o.type # "result_list"
          /\ \A c, d \in Frees(o.type, p, o) : c.at = d.at => c = d
      BY <3>1 DEF Takes
    <3> QED BY <2>1, <2>2, <2>3, <2>4, <3>2, SoundRootComes
  <2>6. taken = {c.at : c \in Frees(o.type, p, o)}
    BY DEF Takes
  <2>7. rest \ taken = roots \ (taken \cup {q})
    OBVIOUS
  <2> DEFINE kept == roots \ (taken \cup {q})
  <2>8. Sound(g.objects, kept \cup {p})
    <3> HIDE DEF rest, kept
    <3>1. rest \ taken = kept
      BY <2>7 DEF kept
    <3> QED BY <2>5, <2>6, <3>1
  <2>9. kept \subseteq DOMAIN left
    BY <2>1, GoodHeap
  <2>10. Good(g, kept \cup {p})
    <3>1. ~g.undefined
      BY <1>1, <1>2, <1>3, <1>5 DEF Good
    <3> HIDE DEF kept
    <3> QED BY <1>3, <2>8, <3>1 DEF Good
  <2>11. \A r \in kept : g.objects[r] = h.objects[r]
    BY <2>1, <2>2, <2>9
  <2>12. p \notin kept
    BY <2>3, <2>9
  <2> HIDE DEF kept
  <2> QED BY <1>3, <2>2, <2>3, <2>10, <2>11, <2>12 DEF Becomes, kept
<1> QED BY <1>4, <1>5

-----------------------------------------------------------------------------
(* What an allocation takes.                                               *)

\* The free function of o makes two calls at most.
OwnsTwo(o, t, a, f, u, b, g) ==
    \A p : Frees(o.type, p, o) = Call(t, a, <<p, f>>) \cup Call(u, b, <<p, g>>)

\* An object with two pointers takes what they point to.
LEMMA TakesTwo ==
    ASSUME NEW objects, NEW roots, NEW o, WellFormed(o), o.type # "result_list",
           NEW t, NEW a, NEW f, NEW u, NEW b, NEW g,
           OwnsTwo(o, t, a, f, u, b, g),
           a # NULL => a \in roots /\ objects[a].type = t,
           b # NULL => b \in roots /\ objects[b].type = u,
           a = b => a = NULL
    PROVE  Takes(o, objects, roots, {a, b} \ {NULL})
<1> SUFFICES ASSUME NEW p
             PROVE  /\ {a, b} \ {NULL} = {c.at : c \in Frees(o.type, p, o)}
                    /\ \A c \in Frees(o.type, p, o) :
                          c.at \in roots /\ objects[c.at].type = c.type
                    /\ \A c, d \in Frees(o.type, p, o) : c.at = d.at => c = d
  BY DEF Takes
<1> DEFINE c1 == [type |-> t, at |-> a, place |-> <<p, f>>]
           c2 == [type |-> u, at |-> b, place |-> <<p, g>>]
<1>1. Frees(o.type, p, o) = (IF a = NULL THEN {} ELSE {c1})
                            \cup (IF b = NULL THEN {} ELSE {c2})
  BY DEF Call, OwnsTwo
<1>2. c1.type = t /\ c1.at = a /\ c2.type = u /\ c2.at = b
  OBVIOUS
<1> HIDE DEF c1, c2
<1>3. CASE a = NULL
  BY <1>1, <1>2, <1>3
<1>4. CASE a # NULL /\ b = NULL
  BY <1>1, <1>2, <1>4
<1>5. CASE a # NULL /\ b # NULL
  BY <1>1, <1>2, <1>5
<1> QED BY <1>3, <1>4, <1>5

\* An object that owns nothing is allocated, or the heap is as it was.
LEMMA MallocIsSound ==
    ASSUME NEW h, NEW roots, Good(h, roots), NEW o,
           Takes(o, h.objects, roots, {})
    PROVE  LET m == Malloc(h, o)
           IN /\ DOMAIN m.heap = HeapFields /\ m.heap.crashed = h.crashed
              /\ m.at = NULL => /\ Good(m.heap, roots)
                                /\ m.heap.objects = h.objects
              /\ m.at # NULL => Becomes(h, m.heap, roots, m.at, o)
<1> DEFINE m == Malloc(h, o)
<1>1. /\ DOMAIN m.heap = HeapFields /\ m.heap.crashed = h.crashed
      /\ m.heap.undefined = h.undefined
      /\ m.at = NULL => m.heap.objects = h.objects
  BY MallocFacts, GoodHeap DEF Good
<1>2. CASE m.at # NULL
  <2>1. Struct(h, o) = m
    BY <1>2 DEF Struct
  <2>2. Becomes(h, m.heap, roots \ {}, m.at, o)
    <3> HIDE DEF m
    <3>1. Becomes(h, Struct(h, o).heap, roots \ {}, Struct(h, o).at, o)
      BY StructIsSound
    <3> QED BY <2>1, <3>1
  <2>3. roots \ {} = roots
    OBVIOUS
  <2> HIDE DEF m
  <2> QED BY <1>1, <1>2, <2>2, <2>3 DEF m
<1>3. CASE m.at = NULL
  <2> HIDE DEF m
  <2>1. Good(m.heap, roots)
    BY <1>1, <1>3 DEF Good
  <2> QED BY <1>1, <1>3, <2>1 DEF m
<1> QED BY <1>2, <1>3

\* An empty result list is allocated, with its tail at itself.
LEMMA ResultListAllocIsSound ==
    ASSUME NEW h, NEW roots, Good(h, roots)
    PROVE  LET m == ResultListAlloc(h)
           IN Becomes(h, m.heap, roots, m.at, ResultList(m.at))
<1> DEFINE made == Struct(h, ResultList(NULL))
           p == made.at
           more == [q \in DOMAIN made.heap.objects |->
                       IF q = p THEN ResultList(p) ELSE made.heap.objects[q]]
           m == ResultListAlloc(h)
<1> SUFFICES Becomes(h, m.heap, roots, m.at, ResultList(m.at))
  OBVIOUS
<1>1. /\ DOMAIN made = {"at", "heap"} /\ DOMAIN made.heap = HeapFields
      /\ made.heap.undefined = h.undefined
      /\ p = NULL => made.heap.crashed
      /\ p # NULL =>
            /\ p \in Nat \ {0} /\ p \notin DOMAIN h.objects
            /\ DOMAIN made.heap.objects = DOMAIN h.objects \cup {p}
            /\ \A q \in DOMAIN h.objects : made.heap.objects[q] = h.objects[q]
  BY StructFacts, GoodHeap DEF Good
<1>2. m = [made EXCEPT !.heap.objects = more]
  BY DEF ResultListAlloc
<1> HIDE DEF made, m
<1>3. /\ m.at = p
      /\ m.heap = [made.heap EXCEPT !.objects = more]
  <2> HIDE DEF more
  <2> QED BY <1>1, <1>2
<1>4. /\ DOMAIN m.heap = HeapFields
      /\ m.heap.undefined = h.undefined /\ m.heap.crashed = made.heap.crashed
      /\ m.heap.objects = more
  <2> HIDE DEF more
  <2> QED BY <1>1, <1>3 DEF HeapFields
<1>5. CASE p = NULL
  BY <1>1, <1>4, <1>5 DEF Becomes
<1>6. CASE p # NULL
  <2> DEFINE o == ResultList(p)
  <2>1. /\ DOMAIN more = DOMAIN h.objects \cup {p}
        /\ more[p] = o
        /\ \A q \in DOMAIN h.objects : more[q] = h.objects[q]
    <3> HIDE DEF o
    <3> QED BY <1>1, <1>6 DEF o
  <2>2. /\ WellFormed(o) /\ o.type = "result_list" /\ o.head = NULL
        /\ o.tail = p
    BY DEF WellFormed, ResultList, Types
  <2>3. Frees(o.type, p, o) = {}
    BY <2>2 DEF Frees, Call
  <2> HIDE DEF o, more
  <2>4. Sound(more, (roots \ {c.at : c \in Frees(o.type, p, o)}) \cup {p})
    BY <1>1, <1>6, <2>1, <2>2, <2>3, SoundRootComes DEF Good
  <2>5. (roots \ {c.at : c \in Frees(o.type, p, o)}) \cup {p} = roots \cup {p}
    BY <2>3
  <2>6. Good(m.heap, roots \cup {p})
    BY <1>4, <2>4, <2>5 DEF Good
  <2>7. roots \subseteq DOMAIN h.objects
    BY GoodHeap
  <2> QED BY <1>1, <1>3, <1>4, <1>6, <2>1, <2>6, <2>7 DEF Becomes, o
<1> QED BY <1>5, <1>6

-----------------------------------------------------------------------------
(* The semantic actions.                                                   *)

\* The type of what the value of a symbol points to.
TypeOf(symbol) ==
    CASE symbol \in {"opt_variable", "variable", "opt_token", "token",
                     "cstring"} -> "text"
      [] symbol \in {"tuple", "list"} -> "result"
      [] symbol = "output_variant" -> "output"
      [] OTHER -> symbol

Nullable == {"opt_variable", "variable", "opt_token", "token", "tuple", "list"}

\* p may be the value of the symbol.
Fits(symbol, p, objects) ==
    IF p = NULL THEN symbol \in Nullable
    ELSE /\ objects[p].type = TypeOf(symbol)
         /\ symbol = "result" => objects[p].next = NULL
         /\ symbol = "output_variant" => objects[p].line = NULL

IsSequence(s) == \E S : s \in Seq(S)

\* v are values of the symbols rhs, and each owns a root of its own.
Values(rhs, v, objects, roots) ==
    /\ IsSequence(v) /\ Len(v) = Len(rhs)
    /\ \A j \in 1..Len(v) : rhs[j] \in Owning =>
          Fits(rhs[j], v[j], objects) /\ (v[j] # NULL => v[j] \in roots)
    /\ \A i, j \in 1..Len(v) :
          rhs[i] \in Owning /\ rhs[j] \in Owning /\ v[i] = v[j] /\ v[i] # NULL
          => i = j

Taken(rhs, v) == {v[j] : j \in {j \in 1..Len(v) : rhs[j] \in Owning}} \ {NULL}

Held(symbol, p) == IF symbol \in Owning THEN {p} \ {NULL} ELSE {}

\* The action has left g, and p as the value of the symbol.
Done(symbol, p, h, g, kept) ==
    /\ Good(g, kept \cup Held(symbol, p))
    /\ Held(symbol, p) \cap kept = {}
    /\ symbol \in Owning => Fits(symbol, p, g.objects)
    /\ \A q \in kept : g.objects[q] = h.objects[q]

Ends(symbol, p, h, g, kept) ==
    DOMAIN g = HeapFields /\ (g.crashed \/ Done(symbol, p, h, g, kept))

\* An action that has allocated its value has ended.
LEMMA BecomesEnds ==
    ASSUME NEW h, NEW g, NEW kept, NEW p, NEW o, Becomes(h, g, kept, p, o),
           NEW symbol \in Owning, o.type = TypeOf(symbol),
           symbol = "result" => o.next = NULL,
           symbol = "output_variant" => o.line = NULL
    PROVE  Ends(symbol, p, h, g, kept)
<1>1. CASE g.crashed
  BY <1>1 DEF Ends, Becomes
<1>2. CASE ~g.crashed
  <2>1. /\ p \in Nat \ {0} /\ p \notin kept /\ Good(g, kept \cup {p})
        /\ g.objects[p] = o
        /\ \A q \in kept : g.objects[q] = h.objects[q]
    BY <1>2 DEF Becomes
  <2>2. Held(symbol, p) = {p} /\ p # NULL
    BY <2>1 DEF Held, NULL
  <2>3. Fits(symbol, p, g.objects)
    BY <2>1, <2>2 DEF Fits
  <2>4. Done(symbol, p, h, g, kept)
    BY <2>1, <2>2, <2>3 DEF Done
  <2> QED BY <2>4 DEF Ends, Becomes
<1> QED BY <1>1, <1>2

\* A value is moved.
LEMMA MoveEnds ==
    ASSUME NEW h, NEW roots, Good(h, roots), NEW symbol, NEW p, NEW taken,
           taken = Held(symbol, p), taken \subseteq roots,
           symbol \in Owning => Fits(symbol, p, h.objects)
    PROVE  Ends(symbol, p, h, h, roots \ taken)
<1>1. (roots \ taken) \cup taken = roots
  OBVIOUS
<1>2. Done(symbol, p, h, h, roots \ taken)
  BY <1>1 DEF Done
<1> QED BY <1>2 DEF Ends, Good

\* The rules with a semantic action that has an effect on the heap.
LEMMA TreeRules ==
    ASSUME NEW r \in Rules
    PROVE  /\ r.lhs = "output_variant" =>
                 r.rhs \in {<<"oob_record">>, <<"result_record">>,
                            <<"OPEN_PAREN", "variable", "check", "CLOSED_PAREN">>}
           /\ r.lhs = "result_record" =>
                 r.rhs \in {<<"opt_token", "CARROT", "result_class">>,
                            <<"opt_token", "CARROT", "result_class", "COMMA",
                              "result_list">>}
           /\ r.lhs = "async_record" =>
                 r.rhs \in {<<"opt_token", "async_record_class", "async_class">>,
                            <<"opt_token", "async_record_class", "async_class",
                              "COMMA", "result_list">>}
           /\ r.lhs = "oob_record" =>
                 r.rhs \in {<<"async_record">>, <<"stream_record">>}
           /\ r.lhs = "stream_record" =>
                 r.rhs = <<"stream_record_class", "cstring">>
           /\ r.lhs = "opt_variable" =>
                 r.rhs \in {<< >>, <<"variable", "EQUAL_SIGN">>}
           /\ r.lhs = "opt_token" => r.rhs \in {<< >>, <<"token">>}
           /\ r.lhs = "result_list" =>
                 r.rhs \in {<<"result">>, <<"result_list", "COMMA", "result">>}
           /\ r.lhs = "result" =>
                 r.rhs \in {<<"opt_variable", value>> :
                               value \in {"cstring", "tuple", "list"}}
           /\ r.lhs = "variable" => r.rhs = <<"STRING_LITERAL">>
           /\ r.lhs = "token" => r.rhs = <<"INTEGER_LITERAL">>
           /\ r.lhs = "cstring" => r.rhs = <<"CSTRING">>
           /\ r.lhs = "tuple" =>
                 r.rhs \in {<<"OPEN_BRACE", "CLOSED_BRACE">>,
                            <<"OPEN_BRACE", "result_list", "CLOSED_BRACE">>}
           /\ r.lhs = "list" =>
                 r.rhs \in {<<"OPEN_BRACKET", "CLOSED_BRACKET">>,
                            <<"OPEN_BRACKET", "result_list", "CLOSED_BRACKET">>}
<1> USE DEF Rules, Rule, ErrorRule, StreamOps, AsyncOps
<1>1. r.lhs = "output_variant" =>
                 r.rhs \in {<<"oob_record">>, <<"result_record">>,
                            <<"OPEN_PAREN", "variable", "check", "CLOSED_PAREN">>}
  BY SMTT(60)
<1>2. r.lhs = "result_record" =>
                 r.rhs \in {<<"opt_token", "CARROT", "result_class">>,
                            <<"opt_token", "CARROT", "result_class", "COMMA",
                              "result_list">>}
  BY SMTT(60)
<1>3. r.lhs = "async_record" =>
                 r.rhs \in {<<"opt_token", "async_record_class", "async_class">>,
                            <<"opt_token", "async_record_class", "async_class",
                              "COMMA", "result_list">>}
  BY SMTT(60)
<1>4. r.lhs = "oob_record" =>
                 r.rhs \in {<<"async_record">>, <<"stream_record">>}
  BY SMTT(60)
<1>5. r.lhs = "stream_record" => r.rhs = <<"stream_record_class", "cstring">>
  BY SMTT(60)
<1>6. r.lhs = "opt_variable" => r.rhs \in {<< >>, <<"variable", "EQUAL_SIGN">>}
  BY SMTT(60)
<1>7. r.lhs = "opt_token" => r.rhs \in {<< >>, <<"token">>}
  BY SMTT(60)
<1>8. r.lhs = "result_list" =>
                 r.rhs \in {<<"result">>, <<"result_list", "COMMA", "result">>}
  BY SMTT(60)
<1>9. r.lhs = "result" =>
                 r.rhs \in {<<"opt_variable", value>> :
                               value \in {"cstring", "tuple", "list"}}
  BY SMTT(60)
<1>10. /\ r.lhs = "variable" => r.rhs = <<"STRING_LITERAL">>
       /\ r.lhs = "token" => r.rhs = <<"INTEGER_LITERAL">>
       /\ r.lhs = "cstring" => r.rhs = <<"CSTRING">>
  BY SMTT(60)
<1>11. r.lhs = "tuple" =>
                 r.rhs \in {<<"OPEN_BRACE", "CLOSED_BRACE">>,
                            <<"OPEN_BRACE", "result_list", "CLOSED_BRACE">>}
  BY SMTT(60)
<1>12. r.lhs = "list" =>
                 r.rhs \in {<<"OPEN_BRACKET", "CLOSED_BRACKET">>,
                            <<"OPEN_BRACKET", "result_list", "CLOSED_BRACKET">>}
  BY SMTT(60)
<1> HIDE DEF Rules, Rule, ErrorRule, StreamOps, AsyncOps
<1> QED BY <1>1, <1>2, <1>3, <1>4, <1>5, <1>6, <1>7, <1>8, <1>9, <1>10, <1>11,
           <1>12

\* The rules of the symbols that hold nothing take nothing but for the end of a
\* line, which hands over an output.
LEMMA PlainRules ==
    ASSUME NEW r \in Rules, r.lhs \notin Owning,
           r.rhs # <<"output_variant", "NEWLINE">>
    PROVE  \A j \in 1..Len(r.rhs) : r.rhs[j] \notin Owning
<1>1. \/ r.rhs = << >> \/ r.rhs = <<"output_list", "output">>
      \/ r.rhs = <<"error", "NEWLINE">> \/ r.rhs = <<"STRING_LITERAL">>
      \/ \E op \in StreamOps \cup AsyncOps : r.rhs = <<op>>
  BY SMTT(60) DEF Rules, Rule, ErrorRule, StreamOps, AsyncOps, Owning
<1> QED BY <1>1 DEF Owning, StreamOps, AsyncOps

\* Symbols that own nothing take no root.
LEMMA NoneTaken ==
    ASSUME NEW rhs, NEW v, Len(v) = Len(rhs),
           \A j \in 1..Len(rhs) : rhs[j] \notin Owning
    PROVE  Taken(rhs, v) = {}
BY DEF Taken

\* What is taken when one symbol of a rule owns its value.
LEMMA OneTaken ==
    ASSUME NEW rhs, NEW v, NEW objects, NEW roots, Values(rhs, v, objects, roots),
           NEW k \in 1..Len(rhs),
           \A j \in 1..Len(rhs) : rhs[j] \in Owning <=> j = k
    PROVE  /\ Taken(rhs, v) = {v[k]} \ {NULL}
           /\ Fits(rhs[k], v[k], objects)
           /\ v[k] # NULL => v[k] \in roots
BY DEF Values, Taken

\* What is taken when two symbols of a rule own their values.
LEMMA TwoTaken ==
    ASSUME NEW rhs, NEW v, NEW objects, NEW roots, Values(rhs, v, objects, roots),
           NEW k \in 1..Len(rhs), NEW n \in 1..Len(rhs), k # n,
           \A j \in 1..Len(rhs) : rhs[j] \in Owning <=> j \in {k, n}
    PROVE  /\ Taken(rhs, v) = {v[k], v[n]} \ {NULL}
           /\ Fits(rhs[k], v[k], objects) /\ Fits(rhs[n], v[n], objects)
           /\ v[k] # NULL => v[k] \in roots
           /\ v[n] # NULL => v[n] \in roots
           /\ v[k] = v[n] => v[k] = NULL
BY DEF Values, Taken

-----------------------------------------------------------------------------
(* The structures that the actions allocate.                               *)

\* A text owns nothing.
LEMMA TakesText ==
    ASSUME NEW objects, NEW roots, NEW text
    PROVE  Takes(Text(text), objects, roots, {})
<1> DEFINE o == Text(text)
<1>1. o.type = "text" /\ WellFormed(o)
  BY DEF Text, WellFormed, Types
<1> HIDE DEF o
<1>2. \A p : Frees(o.type, p, o) = {}
  BY <1>1 DEF Frees
<1>3. Takes(o, objects, roots, {})
  BY <1>1, <1>2 DEF Takes
<1> QED BY <1>3 DEF o

\* An output takes the record in its variant, if it has one.
LEMMA TakesOutput ==
    ASSUME NEW objects, NEW roots, NEW kind, NEW p, NEW pos,
           kind \in {"OOB", "RESULT"} =>
              p \in roots
              /\ objects[p].type = IF kind = "OOB" THEN "oob_record"
                                   ELSE "result_record",
           kind \in {"PROMPT", "PARSE_ERROR"} => p = NULL,
           kind \in {"OOB", "RESULT", "PROMPT", "PARSE_ERROR"}
    PROVE  Takes(Output(kind, p, pos), objects, roots, {p} \ {NULL})
<1> DEFINE o == Output(kind, p, pos)
           t == IF kind = "OOB" THEN "oob_record" ELSE "result_record"
<1>1. /\ o.type = "output" /\ o.kind = kind /\ o.variant = p
      /\ o.line = NULL /\ o.next = NULL /\ WellFormed(o)
  BY DEF Output, WellFormed, Types
<1> HIDE DEF o
<1>2. OwnsTwo(o, t, p, "variant", "text", NULL, "line")
  BY <1>1 DEF Frees, OwnsTwo, OutputFree, Call
<1>3. Takes(o, objects, roots, {p, NULL} \ {NULL})
  BY <1>1, <1>2, TakesTwo
<1>4. {p, NULL} \ {NULL} = {p} \ {NULL}
  OBVIOUS
<1> QED BY <1>3, <1>4 DEF o

\* A record of either type.
LEMMA TakesRecord ==
    ASSUME NEW objects, NEW roots, NEW o, WellFormed(o),
           o.type \in {"result_record", "async_record"},
           o.token # NULL => o.token \in roots /\ objects[o.token].type = "text",
           o.result # NULL =>
              o.result \in roots /\ objects[o.result].type = "result",
           o.token = o.result => o.token = NULL
    PROVE  Takes(o, objects, roots, {o.token, o.result} \ {NULL})
<1>1. OwnsTwo(o, "text", o.token, "token", "result", o.result, "result")
  BY DEF Frees, OwnsTwo, RecordFree
<1> QED BY <1>1, TakesTwo

\* An out-of-band record takes its record.
LEMMA TakesOobRecord ==
    ASSUME NEW objects, NEW roots, NEW kind, NEW p \in roots,
           objects[p].type = IF kind = "ASYNC" THEN "async_record"
                             ELSE "stream_record"
    PROVE  Takes(OobRecord(kind, p), objects, roots, {p} \ {NULL})
<1> DEFINE o == OobRecord(kind, p)
           t == IF kind = "ASYNC" THEN "async_record" ELSE "stream_record"
<1>1. /\ o.type = "oob_record" /\ o.kind = kind /\ o.variant = p
      /\ WellFormed(o)
  BY DEF OobRecord, WellFormed, Types
<1> HIDE DEF o
<1>2. OwnsTwo(o, t, p, "variant", "text", NULL, "line")
  BY <1>1 DEF Frees, OwnsTwo, OobRecordFree, Call
<1>3. Takes(o, objects, roots, {p, NULL} \ {NULL})
  BY <1>1, <1>2, TakesTwo
<1>4. {p, NULL} \ {NULL} = {p} \ {NULL}
  OBVIOUS
<1> QED BY <1>3, <1>4 DEF o

\* A stream record takes its text.
LEMMA TakesStreamRecord ==
    ASSUME NEW objects, NEW roots, NEW kind, NEW p \in roots,
           objects[p].type = "text"
    PROVE  Takes(StreamRecord(kind, p), objects, roots, {p} \ {NULL})
<1> DEFINE o == StreamRecord(kind, p)
<1>1. /\ o.type = "stream_record" /\ o.cstring = p /\ WellFormed(o)
  BY DEF StreamRecord, WellFormed, Types
<1> HIDE DEF o
<1>2. OwnsTwo(o, "text", p, "cstring", "text", NULL, "line")
  BY <1>1 DEF Frees, OwnsTwo, StreamRecordFree, Call
<1>3. Takes(o, objects, roots, {p, NULL} \ {NULL})
  BY <1>1, <1>2, TakesTwo
<1>4. {p, NULL} \ {NULL} = {p} \ {NULL}
  OBVIOUS
<1> QED BY <1>3, <1>4 DEF o

\* A result takes its variable and its value.
LEMMA TakesResult ==
    ASSUME NEW objects, NEW roots, NEW a, NEW kind, NEW b,
           a # NULL => a \in roots /\ objects[a].type = "text",
           b # NULL =>
              b \in roots
              /\ objects[b].type = IF kind = "CSTRING" THEN "text" ELSE "result",
           a = b => a = NULL
    PROVE  Takes(Result(a, kind, b), objects, roots, {a, b} \ {NULL})
<1> DEFINE o == Result(a, kind, b)
           t == IF kind = "CSTRING" THEN "text" ELSE "result"
<1>1. /\ o.type = "result" /\ o.variable = a /\ o.kind = kind /\ o.variant = b
      /\ o.next = NULL /\ WellFormed(o)
  BY DEF Result, WellFormed, Types
<1> HIDE DEF o
<1>2. OwnsTwo(o, "text", a, "variable", t, b, "variant")
  BY <1>1 DEF Frees, OwnsTwo, ResultFree, Call
<1>3. Takes(o, objects, roots, {a, b} \ {NULL})
  BY <1>1, <1>2, TakesTwo
<1> QED BY <1>3 DEF o

\* The actions of output_variant free the newline's part and wrap the record.
LEMMA OutputVariantEnds ==
    ASSUME NEW r \in Rules, r.lhs = "output_variant", NEW v, NEW h, NEW roots,
           Good(h, roots), Values(r.rhs, v, h.objects, roots)
    PROVE  LET d == OutputVariant(r, v, h)
           IN Ends(r.lhs, d.at, h, d.heap, roots \ Taken(r.rhs, v))
<1> DEFINE d == OutputVariant(r, v, h)
<1> SUFFICES Ends(r.lhs, d.at, h, d.heap, roots \ Taken(r.rhs, v))
  OBVIOUS
<1>1. r.lhs \in Owning /\ TypeOf(r.lhs) = "output"
  BY DEF Owning, TypeOf
<1>2. CASE r.rhs \in {<<"oob_record">>, <<"result_record">>}
  <2> DEFINE o == Output(KindOf(r), v[1], NULL)
  <2>1. Len(r.rhs) = 1 /\ Len(v) = 1
    BY <1>2 DEF Values
  <2>2. /\ r.rhs[1] \in {"oob_record", "result_record"}
        /\ KindOf(r) = IF r.rhs[1] = "oob_record" THEN "OOB" ELSE "RESULT"
    BY <1>2 DEF KindOf
  <2>3. /\ Taken(r.rhs, v) = {v[1]} \ {NULL}
        /\ Fits(r.rhs[1], v[1], h.objects)
        /\ v[1] # NULL => v[1] \in roots
    BY <2>1, <2>2, OneTaken DEF Owning
  <2>4. v[1] \in roots /\ h.objects[v[1]].type = r.rhs[1]
    BY <2>2, <2>3 DEF Fits, Nullable, TypeOf
  <2>5. Takes(o, h.objects, roots, {v[1]} \ {NULL})
    BY <2>2, <2>4, TakesOutput
  <2>6. d = Struct(h, o)
    BY <2>1 DEF OutputVariant
  <2>7. o.type = "output" /\ o.line = NULL
    BY DEF Output
  <2> HIDE DEF o, d
  <2>8. Becomes(h, d.heap, roots \ Taken(r.rhs, v), d.at, o)
    BY <2>3, <2>5, <2>6, StructIsSound
  <2> QED BY <1>1, <2>7, <2>8, BecomesEnds
<1>3. CASE r.rhs = <<"OPEN_PAREN", "variable", "check", "CLOSED_PAREN">>
  <2> DEFINE o == Output("PROMPT", NULL, NULL)
             made == Struct(h, o)
  <2>1. Len(r.rhs) = 4 /\ Len(v) = 4 /\ KindOf(r) = "PROMPT"
        /\ r.rhs[2] = "variable"
    BY <1>3 DEF Values, KindOf
  <2>2. \A j \in 1..Len(r.rhs) : r.rhs[j] \in Owning <=> j = 2
    BY <1>3 DEF Owning
  <2>3. /\ Taken(r.rhs, v) = {v[2]} \ {NULL}
        /\ Fits("variable", v[2], h.objects)
        /\ v[2] # NULL => v[2] \in roots
    BY <2>1, <2>2, OneTaken
  <2>4. \A rest : Takes(o, h.objects, rest, {})
    <3> TAKE rest
    <3>1. Takes(o, h.objects, rest, {NULL} \ {NULL})
      BY TakesOutput
    <3>2. {NULL} \ {NULL} = {}
      OBVIOUS
    <3> HIDE DEF o
    <3> QED BY <3>1, <3>2
  <2>5. o.type = "output" /\ o.line = NULL
    BY DEF Output
  <2>6. d = [made EXCEPT !.heap = Free(made.heap, v[2])]
    BY <2>1 DEF OutputVariant
  <2>7. DOMAIN made = {"at", "heap"}
    BY StructFacts, GoodHeap DEF Good
  <2> HIDE DEF o, d
  <2>8. d.at = made.at /\ d.heap = Free(made.heap, v[2])
    <3> HIDE DEF made
    <3> QED BY <2>6, <2>7
  <2>9. Becomes(h, d.heap, roots \ Taken(r.rhs, v), d.at, o)
    <3>1. CASE v[2] = NULL
      <4>1. Taken(r.rhs, v) = {} /\ d.heap = made.heap
        BY <2>3, <2>8, <3>1 DEF Free
      <4> QED BY <2>4, <2>8, <4>1, StructIsSound
    <3>2. CASE v[2] # NULL
      <4>1. v[2] \in roots /\ h.objects[v[2]].type = "text"
        BY <2>3, <3>2 DEF Fits, TypeOf
      <4>2. Of(h.objects, v[2]) = {}
        BY <4>1 DEF Of, Frees
      <4>3. {c.at : c \in Of(h.objects, v[2])} = {}
        BY <4>2
      <4>4. Becomes(h, Free(made.heap, v[2]), roots \ ({} \cup {v[2]}), made.at, o)
        BY <2>4, <4>1, <4>3, StructFreeIsSound
      <4>5. roots \ ({} \cup {v[2]}) = roots \ Taken(r.rhs, v)
        BY <2>3, <3>2
      <4> HIDE DEF made
      <4> QED BY <2>8, <4>4, <4>5
    <3> QED BY <3>1, <3>2
  <2> QED BY <1>1, <2>5, <2>9, BecomesEnds
<1> QED BY <1>2, <1>3, TreeRules

\* What a list of results hands over.
LEMMA HeadFacts ==
    ASSUME NEW h, NEW roots, Good(h, roots), NEW list \in roots,
           h.objects[list].type = "result_list"
    PROVE  LET head == h.objects[list].head
           IN /\ {c.at : c \in Of(h.objects, list)} = {head} \ {NULL}
              /\ head \notin roots
              /\ head # NULL => h.objects[head].type = "result"
<1> DEFINE head == h.objects[list].head
           c == [type |-> "result", at |-> head, place |-> <<list, "head">>]
<1>1. Of(h.objects, list) = IF head = NULL THEN {} ELSE {c}
  BY DEF Of, Frees, Call
<1>2. c.at = head /\ c.type = "result"
  OBVIOUS
<1>3. list \in DOMAIN h.objects /\ NULL \notin roots
  BY GoodHeap DEF NULL
<1>4. \A d \in Of(h.objects, list) :
         d.at \notin roots /\ h.objects[d.at].type = d.type
  BY <1>3 DEF Good, Sound, Forest
<1> HIDE DEF c, head
<1>5. CASE head = NULL
  BY <1>1, <1>3, <1>5 DEF head
<1>6. CASE head # NULL
  BY <1>1, <1>2, <1>4, <1>6 DEF head
<1> QED BY <1>5, <1>6

\* The actions of the records take the token and the results, and free the list.
LEMMA RecordEnds ==
    ASSUME NEW rhs, NEW v, NEW h, NEW roots, NEW symbol, NEW o,
           Good(h, roots), Values(rhs, v, h.objects, roots),
           symbol \in {"result_record", "async_record"},
           o.type = symbol, {"type", "token", "result"} \subseteq DOMAIN o,
           o.token = v[1], o.result = NULL,
           Len(rhs) \in {3, 5}, rhs[1] = "opt_token",
           rhs[2] \notin Owning, rhs[3] \notin Owning,
           Len(rhs) = 5 => rhs[4] = "COMMA" /\ rhs[5] = "result_list"
    PROVE  LET d == Record(h, v, o)
           IN Ends(symbol, d.at, h, d.heap, roots \ Taken(rhs, v))
<1> DEFINE d == Record(h, v, o)
<1> SUFFICES Ends(symbol, d.at, h, d.heap, roots \ Taken(rhs, v))
  OBVIOUS
<1>1. symbol \in Owning /\ TypeOf(symbol) = symbol
  BY DEF Owning, TypeOf
<1>2. \A p : p.type = symbol => WellFormed(p)
  BY DEF WellFormed, Types
<1>3. CASE Len(rhs) = 3
  <2>1. Len(v) = 3 /\ \A j \in 1..Len(rhs) : rhs[j] \in Owning <=> j = 1
    BY <1>3 DEF Values, Owning
  <2>2. /\ Taken(rhs, v) = {v[1]} \ {NULL}
        /\ Fits("opt_token", v[1], h.objects)
        /\ v[1] # NULL => v[1] \in roots
    BY <1>3, <2>1, OneTaken
  <2>3. v[1] # NULL => h.objects[v[1]].type = "text"
    BY <2>2 DEF Fits, TypeOf
  <2>4. Takes(o, h.objects, roots, {v[1], NULL} \ {NULL})
    BY <1>2, <2>2, <2>3, TakesRecord
  <2>5. {v[1], NULL} \ {NULL} = Taken(rhs, v)
    BY <2>2
  <2>6. d = Struct(h, o)
    BY <2>1 DEF Record
  <2> HIDE DEF d
  <2>7. Becomes(h, d.heap, roots \ Taken(rhs, v), d.at, o)
    BY <2>4, <2>5, <2>6, StructIsSound
  <2> QED BY <1>1, <2>7, BecomesEnds
<1>4. CASE Len(rhs) = 5
  <2> DEFINE list == v[5]
             head == h.objects[list].head
             p == [o EXCEPT !.result = head]
             made == Struct(h, p)
             owned == {c.at : c \in Of(h.objects, list)}
             rest == (roots \ {list}) \cup owned
             taken == {v[1], head} \ {NULL}
  <2>1. Len(v) = 5 /\ rhs[5] = "result_list"
        /\ \A j \in 1..Len(rhs) : rhs[j] \in Owning <=> j \in {1, 5}
    BY <1>4 DEF Values, Owning
  <2>2. /\ Taken(rhs, v) = {v[1], v[5]} \ {NULL}
        /\ Fits("opt_token", v[1], h.objects) /\ Fits("result_list", v[5], h.objects)
        /\ v[1] # NULL => v[1] \in roots
        /\ v[5] # NULL => v[5] \in roots
        /\ v[1] = v[5] => v[1] = NULL
    <3>1. 1 \in 1..Len(rhs) /\ 5 \in 1..Len(rhs) /\ 1 # 5
      BY <1>4
    <3>2. /\ Taken(rhs, v) = {v[1], v[5]} \ {NULL}
          /\ Fits(rhs[1], v[1], h.objects) /\ Fits(rhs[5], v[5], h.objects)
          /\ v[1] # NULL => v[1] \in roots
          /\ v[5] # NULL => v[5] \in roots
          /\ v[1] = v[5] => v[1] = NULL
      BY <2>1, <3>1, TwoTaken
    <3> QED BY <2>1, <3>2
  <2>3. /\ v[1] # NULL => h.objects[v[1]].type = "text"
        /\ list \in roots /\ h.objects[list].type = "result_list"
        /\ list # NULL /\ v[1] # list
    BY <2>2 DEF Fits, TypeOf, Nullable
  <2>4. /\ owned = {head} \ {NULL}
        /\ head \notin roots
        /\ head # NULL => h.objects[head].type = "result"
    BY <2>3, HeadFacts
  <2>5. p.type = symbol /\ p.token = v[1] /\ p.result = head
    OBVIOUS
  <2>6. d = [made EXCEPT !.heap = Free(made.heap, list)]
    BY <2>1 DEF Record
  <2>7. DOMAIN made = {"at", "heap"}
    BY StructFacts, GoodHeap DEF Good
  <2> HIDE DEF p, d
  <2>8. d.at = made.at /\ d.heap = Free(made.heap, list)
    <3> HIDE DEF made
    <3> QED BY <2>6, <2>7
  <2>9. Takes(p, h.objects, rest, taken)
    <3>1. v[1] # NULL => v[1] \in rest /\ h.objects[v[1]].type = "text"
      BY <2>2, <2>3
    <3>2. head # NULL => head \in rest /\ h.objects[head].type = "result"
      BY <2>4
    <3>3. v[1] = head => v[1] = NULL
      BY <2>2, <2>4
    <3>4. WellFormed(p)
      BY <1>2, <2>5
    <3> HIDE DEF rest, head
    <3> QED BY <2>5, <3>1, <3>2, <3>3, <3>4, TakesRecord
  <2>10. owned \subseteq taken
    BY <2>4
  <2>11. Becomes(h, Free(made.heap, list), roots \ (taken \cup {list}), made.at, p)
    <3> HIDE DEF taken, list
    <3> QED BY <2>3, <2>9, <2>10, StructFreeIsSound
  <2>12. roots \ (taken \cup {list}) = roots \ Taken(rhs, v)
    <3>1. NULL \notin roots
      BY GoodHeap DEF NULL
    <3> QED BY <2>2, <2>4, <3>1
  <2>13. Becomes(h, d.heap, roots \ Taken(rhs, v), d.at, p)
    <3> HIDE DEF made, taken
    <3> QED BY <2>8, <2>11, <2>12
  <2> QED BY <1>1, <2>5, <2>13, BecomesEnds
<1> QED BY <1>3, <1>4

\* The actions that allocate and free nothing.
LEMMA ValueMoves ==
    ASSUME NEW rhs, NEW v, NEW h, NEW roots, Good(h, roots),
           Values(rhs, v, h.objects, roots), NEW symbol, NEW p,
           \/ /\ \A j \in 1..Len(rhs) : rhs[j] \notin Owning
              /\ symbol \notin Owning \/ (p = NULL /\ symbol \in Nullable)
           \/ /\ \A j \in 1..Len(rhs) : rhs[j] \in Owning <=> j = 1
              /\ Len(rhs) >= 1 /\ p = v[1]
              /\ symbol \in Nullable /\ symbol \in Owning
              /\ TypeOf(symbol) = TypeOf(rhs[1])
              /\ symbol \notin {"result", "output_variant"}
    PROVE  Ends(symbol, p, h, h, roots \ Taken(rhs, v))
<1>0. Len(rhs) \in Nat /\ Len(v) = Len(rhs)
  BY DEF Values, IsSequence
<1>1. CASE /\ \A j \in 1..Len(rhs) : rhs[j] \notin Owning
           /\ symbol \notin Owning \/ (p = NULL /\ symbol \in Nullable)
  <2>1. Taken(rhs, v) = {} /\ Held(symbol, p) = {}
    BY <1>0, <1>1, NoneTaken DEF Held
  <2>2. symbol \in Owning => Fits(symbol, p, h.objects)
    BY <1>1 DEF Fits
  <2> QED BY <2>1, <2>2, MoveEnds
<1>2. CASE /\ \A j \in 1..Len(rhs) : rhs[j] \in Owning <=> j = 1
           /\ Len(rhs) >= 1 /\ p = v[1]
           /\ symbol \in Nullable /\ symbol \in Owning
           /\ TypeOf(symbol) = TypeOf(rhs[1])
           /\ symbol \notin {"result", "output_variant"}
  <2>1. /\ Taken(rhs, v) = {v[1]} \ {NULL}
        /\ Fits(rhs[1], v[1], h.objects)
        /\ v[1] # NULL => v[1] \in roots
    BY <1>0, <1>2, OneTaken
  <2>2. Taken(rhs, v) = Held(symbol, p) /\ Taken(rhs, v) \subseteq roots
    BY <1>2, <2>1 DEF Held
  <2>3. Fits(symbol, p, h.objects)
    BY <1>2, <2>1 DEF Fits
  <2> QED BY <2>2, <2>3, MoveEnds
<1> QED BY <1>1, <1>2

\* The result of a tuple or a list: the results, without their list.
LEMMA TakeHeadEnds ==
    ASSUME NEW rhs, NEW v, NEW h, NEW roots, Good(h, roots),
           Values(rhs, v, h.objects, roots),
           NEW symbol \in {"tuple", "list"},
           2 \in 1..Len(rhs), rhs[2] = "result_list",
           \A j \in 1..Len(rhs) : rhs[j] \in Owning <=> j = 2
    PROVE  LET d == TakeHead(h, v[2])
           IN Ends(symbol, d.at, h, d.heap, roots \ Taken(rhs, v))
<1> DEFINE list == v[2]
           head == h.objects[list].head
           g == Free(h, list)
           owned == {c.at : c \in Of(h.objects, list)}
           kept == roots \ Taken(rhs, v)
<1> SUFFICES Ends(symbol, head, h, g, kept)
  BY DEF TakeHead
<1>2. /\ Taken(rhs, v) = {list} \ {NULL}
      /\ Fits("result_list", list, h.objects)
      /\ list # NULL => list \in roots
  BY OneTaken
<1>3. list \in roots /\ h.objects[list].type = "result_list" /\ list # NULL
  BY <1>2 DEF Fits, Nullable, TypeOf
<1>4. /\ owned = {head} \ {NULL}
      /\ head \notin roots
      /\ head # NULL => h.objects[head].type = "result"
  <2> HIDE DEF list
  <2> QED BY <1>3, HeadFacts
<1>5. /\ Good(g, (roots \ {list}) \cup owned)
      /\ DOMAIN g.objects = DOMAIN h.objects \ {list}
      /\ \A c \in Of(h.objects, list) : c.at \in DOMAIN g.objects
      /\ \A q \in DOMAIN g.objects : g.objects[q] = h.objects[q]
  BY <1>3, FreeIsSound
<1>6. Held(symbol, head) = {head} \ {NULL} /\ TypeOf(symbol) = "result"
      /\ symbol \in Nullable /\ symbol \notin {"result", "output_variant"}
  BY DEF Held, TypeOf, Owning, Nullable
<1>7. kept = roots \ {list} /\ kept \subseteq DOMAIN g.objects
  BY <1>2, <1>3, <1>5, GoodHeap
<1>8. head # NULL => head \in DOMAIN g.objects
  <2>1. owned \subseteq DOMAIN g.objects
    <3> HIDE DEF g
    <3> QED BY <1>5
  <2> HIDE DEF g, owned, head
  <2> QED BY <1>4, <2>1
<1> HIDE DEF g, owned, head, list, kept
<1>9. Fits(symbol, head, g.objects)
  BY <1>4, <1>5, <1>6, <1>8 DEF Fits
<1>10. Done(symbol, head, h, g, kept)
  BY <1>4, <1>5, <1>6, <1>7, <1>9 DEF Done
<1> QED BY <1>5, <1>10 DEF Ends, Good

\* The actions of result_list put a result at the end of the list.
LEMMA ResultListEnds ==
    ASSUME NEW r \in Rules, r.lhs = "result_list", NEW v, NEW h, NEW roots,
           Good(h, roots), Values(r.rhs, v, h.objects, roots)
    PROVE  LET d == ResultListOf(v, h)
           IN Ends(r.lhs, d.at, h, d.heap, roots \ Taken(r.rhs, v))
<1> DEFINE d == ResultListOf(v, h)
           kept == roots \ Taken(r.rhs, v)
<1> SUFFICES Ends(r.lhs, d.at, h, d.heap, kept)
  OBVIOUS
<1>1. r.lhs \in Owning /\ TypeOf(r.lhs) = "result_list"
  BY DEF Owning, TypeOf
<1>2. CASE r.rhs = <<"result">>
  <2> DEFINE made == ResultListAlloc(h)
             list == made.at
             g == PushBack(made.heap, list, v[1])
  <2>1. Len(r.rhs) = 1 /\ Len(v) = 1 /\ r.rhs[1] = "result"
        /\ \A j \in 1..Len(r.rhs) : r.rhs[j] \in Owning <=> j = 1
    BY <1>2 DEF Values, Owning
  <2>2. /\ Taken(r.rhs, v) = {v[1]} \ {NULL}
        /\ Fits("result", v[1], h.objects)
        /\ v[1] # NULL => v[1] \in roots
    BY <2>1, OneTaken
  <2>3. /\ v[1] \in roots /\ h.objects[v[1]].type = "result"
        /\ h.objects[v[1]].next = NULL /\ v[1] # NULL
    BY <2>2 DEF Fits, Nullable, TypeOf
  <2>4. Becomes(h, made.heap, roots, list, ResultList(list))
    BY ResultListAllocIsSound
  <2>5. d = Unchanged(list, IF made.heap.crashed THEN made.heap ELSE g)
    BY <2>1 DEF ResultListOf
  <2> HIDE DEF d, made
  <2>6. d.at = list /\ d.heap = IF made.heap.crashed THEN made.heap ELSE g
    <3> HIDE DEF g, list
    <3> QED BY <2>5 DEF Unchanged
  <2>7. CASE made.heap.crashed
    BY <2>4, <2>6, <2>7 DEF Ends, Becomes
  <2>8. CASE ~made.heap.crashed
    <3>1. /\ list \in Nat \ {0} /\ list \notin roots
          /\ Good(made.heap, roots \cup {list})
          /\ made.heap.objects[list] = ResultList(list)
          /\ \A q \in roots : made.heap.objects[q] = h.objects[q]
      BY <2>4, <2>8 DEF Becomes
    <3>2. made.heap.objects[list].type = "result_list"
      BY <3>1 DEF ResultList
    <3>3. made.heap.objects[v[1]] = h.objects[v[1]]
      BY <2>3, <3>1
    <3> DEFINE all == roots \cup {list}
    <3>0. /\ DOMAIN made.heap = HeapFields /\ Sound(made.heap.objects, all)
          /\ list \in all /\ v[1] \in all
          /\ made.heap.objects[v[1]].type = "result"
          /\ made.heap.objects[v[1]].next = NULL
      BY <2>3, <3>1, <3>3 DEF Good
    <3>4. /\ DOMAIN g = HeapFields
          /\ g.undefined = made.heap.undefined
          /\ Sound(g.objects, (roots \cup {list}) \ {v[1]})
          /\ \A q \in (roots \cup {list}) \ {list} :
                g.objects[q] = made.heap.objects[q]
          /\ g.objects[list].type = "result_list"
      <4> HIDE DEF all, list
      <4>1. /\ DOMAIN g = HeapFields
            /\ g.undefined = made.heap.undefined
            /\ Sound(g.objects, all \ {v[1]})
            /\ \A q \in all \ {list} : g.objects[q] = made.heap.objects[q]
            /\ g.objects[list].type = "result_list"
        <5>1. Pushed(made.heap, g, all, list, v[1])
          BY <3>0, <3>2, PushBackIsSound
        <5> HIDE DEF g
        <5> QED BY <5>1 DEF Pushed
      <4> QED BY <4>1 DEF all
    <3> HIDE DEF g, list
    <3>5. (roots \cup {list}) \ {v[1]} = kept \cup {list}
      BY <2>2, <2>3, <3>1
    <3>6. Good(g, kept \cup {list})
      BY <3>1, <3>4, <3>5 DEF Good
    <3>7. Held(r.lhs, list) = {list} /\ list # NULL /\ list \notin kept
      BY <1>1, <3>1 DEF Held, NULL
    <3>8. \A q \in kept : g.objects[q] = h.objects[q]
      BY <3>1, <3>4
    <3>9. Fits(r.lhs, list, g.objects)
      BY <1>1, <3>4, <3>7 DEF Fits
    <3> HIDE DEF kept
    <3>10. Done(r.lhs, list, h, g, kept)
      BY <3>6, <3>7, <3>8, <3>9 DEF Done
    <3> QED BY <2>6, <2>8, <3>4, <3>10 DEF Ends
  <2> QED BY <2>7, <2>8
<1>3. CASE r.rhs = <<"result_list", "COMMA", "result">>
  <2> DEFINE list == v[1]
             g == PushBack(h, list, v[3])
  <2>1. /\ Len(r.rhs) = 3 /\ Len(v) = 3
        /\ r.rhs[1] = "result_list" /\ r.rhs[3] = "result"
        /\ \A j \in 1..Len(r.rhs) : r.rhs[j] \in Owning <=> j \in {1, 3}
    BY <1>3 DEF Values, Owning
  <2>2. /\ Taken(r.rhs, v) = {v[1], v[3]} \ {NULL}
        /\ Fits("result_list", v[1], h.objects) /\ Fits("result", v[3], h.objects)
        /\ v[1] # NULL => v[1] \in roots
        /\ v[3] # NULL => v[3] \in roots
    <3> DEFINE rhs == r.rhs
    <3>1. 1 \in 1..Len(rhs) /\ 3 \in 1..Len(rhs) /\ 1 # 3
      BY <2>1
    <3>2. /\ \A j \in 1..Len(rhs) : rhs[j] \in Owning <=> j \in {1, 3}
          /\ Values(rhs, v, h.objects, roots)
      BY <2>1
    <3> HIDE DEF rhs
    <3>3. /\ Taken(rhs, v) = {v[1], v[3]} \ {NULL}
          /\ Fits(rhs[1], v[1], h.objects) /\ Fits(rhs[3], v[3], h.objects)
          /\ v[1] # NULL => v[1] \in roots
          /\ v[3] # NULL => v[3] \in roots
      BY <3>1, <3>2, TwoTaken
    <3> QED BY <2>1, <3>3 DEF rhs
  <2>3. /\ v[3] \in roots /\ h.objects[v[3]].type = "result"
        /\ h.objects[v[3]].next = NULL /\ v[3] # NULL
        /\ list \in roots /\ h.objects[list].type = "result_list"
        /\ list # NULL
    BY <2>2 DEF Fits, Nullable, TypeOf
  <2>4. /\ DOMAIN g = HeapFields
        /\ g.undefined = h.undefined
        /\ Sound(g.objects, roots \ {v[3]})
        /\ \A q \in roots \ {list} : g.objects[q] = h.objects[q]
        /\ g.objects[list].type = "result_list"
    <3>1. DOMAIN h = HeapFields /\ Sound(h.objects, roots)
      BY DEF Good
    <3> HIDE DEF list
    <3>2. Pushed(h, g, roots, list, v[3])
      BY <2>3, <3>1, PushBackIsSound
    <3> HIDE DEF g
    <3> QED BY <3>2 DEF Pushed
  <2>5. d.at = list /\ d.heap = g
    <3>1. d = Unchanged(list, g)
      BY <2>1 DEF ResultListOf
    <3> HIDE DEF d, g, list
    <3> QED BY <3>1 DEF Unchanged
  <2> HIDE DEF g, list, d
  <2>6. v[3] # list
    BY <2>3
  <2>7. roots \ {v[3]} = kept \cup {list} /\ list \notin kept
    BY <2>2, <2>3, <2>6 DEF list
  <2>8. Good(g, kept \cup {list})
    BY <2>4, <2>7 DEF Good
  <2>9. Held(r.lhs, list) = {list}
    BY <1>1, <2>3 DEF Held
  <2>10. \A q \in kept : g.objects[q] = h.objects[q]
    BY <2>4, <2>7
  <2>11. Fits(r.lhs, list, g.objects)
    BY <1>1, <2>3, <2>4 DEF Fits
  <2> HIDE DEF kept
  <2>12. Done(r.lhs, list, h, g, kept)
    BY <2>7, <2>8, <2>9, <2>10, <2>11 DEF Done
  <2> QED BY <2>4, <2>5, <2>12 DEF Ends
<1> QED BY <1>2, <1>3, TreeRules

\* An allocation that is used without looking.
LEMMA StructEnds ==
    ASSUME NEW h, NEW roots, Good(h, roots), NEW o, NEW taken,
           Takes(o, h.objects, roots, taken),
           NEW symbol \in Owning, o.type = TypeOf(symbol),
           symbol = "result" => o.next = NULL,
           symbol = "output_variant" => o.line = NULL
    PROVE  Ends(symbol, Struct(h, o).at, h, Struct(h, o).heap, roots \ taken)
<1>1. Becomes(h, Struct(h, o).heap, roots \ taken, Struct(h, o).at, o)
  BY StructIsSound
<1> QED BY <1>1, BecomesEnds

\* The actions that copy the lexer's text.
LEMMA LeafEnds ==
    ASSUME NEW h, NEW roots, Good(h, roots), NEW text,
           NEW symbol \in {"variable", "token", "cstring"}
    PROVE  LET d == IF symbol = "cstring" THEN Struct(h, Text(text))
                    ELSE Malloc(h, Text(text))
           IN Ends(symbol, d.at, h, d.heap, roots)
<1> DEFINE o == Text(text)
           m == Malloc(h, o)
<1>1. /\ o.type = TypeOf(symbol) /\ symbol \in Owning
      /\ symbol \notin {"result", "output_variant"}
  BY DEF Text, TypeOf, Owning
<1>2. Takes(o, h.objects, roots, {})
  BY TakesText
<1>3. roots \ {} = roots
  OBVIOUS
<1> HIDE DEF o
<1>4. CASE symbol = "cstring"
  <2>1. Ends(symbol, Struct(h, o).at, h, Struct(h, o).heap, roots \ {})
    BY <1>1, <1>2, StructEnds
  <2> QED BY <1>3, <1>4, <2>1 DEF o
<1>5. CASE symbol # "cstring"
  <2>1. /\ DOMAIN m.heap = HeapFields
        /\ m.at = NULL => /\ Good(m.heap, roots)
                          /\ m.heap.objects = h.objects
        /\ m.at # NULL => Becomes(h, m.heap, roots, m.at, o)
    BY <1>2, MallocIsSound
  <2> HIDE DEF m
  <2>2. Ends(symbol, m.at, h, m.heap, roots)
    <3>1. CASE m.at # NULL
      BY <1>1, <2>1, <3>1, BecomesEnds
    <3>2. CASE m.at = NULL
      <4>1. Held(symbol, m.at) = {} /\ Fits(symbol, m.at, m.heap.objects)
        BY <1>5, <3>2 DEF Held, Fits, Nullable
      <4>2. Done(symbol, m.at, h, m.heap, roots)
        BY <2>1, <3>2, <4>1 DEF Done
      <4> QED BY <2>1, <4>2 DEF Ends
    <3> QED BY <3>1, <3>2
  <2> QED BY <1>5, <2>2 DEF m, o
<1> QED BY <1>4, <1>5

\* What any semantic action does but that of a line's end.
LEMMA ActionEnds ==
    ASSUME NEW r \in Rules, r.rhs # <<"output_variant", "NEWLINE">>,
           NEW v, NEW h, NEW roots, NEW text,
           Good(h, roots), Values(r.rhs, v, h.objects, roots)
    PROVE  LET d == Action(r, v, h, text)
           IN Ends(r.lhs, d.at, h, d.heap, roots \ Taken(r.rhs, v))
<1> DEFINE d == Action(r, v, h, text)
           kept == roots \ Taken(r.rhs, v)
<1> SUFFICES Ends(r.lhs, d.at, h, d.heap, kept)
  OBVIOUS
<1>0. Len(v) = Len(r.rhs) /\ IsSequence(v) /\ roots \ {} = roots
  BY DEF Values
<1>1. CASE r.lhs = "output_variant"
  <2>1. d = OutputVariant(r, v, h)
    BY <1>1 DEF Action
  <2> HIDE DEF d
  <2> QED BY <1>1, <2>1, OutputVariantEnds
<1>2. CASE r.lhs = "result_record"
  <2> DEFINE o == ResultRecord(v[1], v[3], NULL)
  <2>1. d = Record(h, v, o)
    BY <1>2 DEF Action
  <2>2. /\ o.type = r.lhs /\ {"type", "token", "result"} \subseteq DOMAIN o
        /\ o.token = v[1] /\ o.result = NULL
    BY <1>2 DEF ResultRecord
  <2>3. /\ Len(r.rhs) \in {3, 5} /\ r.rhs[1] = "opt_token"
        /\ r.rhs[2] \notin Owning /\ r.rhs[3] \notin Owning
        /\ Len(r.rhs) = 5 => r.rhs[4] = "COMMA" /\ r.rhs[5] = "result_list"
    BY <1>2, TreeRules DEF Owning
  <2> HIDE DEF d, o
  <2> QED BY <1>2, <2>1, <2>2, <2>3, RecordEnds
<1>3. CASE r.lhs = "async_record"
  <2> DEFINE o == AsyncRecord(v[1], v[2], v[3], NULL)
  <2>1. d = Record(h, v, o)
    BY <1>3 DEF Action
  <2>2. /\ o.type = r.lhs /\ {"type", "token", "result"} \subseteq DOMAIN o
        /\ o.token = v[1] /\ o.result = NULL
    BY <1>3 DEF AsyncRecord
  <2>3. /\ Len(r.rhs) \in {3, 5} /\ r.rhs[1] = "opt_token"
        /\ r.rhs[2] \notin Owning /\ r.rhs[3] \notin Owning
        /\ Len(r.rhs) = 5 => r.rhs[4] = "COMMA" /\ r.rhs[5] = "result_list"
    BY <1>3, TreeRules DEF Owning
  <2> HIDE DEF d, o
  <2> QED BY <1>3, <2>1, <2>2, <2>3, RecordEnds
<1>4. CASE r.lhs = "oob_record"
  <2> DEFINE o == OobRecord(IF r.rhs[1] = "async_record" THEN "ASYNC"
                            ELSE "STREAM", v[1])
  <2>1. d = Struct(h, o)
    BY <1>4 DEF Action
  <2>2. /\ Len(r.rhs) = 1 /\ r.rhs[1] \in {"async_record", "stream_record"}
        /\ \A j \in 1..Len(r.rhs) : r.rhs[j] \in Owning <=> j = 1
    BY <1>4, TreeRules DEF Owning
  <2>3. /\ Taken(r.rhs, v) = {v[1]} \ {NULL}
        /\ Fits(r.rhs[1], v[1], h.objects)
        /\ v[1] # NULL => v[1] \in roots
    BY <2>2, OneTaken
  <2>4. v[1] \in roots /\ h.objects[v[1]].type = r.rhs[1]
    BY <2>2, <2>3 DEF Fits, Nullable, TypeOf
  <2>5. Takes(o, h.objects, roots, Taken(r.rhs, v))
    BY <2>2, <2>3, <2>4, TakesOobRecord
  <2>6. o.type = TypeOf(r.lhs) /\ r.lhs \in Owning
    BY <1>4 DEF OobRecord, TypeOf, Owning
  <2> HIDE DEF o, d
  <2> QED BY <1>4, <2>1, <2>5, <2>6, StructEnds
<1>5. CASE r.lhs = "stream_record"
  <2> DEFINE o == StreamRecord(v[1], v[2])
  <2>1. d = Struct(h, o)
    BY <1>5 DEF Action
  <2>2. /\ 2 \in 1..Len(r.rhs) /\ r.rhs[2] = "cstring"
        /\ \A j \in 1..Len(r.rhs) : r.rhs[j] \in Owning <=> j = 2
    <3>1. r.rhs = <<"stream_record_class", "cstring">>
      BY <1>5, TreeRules
    <3> QED BY <3>1 DEF Owning
  <2>3. /\ Taken(r.rhs, v) = {v[2]} \ {NULL}
        /\ Fits(r.rhs[2], v[2], h.objects)
        /\ v[2] # NULL => v[2] \in roots
    BY <2>2, OneTaken
  <2>4. v[2] \in roots /\ h.objects[v[2]].type = "text"
    BY <2>2, <2>3 DEF Fits, Nullable, TypeOf
  <2>5. Takes(o, h.objects, roots, Taken(r.rhs, v))
    BY <2>3, <2>4, TakesStreamRecord
  <2>6. o.type = TypeOf(r.lhs) /\ r.lhs \in Owning
    BY <1>5 DEF StreamRecord, TypeOf, Owning
  <2> HIDE DEF o, d
  <2> QED BY <1>5, <2>1, <2>5, <2>6, StructEnds
<1>6. CASE r.lhs \in {"opt_variable", "opt_token"}
  <2> DEFINE p == IF v = << >> THEN NULL ELSE v[1]
  <2>1. d.at = p /\ d.heap = h
    <3>1. d = Unchanged(p, h)
      BY <1>6 DEF Action
    <3> HIDE DEF d, p
    <3> QED BY <3>1 DEF Unchanged
  <2> HIDE DEF d
  <2>2. r.lhs \in Nullable /\ r.lhs \in Owning
    BY <1>6 DEF Nullable, Owning
  <2>3. CASE r.rhs = << >>
    <3>1. v = << >>
      BY <1>0, <2>3 DEF IsSequence
    <3>2. p = NULL /\ \A j \in 1..Len(r.rhs) : r.rhs[j] \notin Owning
      BY <2>3, <3>1
    <3> HIDE DEF p
    <3> QED BY <2>1, <2>2, <3>2, ValueMoves
  <2>4. CASE r.rhs # << >>
    <3>1. /\ Len(r.rhs) >= 1 /\ v # << >>
          /\ \A j \in 1..Len(r.rhs) : r.rhs[j] \in Owning <=> j = 1
          /\ TypeOf(r.lhs) = TypeOf(r.rhs[1])
      BY <1>0, <1>6, <2>4, TreeRules DEF Owning, TypeOf
    <3>2. p = v[1]
      BY <3>1
    <3>3. r.lhs \notin {"result", "output_variant"}
      BY <1>6
    <3> HIDE DEF p
    <3> QED BY <2>1, <2>2, <3>1, <3>2, <3>3, ValueMoves
  <2> QED BY <2>3, <2>4
<1>7. CASE r.lhs = "result_list"
  <2>1. d = ResultListOf(v, h)
    BY <1>7 DEF Action
  <2> HIDE DEF d
  <2> QED BY <1>7, <2>1, ResultListEnds
<1>8. CASE r.lhs = "result"
  <2> DEFINE kind == KindOfValue(r.rhs[2])
             o == Result(v[1], kind, v[2])
  <2>1. d = Struct(h, o)
    BY <1>8 DEF Action
  <2>2. /\ Len(r.rhs) = 2 /\ r.rhs[1] = "opt_variable"
        /\ r.rhs[2] \in {"cstring", "tuple", "list"}
    BY <1>8, TreeRules
  <2>3. /\ \A j \in 1..Len(r.rhs) : r.rhs[j] \in Owning <=> j \in {1, 2}
        /\ 1 \in 1..Len(r.rhs) /\ 2 \in 1..Len(r.rhs) /\ 1 # 2
    BY <2>2 DEF Owning
  <2>4. /\ Taken(r.rhs, v) = {v[1], v[2]} \ {NULL}
        /\ Fits(r.rhs[1], v[1], h.objects) /\ Fits(r.rhs[2], v[2], h.objects)
        /\ v[1] # NULL => v[1] \in roots
        /\ v[2] # NULL => v[2] \in roots
        /\ v[1] = v[2] => v[1] = NULL
    <3> DEFINE rhs == r.rhs
    <3>1. /\ \A j \in 1..Len(rhs) : rhs[j] \in Owning <=> j \in {1, 2}
          /\ 1 \in 1..Len(rhs) /\ 2 \in 1..Len(rhs) /\ 1 # 2
          /\ Values(rhs, v, h.objects, roots)
      BY <2>3
    <3> HIDE DEF rhs
    <3>2. /\ Taken(rhs, v) = {v[1], v[2]} \ {NULL}
          /\ Fits(rhs[1], v[1], h.objects) /\ Fits(rhs[2], v[2], h.objects)
          /\ v[1] # NULL => v[1] \in roots
          /\ v[2] # NULL => v[2] \in roots
          /\ v[1] = v[2] => v[1] = NULL
      BY <3>1, TwoTaken
    <3> QED BY <3>2 DEF rhs
  <2>5. /\ v[1] # NULL => h.objects[v[1]].type = "text"
        /\ v[2] # NULL => h.objects[v[2]].type =
                             IF kind = "CSTRING" THEN "text" ELSE "result"
    BY <2>2, <2>4 DEF Fits, TypeOf, KindOfValue
  <2>6. o.type = TypeOf(r.lhs) /\ r.lhs \in Owning /\ o.next = NULL
    BY <1>8 DEF Result, TypeOf, Owning
  <2>7. Takes(o, h.objects, roots, Taken(r.rhs, v))
    <3> HIDE DEF kind
    <3> QED BY <2>4, <2>5, TakesResult
  <2> HIDE DEF o, d
  <2> QED BY <1>8, <2>1, <2>6, <2>7, StructEnds
<1>9. CASE r.lhs \in {"variable", "token", "cstring"}
  <2>1. d = IF r.lhs = "cstring" THEN Struct(h, Text(text))
            ELSE Malloc(h, Text(text))
    BY <1>9 DEF Action
  <2>2. \A j \in 1..Len(r.rhs) : r.rhs[j] \notin Owning
    BY <1>9, TreeRules DEF Owning
  <2>3. kept = roots
    BY <1>0, <2>2, NoneTaken
  <2>4. Ends(r.lhs, d.at, h, d.heap, roots)
    <3> HIDE DEF d
    <3> QED BY <1>9, <2>1, LeafEnds
  <2> HIDE DEF d, kept
  <2> QED BY <2>3, <2>4
<1>10. CASE r.lhs \in {"tuple", "list"}
  <2>1. Len(r.rhs) = 2 \/ Len(r.rhs) = 3
    BY <1>10, TreeRules
  <2>2. CASE Len(r.rhs) = 2
    <3>1. d = Unchanged(NULL, h)
      BY <1>0, <1>10, <2>2 DEF Action
    <3> HIDE DEF d
    <3>2. d.at = NULL /\ d.heap = h
      BY <3>1 DEF Unchanged
    <3>3. \A j \in 1..Len(r.rhs) : r.rhs[j] \notin Owning
      <4>1. r.rhs \in {<<"OPEN_BRACE", "CLOSED_BRACE">>,
                       <<"OPEN_BRACKET", "CLOSED_BRACKET">>}
        BY <1>10, <2>2, TreeRules
      <4> QED BY <4>1 DEF Owning
    <3>4. r.lhs \in Nullable
      BY <1>10 DEF Nullable
    <3> QED BY <3>2, <3>3, <3>4, ValueMoves
  <2>3. CASE Len(r.rhs) = 3
    <3>1. d = TakeHead(h, v[2])
      BY <1>0, <1>10, <2>3 DEF Action
    <3>2. /\ 2 \in 1..Len(r.rhs) /\ r.rhs[2] = "result_list"
          /\ \A j \in 1..Len(r.rhs) : r.rhs[j] \in Owning <=> j = 2
      <4>1. r.rhs \in {<<"OPEN_BRACE", "result_list", "CLOSED_BRACE">>,
                       <<"OPEN_BRACKET", "result_list", "CLOSED_BRACKET">>}
        BY <1>10, <2>3, TreeRules
      <4> QED BY <4>1 DEF Owning
    <3>3. Ends(r.lhs, TakeHead(h, v[2]).at, h, TakeHead(h, v[2]).heap, kept)
      <4> DEFINE rhs == r.rhs
      <4>1. /\ 2 \in 1..Len(rhs) /\ rhs[2] = "result_list"
            /\ \A j \in 1..Len(rhs) : rhs[j] \in Owning <=> j = 2
            /\ Values(rhs, v, h.objects, roots)
            /\ kept = roots \ Taken(rhs, v)
        BY <3>2
      <4> DEFINE symbol == r.lhs
      <4>2. symbol \in {"tuple", "list"}
        BY <1>10
      <4> HIDE DEF rhs, kept, symbol
      <4>3. Ends(symbol, TakeHead(h, v[2]).at, h, TakeHead(h, v[2]).heap,
                 roots \ Taken(rhs, v))
        BY <4>1, <4>2, TakeHeadEnds
      <4> QED BY <4>1, <4>3 DEF symbol
    <3> HIDE DEF d, kept
    <3> QED BY <3>1, <3>3
  <2> QED BY <2>1, <2>2, <2>3
<1>11. CASE r.lhs \notin Owning
  <2>1. \A j \in 1..Len(r.rhs) : r.rhs[j] \notin Owning
    BY <1>11, PlainRules
  <2>2. d.heap = h
    <3>1. \E p : d = Unchanged(p, h)
      BY <1>11 DEF Action, Owning
    <3> HIDE DEF d
    <3> QED BY <3>1 DEF Unchanged
  <2> HIDE DEF d
  <2> QED BY <1>11, <2>1, <2>2, ValueMoves
<1> QED BY <1>1, <1>2, <1>3, <1>4, <1>5, <1>6, <1>7, <1>8, <1>9, <1>10, <1>11
        DEF Owning

-----------------------------------------------------------------------------
(* The values on the stack.                                                *)

\* The first n elements of a sequence.
LEMMA PrefixOf ==
    ASSUME NEW s, IsSequence(s), NEW n \in 0..Len(s)
    PROVE  /\ IsSequence(SubSeq(s, 1, n)) /\ Len(SubSeq(s, 1, n)) = n
           /\ \A i \in 1..n : SubSeq(s, 1, n)[i] = s[i]
<1>1. PICK S : s \in Seq(S)
  BY DEF IsSequence
<1>2. /\ SubSeq(s, 1, n) \in Seq(S) /\ Len(SubSeq(s, 1, n)) = n
      /\ \A i \in 1..n : SubSeq(s, 1, n)[i] = s[i]
  BY <1>1
<1> QED BY <1>2 DEF IsSequence

\* The elements of a sequence after its first n.
LEMMA SuffixOf ==
    ASSUME NEW s, IsSequence(s), NEW n \in 0..Len(s)
    PROVE  LET t == SubSeq(s, n + 1, Len(s))
           IN /\ IsSequence(t) /\ Len(t) = Len(s) - n
              /\ \A i \in 1..(Len(s) - n) : t[i] = s[n + i]
<1>1. PICK S : s \in Seq(S)
  BY DEF IsSequence
<1> DEFINE t == SubSeq(s, n + 1, Len(s))
<1>2. t \in Seq(S) /\ Len(t) = Len(s) - n
      /\ \A i \in 1..(Len(s) - n) : t[i] = s[n + i]
  BY <1>1
<1> QED BY <1>2 DEF IsSequence

\* The elements of a sequence with one more at its end.
LEMMA AppendTo ==
    ASSUME NEW s, IsSequence(s), NEW x
    PROVE  /\ IsSequence(Append(s, x)) /\ Len(Append(s, x)) = Len(s) + 1
           /\ Len(s) \in Nat
           /\ Append(s, x)[Len(s) + 1] = x
           /\ \A i \in 1..Len(s) : Append(s, x)[i] = s[i]
<1>1. PICK S : s \in Seq(S)
  BY DEF IsSequence
<1> DEFINE T == S \cup {x}
<1>2. s \in Seq(T) /\ x \in T
  BY <1>1
<1> HIDE DEF T
<1>3. /\ Append(s, x) \in Seq(T) /\ Len(Append(s, x)) = Len(s) + 1
      /\ Len(s) \in Nat
      /\ Append(s, x)[Len(s) + 1] = x
      /\ \A i \in 1..Len(s) : Append(s, x)[i] = s[i]
  BY <1>2
<1> QED BY <1>3 DEF IsSequence

\* A root is taken by the place of the stack that holds it.
LEMMA TakenIs ==
    ASSUME NEW s, NEW v, NEW p
    PROVE  p \in Taken(s, v) <=>
              \E i \in 1..Len(v) : s[i] \in Owning /\ v[i] = p /\ p # NULL
BY DEF Taken

\* The values of a stack, below its last k symbols and of those.
LEMMA SplitValues ==
    ASSUME NEW s, IsSequence(s), NEW v, NEW objects, NEW roots,
           Values(s, v, objects, roots), NEW n \in 0..Len(s)
    PROVE  LET lows == SubSeq(s, 1, n)
               low == SubSeq(v, 1, n)
               highs == SubSeq(s, n + 1, Len(s))
               high == SubSeq(v, n + 1, Len(v))
           IN /\ Values(lows, low, objects, roots)
              /\ Values(highs, high, objects, roots)
              /\ Taken(s, v) = Taken(lows, low) \cup Taken(highs, high)
              /\ Taken(lows, low) \cap Taken(highs, high) = {}
<1> DEFINE lows == SubSeq(s, 1, n)
           low == SubSeq(v, 1, n)
           highs == SubSeq(s, n + 1, Len(s))
           high == SubSeq(v, n + 1, Len(v))
           m == Len(s) - n
<1>1. /\ IsSequence(v) /\ Len(v) = Len(s) /\ Len(s) \in Nat
      /\ n \in 0..Len(v) /\ n \in Nat /\ m \in Nat /\ n + m = Len(s)
  <2>1. Len(s) \in Nat
    BY DEF IsSequence
  <2> QED BY <2>1 DEF Values
<1>2. /\ IsSequence(low) /\ Len(low) = n /\ Len(lows) = n
      /\ \A i \in 1..n : low[i] = v[i] /\ lows[i] = s[i]
  BY <1>1, PrefixOf
<1>3. /\ IsSequence(high) /\ Len(high) = m /\ Len(highs) = m
      /\ \A i \in 1..m : high[i] = v[n + i] /\ highs[i] = s[n + i]
  <2>1. /\ IsSequence(high) /\ Len(high) = Len(v) - n
        /\ \A i \in 1..(Len(v) - n) : high[i] = v[n + i]
    BY <1>1, SuffixOf
  <2>2. /\ IsSequence(highs) /\ Len(highs) = Len(s) - n
        /\ \A i \in 1..(Len(s) - n) : highs[i] = s[n + i]
    BY <1>1, SuffixOf
  <2> HIDE DEF low, lows, high, highs
  <2> QED BY <1>1, <2>1, <2>2
<1> HIDE DEF low, lows, high, highs, m
<1>4. \A i \in 1..n : i \in 1..Len(v)
  BY <1>1
<1>5. \A i \in 1..m : n + i \in 1..Len(v) /\ n + i > n
  BY <1>1
<1>6. \A i \in 1..Len(v) : i \in 1..n \/ (i - n \in 1..m /\ n + (i - n) = i)
  BY <1>1
<1>7. Values(lows, low, objects, roots)
  <2>1. ASSUME NEW j \in 1..Len(low), lows[j] \in Owning
        PROVE  Fits(lows[j], low[j], objects) /\ (low[j] # NULL => low[j] \in roots)
    BY <1>2, <1>4, <2>1 DEF Values
  <2>2. ASSUME NEW i \in 1..Len(low), NEW j \in 1..Len(low),
               lows[i] \in Owning, lows[j] \in Owning, low[i] = low[j],
               low[i] # NULL
        PROVE  i = j
    BY <1>2, <1>4, <2>2 DEF Values
  <2> QED BY <1>2, <2>1, <2>2 DEF Values
<1>8. Values(highs, high, objects, roots)
  <2>1. ASSUME NEW j \in 1..Len(high), highs[j] \in Owning
        PROVE  /\ Fits(highs[j], high[j], objects)
               /\ high[j] # NULL => high[j] \in roots
    BY <1>3, <1>5, <2>1 DEF Values
  <2>2. ASSUME NEW i \in 1..Len(high), NEW j \in 1..Len(high),
               highs[i] \in Owning, highs[j] \in Owning, high[i] = high[j],
               high[i] # NULL
        PROVE  i = j
    <3>1. n + i = n + j
      BY <1>3, <1>5, <2>2 DEF Values
    <3> QED BY <1>1, <1>3, <3>1
  <2> QED BY <1>3, <2>1, <2>2 DEF Values
<1>9. ASSUME NEW p
      PROVE  p \in Taken(s, v) <=> p \in Taken(lows, low) \/ p \in Taken(highs, high)
  <2>1. ASSUME p \in Taken(s, v)
        PROVE  p \in Taken(lows, low) \/ p \in Taken(highs, high)
    <3>1. PICK i \in 1..Len(v) : s[i] \in Owning /\ v[i] = p /\ p # NULL
      BY <2>1, TakenIs
    <3>2. CASE i \in 1..n
      BY <1>2, <3>1, <3>2, TakenIs
    <3>3. CASE i - n \in 1..m /\ n + (i - n) = i
      <4> DEFINE j == i - n
      <4>1. j \in 1..m /\ n + j = i
        BY <3>3
      <4> HIDE DEF j
      <4> QED BY <1>3, <3>1, <4>1, TakenIs
    <3>4. i \in 1..n \/ (i - n \in 1..m /\ n + (i - n) = i)
      BY <1>6
    <3> QED BY <3>2, <3>3, <3>4
  <2>2. ASSUME p \in Taken(lows, low) PROVE p \in Taken(s, v)
    BY <1>2, <1>4, <2>2, TakenIs
  <2>3. ASSUME p \in Taken(highs, high) PROVE p \in Taken(s, v)
    BY <1>3, <1>5, <2>3, TakenIs
  <2> QED BY <2>1, <2>2, <2>3
<1>10. ASSUME NEW p, p \in Taken(lows, low), p \in Taken(highs, high)
       PROVE  FALSE
  <2>1. PICK i \in 1..n : lows[i] \in Owning /\ low[i] = p /\ p # NULL
    BY <1>2, <1>10, TakenIs
  <2>2. PICK j \in 1..m : highs[j] \in Owning /\ high[j] = p
    BY <1>3, <1>10, TakenIs
  <2>3. i = n + j
    BY <1>2, <1>3, <1>4, <1>5, <2>1, <2>2 DEF Values
  <2> QED BY <1>1, <2>3
<1>11. /\ Taken(s, v) = Taken(lows, low) \cup Taken(highs, high)
       /\ Taken(lows, low) \cap Taken(highs, high) = {}
  BY <1>9, <1>10
<1> QED BY <1>7, <1>8, <1>11 DEF low, lows, high, highs

\* A symbol is pushed with its value, which nothing else on the stack owns.
LEMMA PushValue ==
    ASSUME NEW s, IsSequence(s), NEW v, NEW objects, NEW roots,
           Values(s, v, objects, roots), NEW y, NEW p,
           y \in Owning => Fits(y, p, objects),
           Held(y, p) \cap Taken(s, v) = {}, Held(y, p) \subseteq roots
    PROVE  /\ Values(Append(s, y), Append(v, p), objects, roots)
           /\ Taken(Append(s, y), Append(v, p)) = Taken(s, v) \cup Held(y, p)
<1> DEFINE t == Append(s, y)
           w == Append(v, p)
           n == Len(s)
<1>1. IsSequence(v) /\ Len(v) = n
  BY DEF Values
<1>2. /\ IsSequence(t) /\ Len(t) = n + 1 /\ n \in Nat /\ t[n + 1] = y
      /\ \A i \in 1..n : t[i] = s[i]
  BY AppendTo
<1>3. /\ IsSequence(w) /\ Len(w) = n + 1 /\ w[n + 1] = p
      /\ \A i \in 1..n : w[i] = v[i]
  BY <1>1, AppendTo
<1> HIDE DEF t, w, n
<1>4. \A i \in 1..(n + 1) : i \in 1..n \/ i = n + 1
  BY <1>2
<1>5. n + 1 \in 1..(n + 1) /\ n + 1 \notin 1..n /\ \A i \in 1..n : i \in 1..(n + 1)
  BY <1>2
<1>6. y \in Owning /\ p # NULL => p \in Held(y, p)
  BY DEF Held
<1>7. ASSUME NEW q
      PROVE  q \in Taken(t, w) <=> q \in Taken(s, v) \/ q \in Held(y, p)
  <2>1. q \in Held(y, p) <=> y \in Owning /\ q = p /\ q # NULL
    BY DEF Held
  <2>2. q \in Taken(t, w) <=>
           \E i \in 1..(n + 1) : t[i] \in Owning /\ w[i] = q /\ q # NULL
    BY <1>3, TakenIs
  <2>3. q \in Taken(s, v) <=>
           \E i \in 1..n : s[i] \in Owning /\ v[i] = q /\ q # NULL
    BY <1>1, TakenIs
  <2> QED BY <1>2, <1>3, <1>4, <1>5, <2>1, <2>2, <2>3
<1>8. ASSUME NEW j \in 1..Len(w), t[j] \in Owning
      PROVE  Fits(t[j], w[j], objects) /\ (w[j] # NULL => w[j] \in roots)
  <2>1. CASE j \in 1..n
    BY <1>1, <1>2, <1>3, <1>8, <2>1 DEF Values
  <2>2. CASE j = n + 1
    BY <1>2, <1>3, <1>6, <1>8, <2>2
  <2> QED BY <1>3, <1>4, <2>1, <2>2
<1>9. ASSUME NEW i \in 1..n, s[i] \in Owning, v[i] = p, p # NULL, y \in Owning
      PROVE  FALSE
  <2>1. p \in Taken(s, v)
    BY <1>1, <1>9, TakenIs
  <2> QED BY <1>6, <1>9, <2>1
<1>10. ASSUME NEW i \in 1..Len(w), NEW j \in 1..Len(w),
              t[i] \in Owning, t[j] \in Owning, w[i] = w[j], w[i] # NULL
       PROVE  i = j
  <2>1. CASE i \in 1..n /\ j \in 1..n
    BY <1>1, <1>2, <1>3, <1>10, <2>1 DEF Values
  <2>2. CASE i \in 1..n /\ j = n + 1
    BY <1>2, <1>3, <1>9, <1>10, <2>2
  <2>3. CASE i = n + 1 /\ j \in 1..n
    BY <1>2, <1>3, <1>9, <1>10, <2>3
  <2> QED BY <1>3, <1>4, <2>1, <2>2, <2>3
<1>11. Values(t, w, objects, roots)
  BY <1>2, <1>3, <1>8, <1>10 DEF Values
<1>12. Taken(t, w) = Taken(s, v) \cup Held(y, p)
  BY <1>7
<1> QED BY <1>11, <1>12 DEF t, w

\* The values stay as long as what they point to does.
LEMMA ValuesAgain ==
    ASSUME NEW s, NEW v, NEW objects, NEW roots, Values(s, v, objects, roots),
           NEW more, \A q \in Taken(s, v) : more[q] = objects[q],
           NEW others, Taken(s, v) \subseteq others
    PROVE  Values(s, v, more, others)
<1>1. ASSUME NEW j \in 1..Len(v), s[j] \in Owning
      PROVE  Fits(s[j], v[j], more) /\ (v[j] # NULL => v[j] \in others)
  <2>1. CASE v[j] = NULL
    BY <1>1, <2>1 DEF Values, Fits
  <2>2. CASE v[j] # NULL
    <3>1. v[j] \in Taken(s, v)
      BY <1>1, <2>2, TakenIs
    <3> QED BY <1>1, <2>2, <3>1 DEF Values, Fits
  <2> QED BY <2>1, <2>2
<1> QED BY <1>1 DEF Values

-----------------------------------------------------------------------------
(* The fields of an output that are set after its allocation.              *)

\* A root that is no list and no result changes in nothing that it owns.
LEMMA SoundSame ==
    ASSUME NEW objects, NEW roots, Sound(objects, roots),
           NEW q \in roots,
           objects[q].type \notin {"result", "result_list"},
           NEW more, DOMAIN more = DOMAIN objects,
           WellFormed(more[q]), more[q].type = objects[q].type,
           Of(more, q) = Of(objects, q),
           \A r \in DOMAIN objects \ {q} : more[r] = objects[r]
    PROVE  Sound(more, roots)
<1>1. \A r \in DOMAIN objects : Of(more, r) = Of(objects, r)
  BY DEF Of
<1>2. \A r \in DOMAIN objects :
         WellFormed(more[r]) /\ more[r].type = objects[r].type
  BY DEF Sound, Forest
<1>3. Forest(more, roots)
  <2>1. Forest(objects, roots)
    BY DEF Sound
  <2> QED BY <1>1, <1>2, <2>1 DEF Forest
<1>4. Rooted(more, roots)
  <2>1. Rooted(objects, roots)
    BY DEF Sound
  <2>2. ASSUME NEW T \in SUBSET DOMAIN objects, T # {}
        PROVE  \E x \in T :
                  \/ x \in roots
                  \/ \E r \in DOMAIN objects \ T :
                        \E c \in Of(more, r) : c.at = x
    <3>1. PICK x \in T : \/ x \in roots
                         \/ \E r \in DOMAIN objects \ T :
                               \E c \in Of(objects, r) : c.at = x
      BY <2>1, <2>2 DEF Rooted
    <3> QED BY <1>1, <3>1
  <2> QED BY <2>2 DEF Rooted
<1>5. \A L \in ListsOf(more) : L \in ListsOf(objects) /\ more[L] = objects[L]
  BY <1>2 DEF ListsOf
<1>6. ASSUME NEW L \in ListsOf(more)
      PROVE  Tailed(more, L)
  <2>1. Tailed(objects, L) /\ more[L] = objects[L]
    BY <1>5 DEF Sound, Lists
  <2>2. PICK S : Reaches(objects, L, S)
    BY <2>1 DEF Tailed
  <2>3. Reaches(more, L, S)
    BY <1>1, <2>1, <2>2 DEF Reaches
  <2>4. objects[L].tail \in DOMAIN objects
    BY <2>2 DEF Reaches
  <2> QED BY <2>1, <2>3, <2>4 DEF Tailed
<1>7. Lists(more)
  <2>1. Lists(objects)
    BY DEF Sound
  <2> QED BY <1>5, <1>6, <2>1 DEF Lists
<1> QED BY <1>3, <1>4, <1>7 DEF Sound

\* A field of the output q is set to the text at p, which was a root, or to
\* NULL.
Sets(h, g, q, f, p) ==
    /\ DOMAIN g = HeapFields /\ g.undefined = h.undefined
    /\ DOMAIN g.objects = DOMAIN h.objects
    /\ g.objects[q] = [h.objects[q] EXCEPT ![f] = p]
    /\ \A r \in DOMAIN h.objects \ {q} : g.objects[r] = h.objects[r]

\* A field of an output takes a text that was a root.
LEMMA SetIsSound ==
    ASSUME NEW h, NEW roots, Good(h, roots), NEW q \in roots,
           h.objects[q].type = "output",
           NEW f \in {"line", "variant"},
           f = "variant" => h.objects[q].kind = "PARSE_ERROR",
           h.objects[q][f] = NULL,
           NEW p, p # NULL => p \in roots \ {q} /\ h.objects[p].type = "text",
           NEW g, Sets(h, g, q, f, p)
    PROVE  /\ Good(g, roots \ ({p} \ {NULL}))
           /\ g.objects[q].type = "output"
           /\ f = "variant" => g.objects[q].line = h.objects[q].line
<1> DEFINE o == h.objects[q]
           n == g.objects[q]
           a == [type |-> "text", at |-> p, place |-> <<q, f>>]
<1>1. q \in DOMAIN h.objects /\ WellFormed(o)
      /\ Sound(h.objects, roots) /\ ~g.undefined
  BY DEF Good, Sound, Forest, Sets
<1>2. /\ DOMAIN o = {"type", "kind", "variant", "pos", "line", "next"}
      /\ o.kind \in {"OOB", "RESULT", "PROMPT", "PARSE_ERROR"}
  BY <1>1 DEF WellFormed
<1>3. n = [o EXCEPT ![f] = p]
  BY DEF Sets
<1> HIDE DEF o, n
<1>4. /\ DOMAIN n = {"type", "kind", "variant", "pos", "line", "next"}
      /\ n.type = "output" /\ n.kind = o.kind /\ n.next = o.next
      /\ f = "line" => n.line = p /\ n.variant = o.variant
      /\ f = "variant" => n.variant = p /\ n.line = o.line
  BY <1>2, <1>3 DEF o
<1>5. WellFormed(n)
  BY <1>1, <1>2, <1>4 DEF WellFormed, Types, o
<1>6. OutputFree(q, n) = OutputFree(q, o) \cup Call("text", p, <<q, f>>)
  <2>1. CASE f = "line"
    <3>1. o.line = NULL
      BY <2>1 DEF o
    <3> QED BY <1>2, <1>4, <2>1, <3>1 DEF OutputFree, Call
  <2>2. CASE f = "variant"
    <3>1. o.kind = "PARSE_ERROR" /\ o.variant = NULL
      BY <2>2 DEF o
    <3> QED BY <1>4, <2>2, <3>1 DEF OutputFree, Call
  <2> QED BY <2>1, <2>2
<1>7. /\ Of(h.objects, q) = OutputFree(q, o)
      /\ Of(g.objects, q) = OutputFree(q, n)
  BY <1>4 DEF Of, Frees, o, n
<1>8. CASE p = NULL
  <2>1. Of(g.objects, q) = Of(h.objects, q)
    BY <1>6, <1>7, <1>8 DEF Call
  <2>2. Sound(g.objects, roots)
    BY <1>1, <1>4, <1>5, <2>1, SoundSame DEF Sets, n
  <2>3. roots \ ({p} \ {NULL}) = roots
    BY <1>8
  <2>4. Good(g, roots \ ({p} \ {NULL}))
    BY <1>1, <2>2, <2>3 DEF Good, Sets
  <2> QED BY <1>4, <2>4 DEF n, o
<1>9. CASE p # NULL
  <2>1. Of(g.objects, q) = Of(h.objects, q) \cup {a}
    BY <1>6, <1>7, <1>9 DEF Call
  <2>2. a.at = p /\ a.type = "text"
    OBVIOUS
  <2> HIDE DEF a
  <2>3. Sound(g.objects, roots \ {a.at})
    BY <1>1, <1>4, <1>5, <1>9, <2>1, <2>2, SoundRootIsTaken DEF Sets, n
  <2>4. roots \ ({p} \ {NULL}) = roots \ {a.at}
    BY <1>9, <2>2
  <2>5. Good(g, roots \ ({p} \ {NULL}))
    BY <1>1, <2>3, <2>4 DEF Good, Sets
  <2> QED BY <1>4, <2>5 DEF n, o
<1> QED BY <1>8, <1>9

-----------------------------------------------------------------------------
(* Errors.                                                                 *)

\* The parse error that gdbwire_mi_error reports.
LEMMA ReportEnds ==
    ASSUME NEW h, NEW roots, Good(h, roots), ~h.crashed
    PROVE  Ends("output_variant", Report(h).at, h, Report(h).heap, roots)
<1> DEFINE o == Output("PARSE_ERROR", NULL, lexed.pos)
           made == Struct(h, o)
           q == made.at
           m == made.heap
           token == Malloc(m, Text(lexed.text))
           p == token.at
           t == token.heap
           g == [t EXCEPT !.objects[q].variant = p]
           with == roots \cup {q}
<1>0. "output_variant" \in Owning /\ TypeOf("output_variant") = "output"
  BY DEF Owning, TypeOf
<1>1. /\ o.type = "output" /\ o.kind = "PARSE_ERROR" /\ o.variant = NULL
      /\ o.line = NULL
  BY DEF Output
<1>2. Becomes(h, m, roots, q, o)
  <2>1. Takes(o, h.objects, roots, {})
    <3>1. Takes(o, h.objects, roots, {NULL} \ {NULL})
      BY TakesOutput
    <3>2. {NULL} \ {NULL} = {}
      OBVIOUS
    <3> HIDE DEF o
    <3> QED BY <3>1, <3>2
  <2> HIDE DEF o
  <2>2. Becomes(h, Struct(h, o).heap, roots \ {}, Struct(h, o).at, o)
    BY <2>1, StructIsSound
  <2>3. roots \ {} = roots
    OBVIOUS
  <2> QED BY <2>2, <2>3
<1>3. Report(h) = IF m.crashed THEN made ELSE Unchanged(q, g)
  BY DEF Report
<1> HIDE DEF o, made
<1>4. CASE m.crashed
  BY <1>2, <1>3, <1>4 DEF Ends, Becomes
<1>5. CASE ~m.crashed
  <2>1. /\ q \in Nat \ {0} /\ q \notin roots /\ Good(m, with)
        /\ m.objects[q] = o
        /\ \A r \in roots : m.objects[r] = h.objects[r]
    BY <1>2, <1>5 DEF Becomes
  <2>2. Takes(Text(lexed.text), m.objects, with, {})
    BY TakesText
  <2> HIDE DEF with
  <2>3. /\ DOMAIN t = HeapFields /\ t.crashed = m.crashed
        /\ p = NULL => Good(t, with) /\ t.objects = m.objects
        /\ p # NULL => Becomes(m, t, with, p, Text(lexed.text))
    BY <2>1, <2>2, MallocIsSound
  <2> DEFINE more == with \cup ({p} \ {NULL})
  <2>4. /\ Good(t, more)
        /\ p # NULL => p \notin with /\ t.objects[p].type = "text"
        /\ \A r \in with : t.objects[r] = m.objects[r]
    <3>1. CASE p = NULL
      <4>1. more = with
        BY <3>1
      <4> HIDE DEF more, token
      <4> QED BY <2>3, <3>1, <4>1
    <3>2. CASE p # NULL
      <4>1. more = with \cup {p}
        BY <3>2
      <4>2. Text(lexed.text).type = "text"
        BY DEF Text
      <4> HIDE DEF more, token
      <4> QED BY <1>5, <2>3, <3>2, <4>1, <4>2 DEF Becomes
    <3> QED BY <3>1, <3>2
  <2> HIDE DEF token
  <2>5. q \in with /\ q \in DOMAIN t.objects
    <3>1. q \in with
      BY DEF with
    <3>2. more \subseteq DOMAIN t.objects
      BY <2>4, GoodHeap
    <3> QED BY <3>1, <3>2
  <2>6. Sets(t, g, q, "variant", p) /\ g.crashed = t.crashed
    <3> DEFINE n == [t.objects[q] EXCEPT !.variant = p]
               objects == [t.objects EXCEPT ![q] = n]
    <3>1. g = [t EXCEPT !.objects = objects]
      OBVIOUS
    <3>2. /\ DOMAIN objects = DOMAIN t.objects
          /\ objects[q] = n
          /\ \A r \in DOMAIN t.objects \ {q} : objects[r] = t.objects[r]
      BY <2>5
    <3>3. n = [t.objects[q] EXCEPT !["variant"] = p]
      OBVIOUS
    <3> HIDE DEF objects, n, g
    <3>4. /\ DOMAIN g = HeapFields /\ g.undefined = t.undefined
          /\ g.crashed = t.crashed /\ g.objects = objects
      BY <2>3, <3>1 DEF HeapFields
    <3> QED BY <3>2, <3>3, <3>4 DEF Sets
  <2> HIDE DEF g
  <2>7. t.objects[q] = o
    BY <2>1, <2>4, <2>5
  <2>8. q \in more /\ (p # NULL => p \in more \ {q})
    BY <2>4, <2>5
  <2>9. /\ Good(g, more \ ({p} \ {NULL})) /\ g.objects[q].type = "output"
        /\ g.objects[q].line = NULL
    <3> HIDE DEF more
    <3> DEFINE f == "variant"
    <3>2. /\ t.objects[q].type = "output" /\ t.objects[q].kind = "PARSE_ERROR"
          /\ t.objects[q][f] = NULL /\ f \in {"line", "variant"}
          /\ Sets(t, g, q, f, p)
      BY <1>1, <2>6, <2>7
    <3>3. f = "variant"
      OBVIOUS
    <3>4. Good(t, more) /\ (p # NULL => p \in more \ {q} /\ t.objects[p].type = "text")
      BY <2>4, <2>8
    <3> HIDE DEF f, t, p
    <3>1. /\ Good(g, more \ ({p} \ {NULL})) /\ g.objects[q].type = "output"
          /\ g.objects[q].line = t.objects[q].line
      BY <2>8, <3>2, <3>3, <3>4, SetIsSound
    <3> QED BY <1>1, <2>7, <3>1
  <2>10. more \ ({p} \ {NULL}) = with
    BY <2>4
  <2>11. Held("output_variant", q) = {q} /\ q # NULL
    BY <1>0, <2>1 DEF Held, NULL
  <2>12. \A r \in roots : g.objects[r] = h.objects[r]
    <3>1. \A r \in roots : r \in with /\ r # q /\ r \in DOMAIN t.objects
      <4>1. more \subseteq DOMAIN t.objects
        BY <2>4, GoodHeap
      <4> QED BY <2>1, <4>1 DEF with
    <3> QED BY <2>1, <2>4, <2>6, <3>1 DEF Sets
  <2>13. Done("output_variant", q, h, g, roots)
    <3>1. Good(g, roots \cup {q})
      BY <2>9, <2>10 DEF with
    <3>2. Fits("output_variant", q, g.objects)
      BY <1>0, <2>9, <2>11 DEF Fits
    <3> QED BY <2>1, <2>11, <2>12, <3>1, <3>2 DEF Done
  <2>14. Report(h).at = q /\ Report(h).heap = g
    BY <1>3, <1>5 DEF Unchanged
  <2> QED BY <2>6, <2>13, <2>14 DEF Ends, Sets
<1> QED BY <1>4, <1>5

-----------------------------------------------------------------------------
(* The invariant.                                                          *)

\* The outputs of the program: that of the line, those of the callbacks that
\* run, and those that are lost.
Others(o, pend, l) == ({o} \cup {pend[i].out : i \in 1..Len(pend)} \cup l) \ {NULL}

OthersFit(o, pend, l, objects) ==
    /\ IsSequence(pend)
    /\ o # NULL => objects[o].type = "output" /\ objects[o].line = NULL
    /\ \A i \in 1..Len(pend) :
          /\ pend[i].out # NULL /\ objects[pend[i].out].type = "output"
          /\ pend[i].out # o /\ pend[i].out \notin l
    /\ \A i, j \in 1..Len(pend) : pend[i].out = pend[j].out => i = j
    /\ NULL \notin l /\ o \notin l

\* The heap holds what the values of the stack and the outputs own, and each of
\* them owns what no other does.
Tree(s, v, h, o, pend, l) ==
    /\ IsSequence(s)
    /\ Good(h, Taken(s, v) \cup Others(o, pend, l))
    /\ Values(s, v, h.objects, Taken(s, v))
    /\ Taken(s, v) \cap Others(o, pend, l) = {}
    /\ OthersFit(o, pend, l, h.objects)

TreeInv ==
    /\ PushInv
    /\ \/ heap.crashed
       \/ /\ ~inLine => out = NULL
          /\ out # NULL => output # NoOutput
          /\ Tree(stack, values, heap, out, pending, lost)

\* The outputs depend on nothing of the heap but themselves.
LEMMA OthersFitAgain ==
    ASSUME NEW o, NEW pend, NEW l, NEW objects, OthersFit(o, pend, l, objects),
           NEW more, \A q \in Others(o, pend, l) : more[q] = objects[q]
    PROVE  OthersFit(o, pend, l, more)
<1>1. o # NULL => more[o] = objects[o]
  BY DEF Others
<1>2. \A i \in 1..Len(pend) : more[pend[i].out] = objects[pend[i].out]
  BY DEF Others, OthersFit
<1> QED BY <1>1, <1>2 DEF OthersFit

\* A symbol that owns nothing is pushed on the stack.
LEMMA TreePush ==
    ASSUME NEW s, NEW v, NEW h, NEW o, NEW pend, NEW l,
           Tree(s, v, h, o, pend, l), NEW y, y \notin Owning, NEW p
    PROVE  Tree(Append(s, y), Append(v, p), h, o, pend, l)
<1>1. Held(y, p) = {}
  BY DEF Held
<1>2. /\ Values(Append(s, y), Append(v, p), h.objects, Taken(s, v))
      /\ Taken(Append(s, y), Append(v, p)) = Taken(s, v)
  <2>1. /\ Values(Append(s, y), Append(v, p), h.objects, Taken(s, v))
        /\ Taken(Append(s, y), Append(v, p)) = Taken(s, v) \cup Held(y, p)
    BY <1>1, PushValue DEF Tree
  <2> QED BY <1>1, <2>1
<1>3. IsSequence(Append(s, y))
  BY AppendTo DEF Tree
<1> QED BY <1>2, <1>3 DEF Tree

\* The calls of yydestruct for what is above the first n symbols.
Destructs(n) ==
    LET popped == {i \in (n + 1)..Len(stack) : stack[i] \in Destructors}
    IN UNION {Call(Destructor(stack[i]), values[i], <<i, "stack">>) : i \in popped}

\* yydestruct frees the values of the symbols that have a %destructor.
LEMMA DestructsAre ==
    ASSUME NEW n \in Nat, NEW c
    PROVE  c \in Destructs(n) <=>
              \E i \in (n + 1)..Len(stack) :
                 /\ stack[i] \in Destructors /\ values[i] # NULL
                 /\ c = [type |-> Destructor(stack[i]), at |-> values[i],
                         place |-> <<i, "stack">>]
BY DEF Destructs, Call

\* A %destructor frees what its symbol owns, by the type it owns it with.
LEMMA DestructorFacts ==
    ASSUME NEW y \in Destructors
    PROVE  y \in Owning /\ Destructor(y) = TypeOf(y)
BY DEF Destructors, Owning, Destructor, TypeOf

\* What is destroyed is what the symbols above the first n own.
LEMMA DestructsFree ==
    ASSUME NEW h, NEW o, NEW pend, NEW l,
           Tree(stack, values, h, o, pend, l),
           NEW n \in 1..Len(stack), Unfreed(stack, n) = {}
    PROVE  /\ Freeing(h.objects, Taken(SubSeq(stack, 1, n), SubSeq(values, 1, n))
                               \cup Others(o, pend, l), Destructs(n))
           /\ Destroyed(h, n) = FreeAll(h, Destructs(n))
           /\ DOMAIN h = HeapFields /\ ~h.undefined
<1> DEFINE lows == SubSeq(stack, 1, n)
           low == SubSeq(values, 1, n)
           highs == SubSeq(stack, n + 1, Len(stack))
           high == SubSeq(values, n + 1, Len(values))
           others == Others(o, pend, l)
           keep == Taken(lows, low) \cup others
           calls == Destructs(n)
<1>1. /\ IsSequence(stack) /\ IsSequence(values) /\ Len(values) = Len(stack)
      /\ Len(stack) \in Nat /\ n \in Nat /\ n \in 0..Len(stack)
      /\ Values(stack, values, h.objects, Taken(stack, values))
      /\ Good(h, Taken(stack, values) \cup others)
      /\ Taken(stack, values) \cap others = {}
  BY DEF Tree, Values, IsSequence
<1>2. /\ Values(lows, low, h.objects, Taken(stack, values))
      /\ Taken(stack, values) = Taken(lows, low) \cup Taken(highs, high)
      /\ Taken(lows, low) \cap Taken(highs, high) = {}
  BY <1>1, SplitValues
<1>3. \A i \in (n + 1)..Len(stack) : stack[i] \in Owning <=> stack[i] \in Destructors
  <2>1. \A i \in (n + 1)..Len(stack) : stack[i] \notin Owning \ Destructors
    BY DEF Unfreed
  <2> QED BY <2>1, DestructorFacts
<1>4. \A p : p \in Taken(highs, high) <=>
               \E i \in (n + 1)..Len(stack) :
                  stack[i] \in Owning /\ values[i] = p /\ p # NULL
  <2> DEFINE m == Len(stack) - n
  <2>1. /\ IsSequence(high) /\ Len(high) = m
        /\ \A i \in 1..m : high[i] = values[n + i] /\ highs[i] = stack[n + i]
    <3>1. /\ IsSequence(high) /\ Len(high) = Len(values) - n
          /\ \A i \in 1..(Len(values) - n) : high[i] = values[n + i]
      BY <1>1, SuffixOf
    <3>2. \A i \in 1..(Len(stack) - n) : highs[i] = stack[n + i]
      BY <1>1, SuffixOf
    <3> HIDE DEF high, highs
    <3> QED BY <1>1, <3>1, <3>2
  <2>2. m \in Nat /\ n + m = Len(stack)
    BY <1>1
  <2> HIDE DEF high, highs, m
  <2>3. \A i \in 1..m : n + i \in (n + 1)..Len(stack)
    BY <1>1, <2>2
  <2>4. ASSUME NEW i \in (n + 1)..Len(stack)
        PROVE  \E j \in 1..m : n + j = i
    <3> DEFINE j == i - n
    <3>1. j \in 1..m /\ n + j = i
      BY <1>1, <2>2
    <3> QED BY <3>1
  <2>5. ASSUME NEW p
        PROVE  (\E j \in 1..m : highs[j] \in Owning /\ high[j] = p /\ p # NULL)
               <=> \E i \in (n + 1)..Len(stack) :
                      stack[i] \in Owning /\ values[i] = p /\ p # NULL
    <3>1. ASSUME NEW j \in 1..m, highs[j] \in Owning, high[j] = p, p # NULL
          PROVE  \E i \in (n + 1)..Len(stack) :
                      stack[i] \in Owning /\ values[i] = p /\ p # NULL
      BY <2>1, <2>3, <3>1
    <3>2. ASSUME NEW i \in (n + 1)..Len(stack), stack[i] \in Owning,
                 values[i] = p, p # NULL
          PROVE  \E j \in 1..m : highs[j] \in Owning /\ high[j] = p /\ p # NULL
      <4>1. PICK j \in 1..m : n + j = i
        BY <2>4
      <4> QED BY <2>1, <3>2, <4>1
    <3> QED BY <3>1, <3>2
  <2>6. ASSUME NEW p
        PROVE  p \in Taken(highs, high) <=>
                  \E i \in (n + 1)..Len(stack) :
                     stack[i] \in Owning /\ values[i] = p /\ p # NULL
    <3>1. p \in Taken(highs, high) <=>
             \E j \in 1..m : highs[j] \in Owning /\ high[j] = p /\ p # NULL
      BY <2>1, TakenIs
    <3> QED BY <2>5, <3>1
  <2> QED BY <2>6
<1> HIDE DEF lows, low, highs, high, others, calls
<1>5. {c.at : c \in calls} = Taken(highs, high)
  <2>1. ASSUME NEW c \in calls PROVE c.at \in Taken(highs, high)
    <3>1. PICK i \in (n + 1)..Len(stack) :
             /\ stack[i] \in Destructors /\ values[i] # NULL
             /\ c = [type |-> Destructor(stack[i]), at |-> values[i],
                     place |-> <<i, "stack">>]
      BY <1>1, DestructsAre DEF calls
    <3> QED BY <1>3, <1>4, <3>1
  <2>2. ASSUME NEW p \in Taken(highs, high) PROVE \E c \in calls : c.at = p
    <3>1. PICK i \in (n + 1)..Len(stack) :
             stack[i] \in Owning /\ values[i] = p /\ p # NULL
      BY <1>4
    <3> DEFINE c == [type |-> Destructor(stack[i]), at |-> values[i],
                     place |-> <<i, "stack">>]
    <3>2. c \in calls
      BY <1>1, <1>3, <3>1, DestructsAre DEF calls
    <3>3. c.at = p
      BY <3>1
    <3> HIDE DEF c
    <3> QED BY <3>2, <3>3
  <2> QED BY <2>1, <2>2
<1>6. Freeing(h.objects, keep, calls)
  <2>1. keep \cup {c.at : c \in calls} = Taken(stack, values) \cup others
    BY <1>2, <1>5
  <2>2. ASSUME NEW c \in calls
        PROVE  c.at \notin keep /\ h.objects[c.at].type = c.type
    <3>1. PICK i \in (n + 1)..Len(stack) :
             /\ stack[i] \in Destructors /\ values[i] # NULL
             /\ c = [type |-> Destructor(stack[i]), at |-> values[i],
                     place |-> <<i, "stack">>]
      BY <1>1, DestructsAre DEF calls
    <3>2. i \in 1..Len(values)
      BY <1>1
    <3>3. h.objects[values[i]].type = TypeOf(stack[i])
      BY <1>1, <1>3, <3>1, <3>2 DEF Values, Fits
    <3>4. c.at = values[i] /\ c.type = TypeOf(stack[i])
      BY <3>1, DestructorFacts
    <3>5. c.at \in Taken(highs, high)
      BY <1>5
    <3> QED BY <1>1, <1>2, <3>3, <3>4, <3>5
  <2>3. ASSUME NEW c \in calls, NEW d \in calls, c.at = d.at
        PROVE  c = d
    <3>1. PICK i \in (n + 1)..Len(stack) :
             /\ stack[i] \in Destructors /\ values[i] # NULL
             /\ c = [type |-> Destructor(stack[i]), at |-> values[i],
                     place |-> <<i, "stack">>]
      BY <1>1, DestructsAre DEF calls
    <3>2. PICK j \in (n + 1)..Len(stack) :
             /\ stack[j] \in Destructors /\ values[j] # NULL
             /\ d = [type |-> Destructor(stack[j]), at |-> values[j],
                     place |-> <<j, "stack">>]
      BY <1>1, DestructsAre DEF calls
    <3>3. i \in 1..Len(values) /\ j \in 1..Len(values)
      BY <1>1
    <3>4. values[i] = values[j]
      BY <2>3, <3>1, <3>2
    <3>5. i = j
      BY <1>1, <1>3, <3>1, <3>2, <3>3, <3>4 DEF Values
    <3> QED BY <3>1, <3>2, <3>5
  <2> HIDE DEF keep
  <2>4. Sound(h.objects, keep \cup {c.at : c \in calls})
    BY <1>1, <2>1 DEF Good
  <2> QED BY <2>2, <2>3, <2>4 DEF Freeing
<1>7. Destroyed(h, n) = FreeAll(h, calls)
  BY DEF Destroyed, Destructs, calls
<1> QED BY <1>1, <1>6, <1>7 DEF Good, lows, low, others, calls

\* What is destroyed is freed, and nothing else.
LEMMA TreeDestroyed ==
    ASSUME NEW h, NEW o, NEW pend, NEW l,
           Tree(stack, values, h, o, pend, l),
           NEW n \in 1..Len(stack), Unfreed(stack, n) = {}
    PROVE  /\ Destroyed(h, n).crashed = h.crashed
           /\ Tree(SubSeq(stack, 1, n), SubSeq(values, 1, n), Destroyed(h, n),
                   o, pend, l)
<1> DEFINE g == Destroyed(h, n)
           lows == SubSeq(stack, 1, n)
           low == SubSeq(values, 1, n)
           others == Others(o, pend, l)
           keep == Taken(lows, low) \cup others
           calls == Destructs(n)
<1>1. /\ IsSequence(stack) /\ IsSequence(values) /\ Len(values) = Len(stack)
      /\ Len(stack) \in Nat /\ n \in 0..Len(stack)
      /\ Values(stack, values, h.objects, Taken(stack, values))
      /\ Taken(stack, values) \cap others = {}
  BY DEF Tree, Values, IsSequence
<1>2. /\ Values(lows, low, h.objects, Taken(stack, values))
      /\ Taken(lows, low) \subseteq Taken(stack, values)
  BY <1>1, SplitValues
<1> HIDE DEF lows, low, others, calls
<1>3. /\ Freeing(h.objects, keep, calls)
      /\ g = FreeAll(h, calls)
      /\ DOMAIN h = HeapFields /\ ~h.undefined
  BY DestructsFree DEF lows, low, others, calls
<1> HIDE DEF g, keep
<1>4. /\ DOMAIN g = HeapFields /\ ~g.undefined /\ g.crashed = h.crashed
      /\ Sound(g.objects, keep)
      /\ \A q \in keep : g.objects[q] = h.objects[q]
  <2>1. Freeing(h.objects, keep, calls) /\ DOMAIN h = HeapFields /\ ~h.undefined
    BY <1>3
  <2> DEFINE f == FreeAll(h, calls)
  <2>2. /\ DOMAIN f = HeapFields /\ ~f.undefined /\ f.crashed = h.crashed
        /\ Sound(f.objects, keep)
        /\ \A q \in keep : f.objects[q] = h.objects[q]
    BY <2>1, FreeAllIsSound
  <2> HIDE DEF f
  <2>3. g = f
    BY <1>3 DEF f
  <2> QED BY <2>2, <2>3
<1>5. Good(g, Taken(lows, low) \cup others)
  BY <1>4 DEF Good, keep
<1>6. Values(lows, low, g.objects, Taken(lows, low))
  BY <1>2, <1>4, ValuesAgain DEF keep
<1>7. OthersFit(o, pend, l, g.objects)
  BY <1>4, OthersFitAgain DEF Tree, keep, others
<1>8. IsSequence(lows)
  BY <1>1, PrefixOf DEF lows
<1>9. Taken(lows, low) \cap others = {}
  BY <1>1, <1>2
<1>10. Tree(lows, low, g, o, pend, l)
  BY <1>5, <1>6, <1>7, <1>8, <1>9 DEF Tree, others
<1> QED BY <1>4, <1>10 DEF g, lows, low

\* A parse error is reported.
LEMMA TreeReported ==
    ASSUME NEW s, NEW v, NEW h, NEW pend, NEW l,
           Tree(s, v, h, NULL, pend, l), ~h.crashed
    PROVE  LET m == Report(h)
           IN m.heap.crashed \/ (m.at # NULL /\ Tree(s, v, m.heap, m.at, pend, l))
<1> DEFINE m == Report(h)
           g == m.heap
           q == m.at
           taken == Taken(s, v)
           others == Others(NULL, pend, l)
           roots == taken \cup others
<1> SUFFICES ASSUME ~g.crashed PROVE q # NULL /\ Tree(s, v, g, q, pend, l)
  OBVIOUS
<1>1. Good(h, roots) /\ taken \cap others = {} /\ IsSequence(s)
  BY DEF Tree
<1>2. Ends("output_variant", q, h, g, roots)
  <2> HIDE DEF roots
  <2> QED BY <1>1, ReportEnds
<1> HIDE DEF m
<1>3. Done("output_variant", q, h, g, roots)
  BY <1>2 DEF Ends
<1>4. /\ q # NULL /\ g.objects[q].type = "output" /\ g.objects[q].line = NULL
      /\ Held("output_variant", q) = {q}
  BY <1>3 DEF Done, Fits, Nullable, TypeOf, Owning, Held
<1>5. Others(q, pend, l) = others \cup {q}
  BY <1>4 DEF Others
<1>6. /\ Good(g, roots \cup {q}) /\ q \notin roots
      /\ \A r \in roots : g.objects[r] = h.objects[r]
  BY <1>3, <1>4 DEF Done
<1>7. Good(g, taken \cup Others(q, pend, l))
  <2>1. taken \cup Others(q, pend, l) = roots \cup {q}
    BY <1>5
  <2> QED BY <1>6, <2>1
<1>8. Values(s, v, g.objects, taken)
  BY <1>6, ValuesAgain DEF Tree
<1>9. OthersFit(q, pend, l, g.objects)
  <2>1. OthersFit(NULL, pend, l, g.objects)
    BY <1>6, OthersFitAgain DEF Tree
  <2>2. \A i \in 1..Len(pend) : pend[i].out \in others
    BY <2>1 DEF Others, OthersFit
  <2>3. q \notin l
    BY <1>4, <1>6 DEF Others
  <2> QED BY <1>4, <1>6, <2>1, <2>2, <2>3 DEF OthersFit
<1>10. taken \cap Others(q, pend, l) = {}
  BY <1>1, <1>5, <1>6
<1> HIDE DEF taken
<1>11. Tree(s, v, g, q, pend, l)
  BY <1>1, <1>7, <1>8, <1>9, <1>10 DEF Tree, taken
<1> QED BY <1>4, <1>11

\* The semantic action of a rule that hands nothing over.
LEMMA TreeReduced ==
    ASSUME NEW s, NEW v, NEW h, NEW o, NEW pend, NEW l, Tree(s, v, h, o, pend, l),
           NEW r \in Rules, r.rhs # <<"output_variant", "NEWLINE">>,
           NEW n \in 0..Len(s), SubSeq(s, n + 1, Len(s)) = r.rhs, NEW text
    PROVE  LET d == Action(r, SubSeq(v, n + 1, Len(v)), h, text)
           IN \/ d.heap.crashed
              \/ Tree(Append(SubSeq(s, 1, n), r.lhs),
                      Append(SubSeq(v, 1, n), d.at), d.heap, o, pend, l)
<1> DEFINE high == SubSeq(v, n + 1, Len(v))
           low == SubSeq(v, 1, n)
           lows == SubSeq(s, 1, n)
           d == Action(r, high, h, text)
           g == d.heap
           p == d.at
           others == Others(o, pend, l)
           roots == Taken(s, v) \cup others
           kept == Taken(lows, low) \cup others
           held == Held(r.lhs, p)
<1> SUFFICES ASSUME ~g.crashed
             PROVE  Tree(Append(lows, r.lhs), Append(low, p), g, o, pend, l)
  OBVIOUS
<1>1. /\ IsSequence(s) /\ Good(h, roots) /\ Taken(s, v) \cap others = {}
      /\ Values(s, v, h.objects, Taken(s, v))
  BY DEF Tree
<1>2. /\ Values(lows, low, h.objects, Taken(s, v))
      /\ Values(r.rhs, high, h.objects, Taken(s, v))
      /\ Taken(s, v) = Taken(lows, low) \cup Taken(r.rhs, high)
      /\ Taken(lows, low) \cap Taken(r.rhs, high) = {}
  <2> DEFINE highs == SubSeq(s, n + 1, Len(s))
  <2>1. /\ Values(lows, low, h.objects, Taken(s, v))
        /\ Values(highs, high, h.objects, Taken(s, v))
        /\ Taken(s, v) = Taken(lows, low) \cup Taken(highs, high)
        /\ Taken(lows, low) \cap Taken(highs, high) = {}
    BY <1>1, SplitValues
  <2>2. highs = r.rhs
    OBVIOUS
  <2> HIDE DEF highs, lows, low, high
  <2> QED BY <2>1, <2>2
<1>3. IsSequence(lows)
  BY <1>1, PrefixOf
<1> HIDE DEF high, low, lows, others
<1>4. Values(r.rhs, high, h.objects, roots)
  BY <1>2, ValuesAgain
<1>5. Ends(r.lhs, p, h, g, roots \ Taken(r.rhs, high))
  <2> HIDE DEF roots
  <2> QED BY <1>1, <1>4, ActionEnds
<1>6. roots \ Taken(r.rhs, high) = kept
  BY <1>1, <1>2
<1> HIDE DEF d, roots
<1>7. Done(r.lhs, p, h, g, kept)
  BY <1>5, <1>6 DEF Ends
<1>8. /\ Good(g, kept \cup held) /\ held \cap kept = {}
      /\ r.lhs \in Owning => Fits(r.lhs, p, g.objects)
      /\ \A q \in kept : g.objects[q] = h.objects[q]
  BY <1>7 DEF Done
<1> HIDE DEF held
<1>9. Values(lows, low, g.objects, Taken(lows, low) \cup held)
  BY <1>2, <1>8, ValuesAgain
<1>10. /\ Values(Append(lows, r.lhs), Append(low, p), g.objects,
                 Taken(lows, low) \cup held)
       /\ Taken(Append(lows, r.lhs), Append(low, p)) = Taken(lows, low) \cup held
  BY <1>3, <1>8, <1>9, PushValue DEF held
<1>11. OthersFit(o, pend, l, g.objects)
  BY <1>8, OthersFitAgain DEF Tree, others
<1>12. /\ IsSequence(Append(lows, r.lhs))
       /\ kept \cup held = (Taken(lows, low) \cup held) \cup others
       /\ (Taken(lows, low) \cup held) \cap others = {}
  BY <1>1, <1>2, <1>3, <1>8, AppendTo
<1> DEFINE t == Append(lows, r.lhs)
           w == Append(low, p)
<1> HIDE DEF t, w, p, g, kept
<1> SUFFICES Tree(t, w, g, o, pend, l)
  BY DEF t, w
<1>13. Good(g, Taken(t, w) \cup others)
  BY <1>8, <1>10, <1>12 DEF t, w
<1>14. Values(t, w, g.objects, Taken(t, w))
  BY <1>10 DEF t, w
<1> QED BY <1>10, <1>11, <1>12, <1>13, <1>14 DEF Tree, others, t, w

\* The end of a line hands its output over to the caller.
LEMMA TreeHandsOver ==
    ASSUME NEW s, NEW v, NEW h, NEW pend, NEW l, Tree(s, v, h, NULL, pend, l),
           NEW n \in 0..Len(s),
           SubSeq(s, n + 1, Len(s)) = <<"output_variant", "NEWLINE">>,
           NEW y, y \notin Owning
    PROVE  LET o == SubSeq(v, n + 1, Len(v))[1]
           IN o # NULL /\ Tree(Append(SubSeq(s, 1, n), y),
                               Append(SubSeq(v, 1, n), NULL), h, o, pend, l)
<1> DEFINE high == SubSeq(v, n + 1, Len(v))
           low == SubSeq(v, 1, n)
           lows == SubSeq(s, 1, n)
           rhs == <<"output_variant", "NEWLINE">>
           o == high[1]
           others == Others(NULL, pend, l)
<1> SUFFICES o # NULL /\ Tree(Append(lows, y), Append(low, NULL), h, o, pend, l)
  OBVIOUS
<1>1. /\ IsSequence(s) /\ Good(h, Taken(s, v) \cup others)
      /\ Taken(s, v) \cap others = {}
      /\ Values(s, v, h.objects, Taken(s, v))
  BY DEF Tree
<1>2. /\ Values(lows, low, h.objects, Taken(s, v))
      /\ Values(rhs, high, h.objects, Taken(s, v))
      /\ Taken(s, v) = Taken(lows, low) \cup Taken(rhs, high)
      /\ Taken(lows, low) \cap Taken(rhs, high) = {}
  <2> DEFINE highs == SubSeq(s, n + 1, Len(s))
  <2>1. /\ Values(lows, low, h.objects, Taken(s, v))
        /\ Values(highs, high, h.objects, Taken(s, v))
        /\ Taken(s, v) = Taken(lows, low) \cup Taken(highs, high)
        /\ Taken(lows, low) \cap Taken(highs, high) = {}
    BY <1>1, SplitValues
  <2>2. highs = rhs
    OBVIOUS
  <2> HIDE DEF highs, lows, low, high
  <2> QED BY <2>1, <2>2
<1>3. IsSequence(lows)
  BY <1>1, PrefixOf
<1>4. 1 \in 1..Len(rhs) /\ \A j \in 1..Len(rhs) : rhs[j] \in Owning <=> j = 1
  BY DEF Owning
<1>5. rhs[1] = "output_variant"
  OBVIOUS
<1> HIDE DEF high, low, lows, others, rhs
<1>6. /\ Taken(rhs, high) = {o} \ {NULL}
      /\ Fits("output_variant", o, h.objects)
  BY <1>2, <1>4, <1>5, OneTaken
<1>7. o # NULL /\ h.objects[o].type = "output" /\ h.objects[o].line = NULL
  BY <1>6 DEF Fits, Nullable, TypeOf
<1> HIDE DEF o
<1>8. Others(o, pend, l) = others \cup {o}
  BY <1>7 DEF Others, others
<1>9. o \notin others /\ o \notin Taken(lows, low)
  BY <1>1, <1>2, <1>6, <1>7
<1>10. OthersFit(o, pend, l, h.objects)
  <2>1. OthersFit(NULL, pend, l, h.objects)
    BY DEF Tree
  <2>2. \A i \in 1..Len(pend) : pend[i].out \in others
    BY <2>1 DEF Others, OthersFit, others
  <2>3. o \notin l
    BY <1>7, <1>9 DEF Others, others
  <2> QED BY <1>7, <1>9, <2>1, <2>2, <2>3 DEF OthersFit
<1>11. Tree(lows, low, h, o, pend, l)
  <2>1. Taken(s, v) \cup others = Taken(lows, low) \cup Others(o, pend, l)
    BY <1>2, <1>6, <1>7, <1>8
  <2>2. Taken(lows, low) \cap Others(o, pend, l) = {}
    BY <1>1, <1>2, <1>8, <1>9
  <2>3. Values(lows, low, h.objects, Taken(lows, low))
    BY <1>2, ValuesAgain
  <2> QED BY <1>1, <1>3, <1>10, <2>1, <2>2, <2>3 DEF Tree
<1>12. Tree(Append(lows, y), Append(low, NULL), h, o, pend, l)
  BY <1>11, TreePush
<1> QED BY <1>7, <1>12

-----------------------------------------------------------------------------
(* The outputs.                                                            *)

\* An output is freed with all it owns.
LEMMA OutputFreed ==
    ASSUME NEW h, NEW roots, NEW p, p # NULL, p \notin roots,
           Good(h, roots \cup {p}), h.objects[p].type = "output", NEW place
    PROVE  LET g == FreeAll(h, Call("output", p, place))
           IN /\ Good(g, roots) /\ g.crashed = h.crashed
              /\ \A q \in roots : g.objects[q] = h.objects[q]
<1> DEFINE calls == Call("output", p, place)
           g == FreeAll(h, calls)
           c == [type |-> "output", at |-> p, place |-> place]
<1>1. calls = {c}
  BY DEF Call
<1>2. c.at = p /\ c.type = "output"
  OBVIOUS
<1> HIDE DEF calls, c
<1>3. {d.at : d \in calls} = {p}
  BY <1>1, <1>2
<1>4. /\ DOMAIN h = HeapFields /\ ~h.undefined
      /\ Sound(h.objects, roots \cup {d.at : d \in calls})
  BY <1>3 DEF Good
<1>5. Freeing(h.objects, roots, calls)
  BY <1>1, <1>2, <1>4 DEF Freeing
<1>6. /\ DOMAIN g = HeapFields /\ ~g.undefined /\ g.crashed = h.crashed
      /\ Sound(g.objects, roots)
      /\ \A q \in roots : g.objects[q] = h.objects[q]
  BY <1>4, <1>5, FreeAllIsSound
<1> HIDE DEF g
<1>7. Good(g, roots)
  BY <1>6 DEF Good
<1> QED BY <1>6, <1>7 DEF g, calls

\* parse_line's assertion has failed: nobody owns its output any more.
LEMMA TreeLost ==
    ASSUME NEW s, NEW v, NEW h, NEW o, NEW pend, NEW l, Tree(s, v, h, o, pend, l)
    PROVE  Tree(s, v, h, NULL, pend, l \cup ({o} \ {NULL}))
<1> DEFINE more == l \cup ({o} \ {NULL})
<1>1. Others(NULL, pend, more) = Others(o, pend, l)
  BY DEF Others
<1>2. OthersFit(NULL, pend, more, h.objects)
  <2>1. OthersFit(o, pend, l, h.objects)
    BY DEF Tree
  <2> QED BY <2>1 DEF OthersFit
<1> HIDE DEF more
<1>3. Tree(s, v, h, NULL, pend, more)
  BY <1>1, <1>2 DEF Tree
<1> QED BY <1>3 DEF more

\* An output goes from the callbacks that run, and is freed.
LEMMA TreeReturned ==
    ASSUME NEW s, NEW v, NEW h, NEW pend, NEW l, Tree(s, v, h, NULL, pend, l),
           pend # << >>, NEW place
    PROVE  Tree(s, v, FreeAll(h, Call("output", Top(pend).out, place)), NULL,
                Pop(pend, 1), l)
<1> DEFINE n == Len(pend)
           p == pend[n].out
           g == FreeAll(h, Call("output", p, place))
           less == Pop(pend, 1)
           others == Others(NULL, less, l)
           roots == Taken(s, v) \cup others
<1> SUFFICES Tree(s, v, g, NULL, less, l)
  BY DEF Top
<1>1. OthersFit(NULL, pend, l, h.objects)
  BY DEF Tree
<1>2. n \in Nat \ {0} /\ n - 1 \in 0..n /\ n \in 1..n
      /\ \A i \in 1..n : i \in 1..(n - 1) \/ i = n
  <2>1. PICK S : pend \in Seq(S)
    BY <1>1 DEF OthersFit, IsSequence
  <2>2. n \in Nat \ {0}
    BY <2>1
  <2> QED BY <2>2
<1>3. /\ IsSequence(less) /\ Len(less) = n - 1
      /\ \A i \in 1..(n - 1) : less[i] = pend[i] /\ i \in 1..n /\ i # n
  <2>1. less = SubSeq(pend, 1, n - 1)
    BY DEF Pop
  <2>2. IsSequence(pend)
    BY <1>1 DEF OthersFit
  <2> DEFINE k == n - 1
             t == SubSeq(pend, 1, k)
  <2>3. k \in 0..Len(pend) /\ \A i \in 1..k : i \in 1..n /\ i # n
    BY <1>2
  <2>4. less = t
    BY <2>1
  <2> HIDE DEF k, less
  <2>5. IsSequence(t) /\ Len(t) = k /\ \A i \in 1..k : t[i] = pend[i]
    BY <2>2, <2>3, PrefixOf
  <2> HIDE DEF t
  <2>6. IsSequence(less) /\ Len(less) = k /\ \A i \in 1..k : less[i] = pend[i]
    BY <2>4, <2>5
  <2> QED BY <2>3, <2>6 DEF k
<1>4. p # NULL /\ h.objects[p].type = "output" /\ p \notin l
  BY <1>1, <1>2 DEF OthersFit
<1>5. p \notin others
  BY <1>1, <1>2, <1>3, <1>4 DEF OthersFit, Others
<1> HIDE DEF less
<1>6. Others(NULL, pend, l) = others \cup {p}
  <2>1. {pend[i].out : i \in 1..n} = {less[i].out : i \in 1..Len(less)} \cup {p}
    BY <1>2, <1>3
  <2> QED BY <1>4, <2>1 DEF Others
<1>7. /\ Good(h, roots \cup {p}) /\ p \notin roots
      /\ Taken(s, v) \cap others = {}
  <2>1. /\ Good(h, Taken(s, v) \cup Others(NULL, pend, l))
        /\ Taken(s, v) \cap Others(NULL, pend, l) = {}
    BY DEF Tree
  <2>2. Taken(s, v) \cup Others(NULL, pend, l) = roots \cup {p}
    BY <1>6
  <2> HIDE DEF others
  <2> QED BY <1>5, <1>6, <2>1, <2>2
<1> HIDE DEF roots, p
<1>8. /\ Good(g, roots)
      /\ \A q \in roots : g.objects[q] = h.objects[q]
  BY <1>4, <1>7, OutputFreed
<1> HIDE DEF g
<1>9. OthersFit(NULL, less, l, h.objects)
  BY <1>1, <1>2, <1>3 DEF OthersFit
<1>10. OthersFit(NULL, less, l, g.objects)
  BY <1>8, <1>9, OthersFitAgain DEF roots
<1>11. Values(s, v, g.objects, Taken(s, v))
  BY <1>8, ValuesAgain DEF roots, Tree
<1> QED BY <1>7, <1>8, <1>10, <1>11 DEF Tree, roots

\* The output with a copy of its line.
Given(h, o) ==
    LET line == Malloc(h, Text("line"))
    IN [line.heap EXCEPT !.objects[o].line = line.at]

\* parse_line puts its copy of the line into the output.
LEMMA GivenIsGood ==
    ASSUME NEW h, NEW roots, Good(h, roots), NEW o \in roots, ~h.crashed,
           h.objects[o].type = "output", h.objects[o].line = NULL
    PROVE  LET g == Given(h, o)
           IN /\ Good(g, roots) /\ ~g.crashed /\ g.objects[o].type = "output"
              /\ \A q \in roots \ {o} : g.objects[q] = h.objects[q]
<1> DEFINE line == Malloc(h, Text("line"))
           p == line.at
           t == line.heap
           g == Given(h, o)
           more == roots \cup ({p} \ {NULL})
<1>1. Takes(Text("line"), h.objects, roots, {})
  BY TakesText
<1>2. /\ DOMAIN t = HeapFields /\ t.crashed = h.crashed
      /\ p = NULL => Good(t, roots) /\ t.objects = h.objects
      /\ p # NULL => Becomes(h, t, roots, p, Text("line"))
  BY <1>1, MallocIsSound
<1>3. g = [t EXCEPT !.objects[o].line = p]
  BY DEF Given
<1> HIDE DEF line, g
<1>4. /\ Good(t, more)
      /\ p # NULL => p \notin roots /\ t.objects[p].type = "text"
      /\ \A r \in roots : t.objects[r] = h.objects[r]
  <2>1. CASE p = NULL
    <3>1. more = roots
      BY <2>1
    <3> HIDE DEF more
    <3> QED BY <1>2, <2>1, <3>1
  <2>2. CASE p # NULL
    <3>1. more = roots \cup {p}
      BY <2>2
    <3>2. Text("line").type = "text"
      BY DEF Text
    <3> HIDE DEF more
    <3> QED BY <1>2, <2>2, <3>1, <3>2 DEF Becomes
  <2> QED BY <2>1, <2>2
<1>5. o \in DOMAIN t.objects /\ roots \subseteq DOMAIN t.objects
  <2>1. more \subseteq DOMAIN t.objects
    BY <1>4, GoodHeap
  <2> QED BY <2>1
<1>6. Sets(t, g, o, "line", p) /\ g.crashed = t.crashed
  <2> DEFINE n == [t.objects[o] EXCEPT !.line = p]
             objects == [t.objects EXCEPT ![o] = n]
  <2>1. g = [t EXCEPT !.objects = objects]
    BY <1>3
  <2>2. /\ DOMAIN objects = DOMAIN t.objects
        /\ objects[o] = n
        /\ \A r \in DOMAIN t.objects \ {o} : objects[r] = t.objects[r]
    BY <1>5
  <2>3. n = [t.objects[o] EXCEPT !["line"] = p]
    OBVIOUS
  <2> HIDE DEF objects, n
  <2>4. /\ DOMAIN g = HeapFields /\ g.undefined = t.undefined
        /\ g.crashed = t.crashed /\ g.objects = objects
    BY <1>2, <2>1 DEF HeapFields
  <2> QED BY <2>2, <2>3, <2>4 DEF Sets
<1>7. /\ Good(g, more \ ({p} \ {NULL})) /\ g.objects[o].type = "output"
  <2> DEFINE f == "line"
  <2>1. /\ t.objects[o].type = "output" /\ t.objects[o][f] = NULL
        /\ f \in {"line", "variant"} /\ f # "variant" /\ Sets(t, g, o, f, p)
    BY <1>4, <1>6
  <2>2. /\ Good(t, more) /\ o \in more
        /\ p # NULL => p \in more \ {o} /\ t.objects[p].type = "text"
    BY <1>4
  <2> HIDE DEF f, t, p, more
  <2> QED BY <2>1, <2>2, SetIsSound
<1>8. more \ ({p} \ {NULL}) = roots
  BY <1>4
<1>9. \A q \in roots \ {o} : g.objects[q] = h.objects[q]
  BY <1>4, <1>5, <1>6 DEF Sets
<1> QED BY <1>2, <1>6, <1>7, <1>8, <1>9 DEF g

\* A line's output goes to its callback.
LEMMA TreeDelivered ==
    ASSUME NEW s, NEW v, NEW h, NEW o, NEW pend, NEW l,
           Tree(s, v, h, o, pend, l), o # NULL, ~h.crashed
    PROVE  LET g == Given(h, o)
           IN /\ \A call : call.out = o =>
                    Tree(s, v, g, NULL, Append(pend, call), l)
              /\ \A place :
                    Tree(s, v, FreeAll(g, Call("output", o, place)), NULL, pend, l)
<1> DEFINE g == Given(h, o)
           others == Others(NULL, pend, l)
           rest == Taken(s, v) \cup others
           roots == rest \cup {o}
<1>1. OthersFit(o, pend, l, h.objects)
  BY DEF Tree
<1>2. Others(o, pend, l) = others \cup {o} /\ o \notin others
  BY <1>1 DEF Others, OthersFit
<1>3. /\ Good(h, roots) /\ o \notin rest /\ Taken(s, v) \cap others = {}
      /\ o \in roots
  <2>1. /\ Good(h, Taken(s, v) \cup Others(o, pend, l))
        /\ Taken(s, v) \cap Others(o, pend, l) = {}
    BY DEF Tree
  <2>2. Taken(s, v) \cup Others(o, pend, l) = roots
    BY <1>2
  <2> HIDE DEF others
  <2> QED BY <1>2, <2>1, <2>2
<1>4. h.objects[o].type = "output" /\ h.objects[o].line = NULL
  BY <1>1 DEF OthersFit
<1> HIDE DEF roots
<1>5. /\ Good(g, roots) /\ ~g.crashed /\ g.objects[o].type = "output"
      /\ \A q \in roots \ {o} : g.objects[q] = h.objects[q]
  BY <1>3, <1>4, GivenIsGood
<1> HIDE DEF g
<1>6. \A q \in rest : g.objects[q] = h.objects[q]
  BY <1>3, <1>5 DEF roots
<1>7. OthersFit(NULL, pend, l, h.objects)
  BY <1>1 DEF OthersFit
<1>8. OthersFit(NULL, pend, l, g.objects)
  BY <1>6, <1>7, OthersFitAgain
<1>9. Values(s, v, g.objects, Taken(s, v)) /\ IsSequence(s)
  BY <1>6, ValuesAgain DEF Tree
<1>10. ASSUME NEW call, call.out = o
       PROVE  Tree(s, v, g, NULL, Append(pend, call), l)
  <2> DEFINE more == Append(pend, call)
             n == Len(pend)
  <2>1. /\ IsSequence(more) /\ Len(more) = n + 1 /\ n \in Nat
        /\ more[n + 1] = call /\ \A i \in 1..n : more[i] = pend[i]
    BY <1>1, AppendTo DEF OthersFit
  <2>2. /\ \A i \in 1..(n + 1) : i \in 1..n \/ i = n + 1
        /\ \A i \in 1..n : i \in 1..(n + 1)
        /\ n + 1 \in 1..(n + 1)
    BY <2>1
  <2> HIDE DEF more
  <2>3. Others(NULL, more, l) = Others(o, pend, l)
    <3>1. {more[i].out : i \in 1..(n + 1)} = {pend[i].out : i \in 1..n} \cup {o}
      BY <1>10, <2>1, <2>2
    <3> QED BY <2>1, <3>1 DEF Others
  <2>4. OthersFit(NULL, more, l, g.objects)
    <3>1. \A i \in 1..(n + 1) :
             /\ more[i].out # NULL /\ g.objects[more[i].out].type = "output"
             /\ more[i].out \notin l
      BY <1>1, <1>5, <1>8, <1>10, <2>1, <2>2 DEF OthersFit
    <3>2. \A i, j \in 1..(n + 1) : more[i].out = more[j].out => i = j
      BY <1>1, <1>10, <2>1, <2>2 DEF OthersFit
    <3> QED BY <1>1, <2>1, <3>1, <3>2 DEF OthersFit
  <2>5. Taken(s, v) \cup Others(NULL, more, l) = roots
    BY <1>2, <2>3 DEF roots
  <2>6. Taken(s, v) \cap Others(NULL, more, l) = {}
    BY <1>2, <1>3, <2>3
  <2>7. Tree(s, v, g, NULL, more, l)
    BY <1>5, <1>9, <2>4, <2>5, <2>6 DEF Tree
  <2> QED BY <2>7 DEF more
<1>11. ASSUME NEW place
       PROVE  Tree(s, v, FreeAll(g, Call("output", o, place)), NULL, pend, l)
  <2> DEFINE f == FreeAll(g, Call("output", o, place))
  <2> HIDE DEF rest
  <2>1. Good(g, rest \cup {o})
    BY <1>5 DEF roots
  <2>2. /\ Good(f, rest)
        /\ \A q \in rest : f.objects[q] = g.objects[q]
    BY <1>3, <1>5, <2>1, OutputFreed
  <2> HIDE DEF f
  <2>3. OthersFit(NULL, pend, l, f.objects)
    BY <1>8, <2>2, OthersFitAgain DEF rest
  <2>4. Values(s, v, f.objects, Taken(s, v))
    BY <1>9, <2>2, ValuesAgain DEF rest
  <2>5. Tree(s, v, f, NULL, pend, l)
    BY <1>3, <1>9, <2>2, <2>3, <2>4 DEF Tree, rest
  <2> QED BY <2>5 DEF f
<1> QED BY <1>10, <1>11 DEF g

-----------------------------------------------------------------------------
(* The steps.                                                              *)

\* The invariant of a program that has not crashed.
TreeOf == Tree(stack, values, heap, out, pending, lost)

\* The parts of the invariant, in a program that has not crashed.
LEMMA LiveFacts ==
    ASSUME TreeInv, ~heap.crashed
    PROVE  /\ PushInv /\ Stack(stack) /\ TreeOf
           /\ ~inLine => out = NULL
           /\ out # NULL => output # NoOutput
           /\ Len(values) = Len(stack)
BY TypeStack DEF TreeInv, TreeOf, Tree, Values

\* A call of parse_line begins with no output of its own.
LEMMA ParseLineTree == TreeInv /\ ~heap.crashed /\ ParseLine => TreeInv'
<1> SUFFICES ASSUME TreeInv, ~heap.crashed, ParseLine PROVE TreeInv'
  OBVIOUS
<1>1. PushInv'
  BY BeginLineInv DEF TreeInv, ParseLine
<1>2. out = NULL /\ TreeOf
  BY LiveFacts DEF ParseLine
<1>3. UNCHANGED <<stack, values, heap, out, pending, lost>>
  BY <1>2 DEF ParseLine, BeginLine
<1>4. TreeOf'
  BY <1>2, <1>3 DEF TreeOf
<1> QED BY <1>1, <1>2, <1>3, <1>4 DEF TreeInv, TreeOf

\* A token of the lexer owns nothing.
LEMMA TokenTree ==
    ASSUME NEW x \in Lexemes, NEW p \in Positions
    PROVE  TreeInv /\ ~heap.crashed /\ Token(x, p) => TreeInv'
<1> SUFFICES ASSUME TreeInv, ~heap.crashed, Token(x, p) PROVE TreeInv'
  OBVIOUS
<1>1. PushInv'
  BY GiveTokenInv DEF TreeInv, Token
<1>2. UNCHANGED <<stack, values, heap, out, pending, lost, inLine, output>>
  BY DEF Token, GiveToken
<1> QED BY <1>1, <1>2 DEF TreeInv

\* A token is shifted with a value that is never used.
LEMMA ShiftTree == TreeInv /\ ~heap.crashed /\ inLine /\ ShiftToken => TreeInv'
<1> SUFFICES ASSUME TreeInv, ~heap.crashed, inLine, ShiftToken PROVE TreeInv'
  OBVIOUS
<1>1. PushInv'
  BY ShiftInv DEF TreeInv, ShiftToken
<1>2. /\ UNCHANGED <<heap, out, pending, lost, inLine, output>>
      /\ stack' = Append(stack, lookahead) /\ values' = Append(values, NULL)
      /\ lookahead # NoToken
  BY DEF ShiftToken, Shift
<1>3. lookahead \notin Owning
  BY <1>2, TokenSymbols DEF TreeInv, PushInv, PushTypeOK
<1>4. TreeOf /\ (out # NULL => output # NoOutput)
  BY LiveFacts
<1>5. TreeOf'
  BY <1>2, <1>3, <1>4, TreePush DEF TreeOf
<1> QED BY <1>1, <1>2, <1>4, <1>5 DEF TreeInv, TreeOf

\* The push parser returns for another token.
LEMMA PushReturnsTree ==
    TreeInv /\ ~heap.crashed /\ PushReturns => TreeInv'
<1> SUFFICES ASSUME TreeInv, ~heap.crashed, PushReturns PROVE TreeInv'
  OBVIOUS
<1>1. PushInv'
  BY NeedTokenInv DEF TreeInv, PushReturns
<1>2. UNCHANGED <<stack, values, heap, out, pending, lost, inLine, output>>
  BY DEF PushReturns, NeedToken, treeVars
<1> QED BY <1>1, <1>2 DEF TreeInv

\* The mid-rule action of the prompt has no effect on the heap of its own.
LEMMA CheckAction ==
    ASSUME NEW r, r.lhs = "check", NEW v, NEW h, NEW text
    PROVE  Action(r, v, h, text).heap = h
BY DEF Action, Unchanged

\* The actions of the ends of a line leave the heap alone.
LEMMA EndAction ==
    ASSUME NEW r, r.lhs = "output", NEW v, NEW h, NEW text
    PROVE  Action(r, v, h, text).heap = h /\ Action(r, v, h, text).at = NULL
BY DEF Action, Unchanged

\* strcmp changes nothing, unless it is given NULL.
LEMMA ComparedFacts ==
    ASSUME NEW r \in Rules, TreeInv, ~heap.crashed
    PROVE  \/ Compared(r, heap) = heap
           \/ r.lhs = "check" /\ Compared(r, heap).crashed
<1>1. DOMAIN heap = HeapFields
  BY LiveFacts DEF TreeOf, Tree, Good
<1>2. [heap EXCEPT !.crashed = TRUE].crashed
  BY <1>1 DEF HeapFields
<1> QED BY <1>2 DEF Compared, ChecksPrompt

\* A reduction takes the values it pops, and its value takes what they own.
LEMMA ReduceTree ==
    ASSUME NEW r \in Rules
    PROVE  TreeInv /\ ~heap.crashed /\ inLine /\ ReduceBy(r) => TreeInv'
<1> SUFFICES ASSUME TreeInv, ~heap.crashed, inLine, ReduceBy(r) PROVE TreeInv'
  OBVIOUS
<1> DEFINE n == Len(values) - Len(r.rhs)
           v == SubSeq(values, n + 1, Len(values))
           h == Compared(r, heap)
           d == Action(r, v, h, lexed.text)
<1>1. PushInv'
  BY ReduceInv DEF TreeInv, ReduceBy
<1>2. /\ PushInv /\ Stack(stack) /\ TreeOf /\ (out # NULL => output # NoOutput)
      /\ Len(values) = Len(stack)
  BY LiveFacts
<1>3. /\ IsHandle(r, stack)
      /\ stack' = Append(Pop(stack, Len(r.rhs)), r.lhs)
  BY DEF ReduceBy, Reduce, Reducible
<1>4. /\ n \in 0..Len(stack)
      /\ SubSeq(stack, n + 1, Len(stack)) = r.rhs
      /\ stack' = Append(SubSeq(stack, 1, n), r.lhs)
  <2>1. Len(r.rhs) \in Nat /\ Len(stack) \in Nat /\ Len(r.rhs) < Len(stack)
    BY <1>2, <1>3, RuleFacts DEF Stack, IsHandle
  <2>2. n \in 0..Len(stack)
    BY <1>2, <2>1
  <2> QED BY <1>2, <1>3, <2>2 DEF IsHandle, Pop
<1>5. /\ values' = Append(SubSeq(values, 1, n), d.at)
      /\ heap' = d.heap
      /\ out' = IF r.rhs = <<"output_variant", "NEWLINE">> THEN v[1] ELSE out
      /\ UNCHANGED <<pending, lost, inLine>>
  BY DEF ReduceBy
<1> HIDE DEF n, v, h, d
<1>6. CASE heap'.crashed
  BY <1>1, <1>6 DEF TreeInv
<1>7. CASE ~heap'.crashed /\ r.rhs # <<"output_variant", "NEWLINE">>
  <2>1. h = heap
    <3>1. r.lhs = "check" => heap' = h
      BY <1>5, CheckAction DEF d
    <3> QED BY <1>7, <3>1, ComparedFacts DEF h
  <2>2. Tree(Append(SubSeq(stack, 1, n), r.lhs), Append(SubSeq(values, 1, n), d.at),
             d.heap, out, pending, lost)
    BY <1>2, <1>4, <1>5, <1>7, <2>1, TreeReduced DEF TreeOf, d, v
  <2>3. TreeOf'
    BY <1>4, <1>5, <1>7, <2>2 DEF TreeOf
  <2>4. out' = out /\ output' = output
    BY <1>5, <1>7 DEF ReduceBy, Reduce
  <2> QED BY <1>1, <1>2, <1>5, <2>3, <2>4 DEF TreeInv, TreeOf
<1>8. CASE r.rhs = <<"output_variant", "NEWLINE">>
  <2>1. r = VariantRule /\ r.lhs = "output"
    BY <1>8, VariantFacts
  <2>2. h = heap
    BY <2>1, ComparedFacts DEF h
  <2>3. d.at = NULL /\ d.heap = heap
    BY <2>1, <2>2, EndAction DEF d
  <2>4. output = NoOutput
    BY <1>1, <1>8 DEF ReduceBy, Reduce, Emits, PushInv, NoLeak
  <2>5. out = NULL
    BY <1>2, <2>4
  <2>6. "output" \notin Owning
    BY DEF Owning
  <2>7. /\ v[1] # NULL
        /\ Tree(Append(SubSeq(stack, 1, n), "output"),
                Append(SubSeq(values, 1, n), NULL), heap, v[1], pending, lost)
    BY <1>2, <1>4, <1>8, <2>5, <2>6, TreeHandsOver DEF TreeOf, v
  <2>8. TreeOf'
    BY <1>4, <1>5, <1>8, <2>1, <2>3, <2>7 DEF TreeOf
  <2>9. output' # NoOutput
    <3>1. stack[3] = "output_variant" /\ Len(stack) >= 3
      BY <1>2, <1>3, <2>1, ReduceFacts
    <3>2. variant \in Kinds
      BY <1>2, <3>1 DEF PushInv, StackInv
    <3>3. output' = [kind |-> variant]
      BY <1>8 DEF ReduceBy, Reduce, Emits
    <3> QED BY <3>2, <3>3, VariantFacts
  <2> QED BY <1>1, <1>5, <2>8, <2>9 DEF TreeInv, TreeOf
<1> QED BY <1>6, <1>7, <1>8

\* yyerror, and what is above the first n symbols is destroyed.
LEMMA ReportedTree ==
    ASSUME TreeOf, out = NULL, ~heap.crashed,
           NEW n \in 1..Len(stack), Unfreed(stack, n) = {}
    PROVE  LET m == Report(heap)
               g == Destroyed(m.heap, n)
           IN \/ g.crashed
              \/ /\ m.at # NULL
                 /\ Tree(SubSeq(stack, 1, n), SubSeq(values, 1, n), g, m.at,
                         pending, lost)
<1> DEFINE m == Report(heap)
           g == Destroyed(m.heap, n)
<1> SUFFICES \/ g.crashed
             \/ /\ m.at # NULL
                /\ Tree(SubSeq(stack, 1, n), SubSeq(values, 1, n), g, m.at,
                        pending, lost)
  OBVIOUS
<1>1. DOMAIN m.heap = HeapFields
  BY ReportEnds DEF TreeOf, Tree, Ends
<1>2. \/ m.heap.crashed
      \/ m.at # NULL /\ Tree(stack, values, m.heap, m.at, pending, lost)
  BY TreeReported DEF TreeOf
<1> HIDE DEF m
<1>3. CASE m.heap.crashed
  <2>1. g.crashed = m.heap.crashed
    BY <1>1, FreeAllIsFreed DEF Destroyed
  <2> QED BY <1>3, <2>1
<1>4. CASE m.at # NULL /\ Tree(stack, values, m.heap, m.at, pending, lost)
  BY <1>4, TreeDestroyed
<1> QED BY <1>2, <1>3, <1>4

\* Nothing that error recovery pops owns memory without a %destructor.
LEMMA RecoveryFacts ==
    ASSUME PushInv, Len(stack) >= 2, Top(stack) \notin Owning \ Destructors
    PROVE  /\ RecoveryPoint(stack) \in 1..Len(stack)
           /\ Unfreed(stack, RecoveryPoint(stack)) = {}
<1>1. Stack(stack) /\ Len(stack) \in Nat
  BY TypeStack DEF Stack
<1>2. RecoveryPoint(stack) = 2
  BY <1>1, RecoveryIsAtOutputList
<1> QED BY <1>1, <1>2, NothingUnfreed

\* yyerror and error recovery.
LEMMA ReportErrorTree ==
    ASSUME TreeOf, out = NULL, ~heap.crashed, ReportError,
           NEW n \in 1..Len(stack), n = RecoveryPoint(stack),
           Unfreed(stack, n) = {},
           stack' = Append(SubSeq(stack, 1, n), "error"),
           UNCHANGED <<pending, lost>>
    PROVE  heap'.crashed \/ TreeOf'
<1> DEFINE m == Report(heap)
           g == Destroyed(m.heap, n)
<1>1. /\ out' = m.at /\ heap' = g
      /\ values' = Append(SubSeq(values, 1, n), NULL)
  BY DEF ReportError, Recovered, RecoversValues
<1>2. \/ g.crashed
      \/ Tree(SubSeq(stack, 1, n), SubSeq(values, 1, n), g, m.at, pending, lost)
  BY ReportedTree
<1> HIDE DEF m, g
<1>3. "error" \notin Owning
  BY DEF Owning
<1>4. CASE Tree(SubSeq(stack, 1, n), SubSeq(values, 1, n), g, m.at, pending, lost)
  <2>1. Tree(Append(SubSeq(stack, 1, n), "error"),
             Append(SubSeq(values, 1, n), NULL), g, m.at, pending, lost)
    BY <1>3, <1>4, TreePush
  <2> QED BY <1>1, <2>1 DEF TreeOf
<1> QED BY <1>1, <1>2, <1>4

\* The output is a new one: none is overwritten.
LEMMA EmitsFacts ==
    ASSUME TreeInv, ~heap.crashed, NEW o, NEW symbols, Emits(o, symbols), PushInv'
    PROVE  output = NoOutput /\ out = NULL
<1>1. output = NoOutput
  BY DEF Emits, PushInv, NoLeak
<1> QED BY <1>1, LiveFacts

\* A prompt that is not gdb's is reported, and what is popped is destroyed.
LEMMA RejectTree ==
    ASSUME NEW r \in Rules
    PROVE  TreeInv /\ ~heap.crashed /\ inLine /\ RejectName(r) => TreeInv'
<1> SUFFICES ASSUME TreeInv, ~heap.crashed, inLine, RejectName(r) PROVE TreeInv'
  OBVIOUS
<1>1. PushInv'
  BY RejectPromptInv DEF TreeInv, RejectName
<1>2. PushInv /\ Stack(stack) /\ TreeOf /\ r.lhs = "check" /\ IsHandle(r, stack)
      /\ UNCHANGED <<pending, lost, inLine>>
  BY LiveFacts DEF RejectName, RejectPrompt, Reducible, ChecksPrompt
<1>3. output = NoOutput /\ out = NULL
  BY <1>1, EmitsFacts DEF RejectName, RejectPrompt
<1>4. output' # NoOutput
  BY <1>2, VariantFacts
     DEF RejectName, RejectPrompt, Emits, PushInv, PushTypeOK
<1>5. CASE Top(values) = NULL
  <2>1. heap' = Compared(r, heap)
    BY <1>5 DEF RejectName
  <2>2. heap' = [heap EXCEPT !.crashed = TRUE]
    BY <1>2, <1>5, <2>1 DEF Compared, ChecksPrompt
  <2>3. heap'.crashed
    BY <1>2, <2>2 DEF TreeOf, Tree, Good, HeapFields
  <2> QED BY <1>1, <2>3 DEF TreeInv
<1>6. CASE Top(values) # NULL
  <2>1. ReportError
    BY <1>6 DEF RejectName
  <2>2. Top(stack) = "variable"
    BY <1>2, ReduceFacts
  <2>3. Len(stack) >= 2 /\ Top(stack) \notin Owning \ Destructors
    <3>1. Len(stack) # 1
      BY <1>2, <2>2, OutermostSymbols DEF Top
    <3> QED BY <1>2, <2>2, <3>1, StackLength DEF Owning, Destructors
  <2>4. /\ RecoveryPoint(stack) \in 1..Len(stack)
        /\ Unfreed(stack, RecoveryPoint(stack)) = {}
    BY <1>2, <2>3, RecoveryFacts
  <2>5. stack' = Append(SubSeq(stack, 1, RecoveryPoint(stack)), "error")
    BY DEF RejectName, RejectPrompt, Recovers
  <2>6. heap'.crashed \/ TreeOf'
    BY <1>2, <1>3, <2>1, <2>4, <2>5, ReportErrorTree
  <2> QED BY <1>1, <1>2, <1>4, <2>6 DEF TreeInv, TreeOf
<1> QED BY <1>5, <1>6

\* A syntax error is reported once, and what is popped is destroyed.
LEMMA ReportOrDropTree ==
    TreeInv /\ ~heap.crashed /\ inLine /\ ReportOrDrop => TreeInv'
<1> SUFFICES ASSUME TreeInv, ~heap.crashed, inLine, ReportOrDrop PROVE TreeInv'
  OBVIOUS
<1> DEFINE n == RecoveryPoint(stack)
<1>1. PushInv'
  BY SyntaxErrorInv DEF TreeInv, ReportOrDrop
<1>2. PushInv /\ Stack(stack) /\ TreeOf /\ NeedsLookahead(stack)
      /\ (out # NULL => output # NoOutput)
      /\ UNCHANGED <<pending, lost, inLine>>
  BY LiveFacts DEF ReportOrDrop, SyntaxError
<1>3. Top(stack) \notin Owning \ Destructors
  BY <1>2, WaitingStack
<1>4. Len(stack) >= 2
  <2>1. Len(stack) = 1 => Expects(stack) = {"output_list"}
    BY <1>2, ExpectsIsAbove, AboveOutermost, OutermostSymbols
  <2>2. Len(stack) # 1
    BY <1>2, <2>1, TokenSymbols DEF NeedsLookahead
  <2> QED BY <1>2, <2>2, StackLength
<1>5. n \in 1..Len(stack) /\ Unfreed(stack, n) = {}
  BY <1>2, <1>3, <1>4, RecoveryFacts
<1>6. stack' = Append(SubSeq(stack, 1, n), "error")
  BY DEF ReportOrDrop, SyntaxError, Recovers
<1>7. CASE errstatus = 0
  <2>1. Emits(ParseError(lexed), Popped) /\ ReportError
    BY <1>7 DEF ReportOrDrop, SyntaxError
  <2>2. out = NULL
    BY <1>1, <2>1, EmitsFacts
  <2>3. output' # NoOutput
    BY <1>2, <2>1, VariantFacts DEF Emits, PushInv, PushTypeOK
  <2>4. heap'.crashed \/ TreeOf'
    <3> HIDE DEF n
    <3> QED BY <1>2, <1>5, <1>6, <2>1, <2>2, ReportErrorTree DEF n
  <2> QED BY <1>1, <1>2, <2>3, <2>4 DEF TreeInv, TreeOf
<1>8. CASE errstatus # 0
  <2>1. /\ heap' = Destroyed(heap, n)
        /\ values' = Append(SubSeq(values, 1, n), NULL)
        /\ UNCHANGED <<out, output>>
    BY <1>8 DEF ReportOrDrop, SyntaxError, Recovered, RecoversValues
  <2> HIDE DEF n
  <2>2. Tree(SubSeq(stack, 1, n), SubSeq(values, 1, n), heap', out, pending, lost)
    BY <1>2, <1>5, <2>1, TreeDestroyed DEF TreeOf
  <2>3. "error" \notin Owning
    BY DEF Owning
  <2>4. Tree(stack', values', heap', out, pending, lost)
    BY <1>6, <2>1, <2>2, <2>3, TreePush
  <2>5. TreeOf'
    BY <1>2, <2>1, <2>4 DEF TreeOf
  <2> QED BY <1>1, <1>2, <2>1, <2>5 DEF TreeInv, TreeOf
<1> QED BY <1>7, <1>8

\* The bottom of the stack holds no value.
LEMMA BottomOf ==
    ASSUME NEW s, Stack(s), NEW v, NEW h, NEW o, NEW pend, NEW l,
           Tree(SubSeq(s, 1, 1), SubSeq(v, 1, 1), h, o, pend, l)
    PROVE  Tree(<<"bottom">>, <<NULL>>, h, o, pend, l)
<1>1. SubSeq(s, 1, 1) = <<"bottom">>
  <2> DEFINE u == SubSeq(s, 1, 1)
  <2>1. Stack(u) /\ Len(u) = 1 /\ u[1] = s[1]
    BY PrefixIsStack DEF Stack
  <2>2. s[1] = "bottom"
    BY OutermostSymbols
  <2> HIDE DEF u
  <2>3. u = <<u[1]>>
    BY <2>1 DEF Stack
  <2>4. u = <<"bottom">>
    BY <2>1, <2>2, <2>3
  <2> QED BY <2>4 DEF u
<1>2. "bottom" \notin Owning
  BY DEF Owning
<1> DEFINE t == <<"bottom">>
           w == SubSeq(v, 1, 1)
<1>3. Tree(t, w, h, o, pend, l)
  BY <1>1
<1>4. Len(t) = 1 /\ t[1] = "bottom" /\ Len(<<NULL>>) = 1
  OBVIOUS
<1>5. IsSequence(<<NULL>>)
  <2>1. <<NULL>> \in Seq({NULL})
    OBVIOUS
  <2> QED BY <2>1 DEF IsSequence
<1> HIDE DEF t, w
<1>6. Taken(t, w) = {} /\ Taken(t, <<NULL>>) = {}
  <2>1. \A j \in 1..Len(t) : t[j] \notin Owning
    BY <1>2, <1>4
  <2>2. Len(w) = Len(t)
    BY <1>3 DEF Tree, Values
  <2> QED BY <1>4, <2>1, <2>2, NoneTaken
<1>7. Values(t, <<NULL>>, h.objects, {})
  BY <1>2, <1>4, <1>5 DEF Values
<1>8. Tree(t, <<NULL>>, h, o, pend, l)
  BY <1>3, <1>6, <1>7 DEF Tree
<1> QED BY <1>8 DEF t

\* An exhausted stack is reported, and all of it is destroyed.
LEMMA ExhaustTree ==
    TreeInv /\ ~heap.crashed /\ inLine /\ ExhaustStack => TreeInv'
<1> SUFFICES ASSUME TreeInv, ~heap.crashed, inLine, ExhaustStack PROVE TreeInv'
  OBVIOUS
<1> DEFINE m == Report(heap)
           g == Destroyed(m.heap, 1)
<1>1. PushInv'
  BY ExhaustedInv DEF TreeInv, ExhaustStack
<1>2. PushInv /\ Stack(stack) /\ TreeOf /\ UNCHANGED <<pending, lost, inLine>>
  BY LiveFacts DEF ExhaustStack
<1>3. /\ Emits(ParseError(lexed), Unfreed(stack, 1))
      /\ stack' = <<"bottom">> /\ values' = <<NULL>>
      /\ out' = m.at /\ heap' = g
  BY DEF ExhaustStack, Exhausted
<1>4. out = NULL
  BY <1>1, <1>3, EmitsFacts
<1>5. output' # NoOutput
  BY <1>2, <1>3, VariantFacts DEF Emits, PushInv, PushTypeOK
<1>6. 1 \in 1..Len(stack) /\ Unfreed(stack, 1) = {}
  <2>1. Top(stack) \notin Owning \ Destructors
    BY <1>2 DEF ExhaustStack, Exhausted, PushInv, StackInv
  <2> QED BY <1>2, <2>1, NothingUnfreed DEF Stack
<1>7. \/ g.crashed
      \/ Tree(SubSeq(stack, 1, 1), SubSeq(values, 1, 1), g, m.at, pending, lost)
  BY <1>2, <1>4, <1>6, ReportedTree
<1> HIDE DEF m, g
<1>8. g.crashed \/ Tree(<<"bottom">>, <<NULL>>, g, m.at, pending, lost)
  BY <1>2, <1>7, BottomOf
<1>9. heap'.crashed \/ TreeOf'
  BY <1>2, <1>3, <1>8 DEF TreeOf
<1> QED BY <1>1, <1>2, <1>5, <1>9 DEF TreeInv, TreeOf

\* An output goes to its callback with the line in it, or is freed.
LEMMA DeliverTree == TreeInv /\ ~heap.crashed /\ Deliver => TreeInv'
<1> SUFFICES ASSUME TreeInv, ~heap.crashed, Deliver PROVE TreeInv'
  OBVIOUS
<1> DEFINE g == Given(heap, out)
           call == [out |-> out, fn |-> Dispatch(KindAt(heap, out)), fed |-> fed]
<1>1. PushInv' /\ UNCHANGED <<stack, values, lost>> /\ out' = NULL
  BY StutterInv DEF TreeInv, Deliver, pushVars
<1>2. TreeOf /\ out # NULL
  BY LiveFacts DEF Deliver
<1>3. \/ heap' = g /\ pending' = Append(pending, call)
      \/ /\ heap' = FreeAll(g, Call("output", out, <<0, "out">>))
         /\ pending' = pending
  BY DEF Deliver, Given
<1>4. call.out = out
  OBVIOUS
<1> HIDE DEF g, call
<1>5. /\ Tree(stack, values, g, NULL, Append(pending, call), lost)
      /\ Tree(stack, values, FreeAll(g, Call("output", out, <<0, "out">>)),
              NULL, pending, lost)
  BY <1>2, <1>4, TreeDelivered DEF TreeOf, g
<1>6. Tree(stack, values, heap', NULL, pending', lost)
  BY <1>3, <1>5
<1>7. TreeOf'
  BY <1>1, <1>6 DEF TreeOf
<1> QED BY <1>1, <1>7 DEF TreeInv, TreeOf

\* An output that parse_line does not deliver is lost, and owned by nothing else.
LEMMA FailLineTree == TreeInv /\ ~heap.crashed /\ FailLine => TreeInv'
<1> SUFFICES ASSUME TreeInv, ~heap.crashed, FailLine PROVE TreeInv'
  OBVIOUS
<1>1. PushInv' /\ UNCHANGED <<stack, values, heap, pending>> /\ out' = NULL
      /\ lost' = lost \cup ({out} \ {NULL})
  BY StutterInv DEF TreeInv, FailLine, pushVars
<1>2. TreeOf
  BY LiveFacts
<1>3. Tree(stack, values, heap, NULL, pending, lost \cup ({out} \ {NULL}))
  BY <1>2, TreeLost DEF TreeOf
<1>4. TreeOf'
  BY <1>1, <1>3 DEF TreeOf
<1> QED BY <1>1, <1>4 DEF TreeInv, TreeOf

\* The output of the innermost callback is freed, and nothing else.
LEMMA CallbackReturnsTree ==
    TreeInv /\ ~heap.crashed /\ CallbackReturns => TreeInv'
<1> SUFFICES ASSUME TreeInv, ~heap.crashed, CallbackReturns PROVE TreeInv'
  OBVIOUS
<1>1. PushInv' /\ UNCHANGED <<stack, values, out, lost, inLine>>
      /\ pending # << >> /\ pending' = Pop(pending, 1)
      /\ heap' = FreeAll(heap, Call("output", Top(pending).out,
                                    <<Len(pending), "pending">>))
  BY StutterInv DEF TreeInv, CallbackReturns, pushVars
<1>2. TreeOf /\ out = NULL
  BY LiveFacts DEF CallbackReturns
<1>3. Tree(stack, values, heap', NULL, pending', lost)
  BY <1>1, <1>2, TreeReturned DEF TreeOf
<1>4. TreeOf'
  BY <1>1, <1>2, <1>3 DEF TreeOf
<1> QED BY <1>1, <1>2, <1>4 DEF TreeInv, TreeOf

\* The parser starts with nothing allocated.
LEMMA InitTree == Init => TreeInv
<1> SUFFICES ASSUME Init PROVE TreeInv
  OBVIOUS
<1>1. PushInv
  BY InitInv DEF Init
<1>2. /\ stack = <<"bottom">> /\ values = <<NULL>> /\ out = NULL
      /\ pending = << >> /\ lost = {}
  BY DEF Init, PushInit
<1>3. PICK fault \in Faults : heap = EmptyHeap(fault)
  BY DEF Init
<1> DEFINE none == << >>
<1>4. DOMAIN none = {}
  OBVIOUS
<1>5. DOMAIN heap = HeapFields /\ ~heap.undefined /\ heap.objects = none
  BY <1>3 DEF EmptyHeap, HeapFields
<1> HIDE DEF none
<1>6. Sound(none, {})
  <2>1. Forest(none, {})
    BY <1>4, FS_EmptySet DEF Forest
  <2>2. Rooted(none, {})
    BY <1>4 DEF Rooted
  <2>3. Lists(none)
    BY <1>4 DEF Lists, ListsOf
  <2> QED BY <2>1, <2>2, <2>3 DEF Sound
<1>7. Good(heap, {})
  BY <1>5, <1>6 DEF Good
<1>8. /\ Len(stack) = 1 /\ stack[1] = "bottom" /\ Len(values) = 1
      /\ "bottom" \notin Owning
  BY <1>2 DEF Owning
<1>9. IsSequence(stack) /\ IsSequence(values) /\ IsSequence(pending)
  <2>1. stack \in Seq({"bottom"}) /\ values \in Seq({NULL}) /\ pending \in Seq({})
    BY <1>2
  <2> QED BY <2>1 DEF IsSequence
<1>10. Taken(stack, values) = {}
  BY <1>8, NoneTaken
<1>11. Values(stack, values, heap.objects, {})
  BY <1>8, <1>9 DEF Values
<1>12. Len(pending) = 0
  BY <1>2
<1>13. Others(out, pending, lost) = {}
  BY <1>2, <1>12 DEF Others
<1>14. OthersFit(out, pending, lost, heap.objects)
  BY <1>2, <1>9, <1>12 DEF OthersFit
<1>15. Tree(stack, values, heap, out, pending, lost)
  BY <1>7, <1>9, <1>10, <1>11, <1>13, <1>14 DEF Tree
<1> QED BY <1>1, <1>2, <1>15 DEF TreeInv

\* Every step of the program keeps the invariant.
LEMMA TreeInvStep == TreeInv /\ [Next]_vars => TreeInv'
<1> SUFFICES ASSUME TreeInv, [Next]_vars PROVE TreeInv'
  OBVIOUS
<1>1. CASE UNCHANGED vars
  <2>1. UNCHANGED pushVars /\ UNCHANGED <<stack, values, heap, out, pending, lost,
                                          inLine, output>>
    BY <1>1 DEF vars, pushVars, treeVars
  <2>2. PushInv'
    BY <2>1, StutterInv DEF TreeInv
  <2> QED BY <2>1, <2>2 DEF TreeInv
<1>2. CASE Next
  <2>0. ~heap.crashed
    BY <1>2 DEF Next
  <2>1. CASE ParseLine
    BY <2>0, <2>1, ParseLineTree
  <2>2. ASSUME NEW x \in Lexemes, NEW p \in Positions, Token(x, p)
        PROVE  TreeInv'
    BY <2>0, <2>2, TokenTree
  <2>3. CASE inLine /\ ShiftToken
    BY <2>0, <2>3, ShiftTree
  <2>4. ASSUME NEW r \in Rules, inLine, ReduceBy(r) PROVE TreeInv'
    BY <2>0, <2>4, ReduceTree
  <2>5. ASSUME NEW r \in Rules, inLine, RejectName(r) PROVE TreeInv'
    BY <2>0, <2>5, RejectTree
  <2>6. CASE inLine /\ ReportOrDrop
    BY <2>0, <2>6, ReportOrDropTree
  <2>7. CASE inLine /\ PushReturns
    BY <2>0, <2>7, PushReturnsTree
  <2>8. CASE inLine /\ ExhaustStack
    BY <2>0, <2>8, ExhaustTree
  <2>9. CASE Deliver
    BY <2>0, <2>9, DeliverTree
  <2>10. CASE FailLine
    BY <2>0, <2>10, FailLineTree
  <2>11. CASE CallbackReturns
    BY <2>0, <2>11, CallbackReturnsTree
  <2> QED BY <1>2, <2>1, <2>2, <2>3, <2>4, <2>5, <2>6, <2>7, <2>8, <2>9, <2>10,
             <2>11 DEF Next, ParseStep
<1> QED BY <1>1, <1>2

\* Whatever the lines and wherever memory fails, the heap is a forest whose
\* roots are the values on the stack and the outputs in the program's hands.
THEOREM TreeInvariance == Spec => []TreeInv
BY InitTree, TreeInvStep, PTL DEF Spec

\* What the free function of an object frees is what its pointers own.
LEMMA RefsAre ==
    ASSUME NEW p, NEW o, WellFormed(o), NEW at, at # NULL, NEW place
    PROVE  (Pointer(at, place) \in Refs(p, o)) <=>
           (\E c \in Frees(o.type, p, o) : c.at = at /\ c.place = place)
<1> DEFINE Is(f) == o[f] = at /\ <<p, f>> = place
<1>1. ASSUME NEW f, NEW b
      PROVE  Pointer(o[f], <<p, f>>) = Pointer(at, place) <=> Is(f)
  BY DEF Pointer
<1>2. ASSUME NEW type, NEW f, NEW b, NEW c
      PROVE  (c \in Call(type, o[f], <<p, f>>) /\ c.at = at /\ c.place = place)
             => Is(f)
  BY DEF Call
<1>3. ASSUME NEW type, NEW f, Is(f)
      PROVE  \E c \in Call(type, o[f], <<p, f>>) : c.at = at /\ c.place = place
  BY <1>3 DEF Call
<1> HIDE DEF Is
<1>4. CASE o.type = "text"
  BY <1>4 DEF Refs, Frees
<1>5. CASE o.type = "output"
  <2>1. (Pointer(at, place) \in Refs(p, o)) <=>
           Is("variant") \/ Is("line") \/ Is("next")
    BY <1>1, <1>5 DEF Refs
  <2>2. o.kind = "PROMPT" => ~Is("variant")
    BY <1>5 DEF WellFormed, Is
  <2>3. o.kind \in {"OOB", "RESULT", "PROMPT", "PARSE_ERROR"}
    BY <1>5 DEF WellFormed
  <2>4. Frees(o.type, p, o) = OutputFree(p, o)
    BY <1>5 DEF Frees
  <2> QED BY <1>2, <1>3, <2>1, <2>2, <2>3, <2>4 DEF OutputFree
<1>6. CASE o.type = "oob_record"
  <2>1. (Pointer(at, place) \in Refs(p, o)) <=> Is("variant")
    BY <1>1, <1>6 DEF Refs
  <2> QED BY <1>2, <1>3, <1>6, <2>1 DEF Frees, OobRecordFree
<1>7. CASE o.type \in {"result_record", "async_record"}
  <2>1. (Pointer(at, place) \in Refs(p, o)) <=> Is("token") \/ Is("result")
    BY <1>1, <1>7 DEF Refs
  <2> QED BY <1>2, <1>3, <1>7, <2>1 DEF Frees, RecordFree
<1>8. CASE o.type = "stream_record"
  <2>1. (Pointer(at, place) \in Refs(p, o)) <=> Is("cstring")
    BY <1>1, <1>8 DEF Refs
  <2> QED BY <1>2, <1>3, <1>8, <2>1 DEF Frees, StreamRecordFree
<1>9. CASE o.type = "result"
  <2>1. (Pointer(at, place) \in Refs(p, o)) <=>
           Is("variable") \/ Is("variant") \/ Is("next")
    BY <1>1, <1>9 DEF Refs
  <2> QED BY <1>2, <1>3, <1>9, <2>1 DEF Frees, ResultFree
<1>10. CASE o.type = "result_list"
  <2>1. (Pointer(at, place) \in Refs(p, o)) <=> Is("head")
    BY <1>1, <1>10 DEF Refs
  <2> QED BY <1>2, <1>3, <1>10, <2>1 DEF Frees
<1> QED BY <1>4, <1>5, <1>6, <1>7, <1>8, <1>9, <1>10 DEF WellFormed, Types

\* What an object refers to is pointers.
LEMMA RefsArePointers ==
    ASSUME NEW p, NEW o, WellFormed(o), NEW r \in Refs(p, o)
    PROVE  r = Pointer(r.at, r.place)
<1>1. ASSUME NEW f, r = Pointer(o[f], <<p, f>>) PROVE r = Pointer(r.at, r.place)
  BY <1>1 DEF Pointer
<1> QED BY <1>1 DEF Refs, WellFormed, Types

\* The roots of the program are those of its heap, each held in one place.
LEMMA RootsAre ==
    ASSUME Tree(stack, values, heap, out, pending, lost)
    PROVE  LET roots == Taken(stack, values) \cup Others(out, pending, lost)
           IN /\ \A r \in Roots : r.at # NULL => r.at \in roots
              /\ \A q \in roots : \E r \in Roots : r.at = q
              /\ \A r, s \in Roots : r.at # NULL /\ r.at = s.at => r = s
<1> DEFINE taken == Taken(stack, values)
           others == Others(out, pending, lost)
           OnStack(r) == \E i \in 1..Len(stack) :
                            /\ stack[i] \in Owning
                            /\ r = Pointer(values[i], <<i, "stack">>)
           Of1(r) == r = Pointer(out, <<0, "out">>)
           InCallback(r) == \E i \in 1..Len(pending) :
                               r = Pointer(pending[i].out, <<i, "pending">>)
           IsLost(r) == \E p \in lost : r = Pointer(p, <<p, "lost">>)
<1>1. \A r : r \in Roots <=>
                OnStack(r) \/ Of1(r) \/ InCallback(r) \/ IsLost(r)
  BY DEF Roots
<1>2. Len(values) = Len(stack) /\ taken \cap others = {}
      /\ OthersFit(out, pending, lost, heap.objects)
  BY DEF Tree, Values
<1>3. ASSUME NEW r, OnStack(r), r.at # NULL PROVE r.at \in taken
  BY <1>2, <1>3 DEF Taken, Pointer
<1>4. ASSUME NEW r, r.at # NULL, Of1(r) \/ InCallback(r) \/ IsLost(r)
      PROVE  r.at \in others
  BY <1>4 DEF Others, Pointer
<1>5. ASSUME NEW q \in taken PROVE \E r : OnStack(r) /\ r.at = q
  <2>1. PICK i \in 1..Len(stack) : stack[i] \in Owning /\ values[i] = q
    BY <1>2 DEF Taken
  <2>2. OnStack(Pointer(values[i], <<i, "stack">>))
    BY <2>1
  <2> QED BY <2>1, <2>2 DEF Pointer
<1>6. ASSUME NEW q \in others
      PROVE  \E r : (Of1(r) \/ InCallback(r) \/ IsLost(r)) /\ r.at = q
  <2>1. CASE q = out
    <3> DEFINE r == Pointer(out, <<0, "out">>)
    <3>1. Of1(r)
      OBVIOUS
    <3>2. r.at = q
      BY <2>1 DEF Pointer
    <3> HIDE DEF r, Of1, InCallback, IsLost
    <3> QED BY <3>1, <3>2
  <2>2. ASSUME NEW i \in 1..Len(pending), q = pending[i].out
        PROVE  \E r : InCallback(r) /\ r.at = q
    <3>1. InCallback(Pointer(pending[i].out, <<i, "pending">>))
      OBVIOUS
    <3> QED BY <2>2, <3>1 DEF Pointer
  <2>3. CASE q \in lost
    <3>1. IsLost(Pointer(q, <<q, "lost">>))
      BY <2>3
    <3> QED BY <2>3, <3>1 DEF Pointer
  <2> HIDE DEF Of1, InCallback, IsLost
  <2> QED BY <2>1, <2>2, <2>3 DEF Others
<1>7. ASSUME NEW r, NEW s, OnStack(r), OnStack(s), r.at # NULL, r.at = s.at
      PROVE  r = s
  <2>1. PICK i \in 1..Len(stack) : /\ stack[i] \in Owning
                                   /\ r = Pointer(values[i], <<i, "stack">>)
    BY <1>7
  <2>2. PICK j \in 1..Len(stack) : /\ stack[j] \in Owning
                                   /\ s = Pointer(values[j], <<j, "stack">>)
    BY <1>7
  <2>3. values[i] = values[j] /\ values[i] # NULL
    BY <1>7, <2>1, <2>2 DEF Pointer
  <2>4. i = j
    BY <1>2, <2>1, <2>2, <2>3 DEF Tree, Values
  <2> QED BY <2>1, <2>2, <2>4
<1>8. ASSUME NEW r, NEW s, r.at # NULL, r.at = s.at,
             Of1(r) \/ InCallback(r) \/ IsLost(r),
             Of1(s) \/ InCallback(s) \/ IsLost(s)
      PROVE  r = s
  <2>1. ASSUME NEW t, NEW u, Of1(t), InCallback(u) PROVE t.at # u.at
    BY <1>2, <2>1 DEF OthersFit, Pointer
  <2>2. ASSUME NEW t, NEW u, Of1(t), IsLost(u) PROVE t.at # u.at
    BY <1>2, <2>2 DEF OthersFit, Pointer
  <2>3. ASSUME NEW t, NEW u, InCallback(t), IsLost(u) PROVE t.at # u.at
    BY <1>2, <2>3 DEF OthersFit, Pointer
  <2>4. ASSUME InCallback(r), InCallback(s) PROVE r = s
    <3>1. PICK i \in 1..Len(pending) :
                  r = Pointer(pending[i].out, <<i, "pending">>)
      BY <2>4
    <3>2. PICK j \in 1..Len(pending) :
                  s = Pointer(pending[j].out, <<j, "pending">>)
      BY <2>4
    <3>3. pending[i].out = pending[j].out
      BY <1>8, <3>1, <3>2 DEF Pointer
    <3>4. i = j
      BY <1>2, <3>3 DEF OthersFit
    <3> QED BY <3>1, <3>2, <3>4
  <2>5. ASSUME IsLost(r), IsLost(s) PROVE r = s
    BY <1>8, <2>5 DEF Pointer
  <2>6. ASSUME Of1(r), Of1(s) PROVE r = s
    BY <2>6
  <2> HIDE DEF Of1, InCallback, IsLost
  <2> QED BY <1>8, <2>1, <2>2, <2>3, <2>4, <2>5, <2>6
<1> HIDE DEF taken, others, OnStack, Of1, InCallback, IsLost
<1>9. \A r \in Roots : r.at # NULL => r.at \in taken \cup others
  BY <1>1, <1>3, <1>4
<1>10. \A q \in taken \cup others : \E r \in Roots : r.at = q
  BY <1>1, <1>5, <1>6
<1>11. \A r, s \in Roots : r.at # NULL /\ r.at = s.at => r = s
  BY <1>1, <1>2, <1>3, <1>4, <1>7, <1>8
<1> QED BY <1>9, <1>10, <1>11 DEF taken, others

\* A forest whose roots are held once is owned once.
LEMMA TreeIsOwnedOnce == TreeInv => OneOwner
<1> SUFFICES ASSUME TreeInv, ~heap.crashed
             PROVE  /\ ~heap.undefined
                    /\ LET owning == {p \in Pointers : p.at # NULL}
                       IN /\ {p.at : p \in owning} = DOMAIN heap.objects
                          /\ \A p, q \in owning : p.at = q.at => p = q
  BY DEF OneOwner
<1> DEFINE objects == heap.objects
           roots == Taken(stack, values) \cup Others(out, pending, lost)
           owning == {p \in Pointers : p.at # NULL}
<1>1. Tree(stack, values, heap, out, pending, lost)
  BY DEF TreeInv
<1>2. ~heap.undefined /\ Sound(objects, roots)
  BY <1>1 DEF Tree, Good
<1>3. Forest(objects, roots)
  BY <1>2 DEF Sound
<1>4. /\ \A r \in Roots : r.at # NULL => r.at \in roots
      /\ \A q \in roots : \E r \in Roots : r.at = q
      /\ \A r, s \in Roots : r.at # NULL /\ r.at = s.at => r = s
  BY <1>1, RootsAre
<1>5. \A p : p \in Pointers <=>
         p \in Roots \/ \E q \in DOMAIN objects : p \in Refs(q, objects[q])
  BY DEF Pointers
<1>6. /\ NULL \notin DOMAIN objects /\ roots \subseteq DOMAIN objects
      /\ \A p \in DOMAIN objects : WellFormed(objects[p])
      /\ \A p \in DOMAIN objects :
            p \in roots \/ \E q \in DOMAIN objects : \E c \in Of(objects, q) : c.at = p
      /\ \A q \in DOMAIN objects : \A c \in Of(objects, q) :
            c.at \in DOMAIN objects \ roots
      /\ \A q, r \in DOMAIN objects :
            \A c \in Of(objects, q), d \in Of(objects, r) : c.at = d.at => c = d
  BY <1>3 DEF Forest, NULL
<1> HIDE DEF objects, roots
\* A pointer that an object holds is one of its calls.
<1>7. ASSUME NEW q \in DOMAIN objects, NEW p \in Refs(q, objects[q]), p.at # NULL
      PROVE  \E c \in Of(objects, q) : p = Pointer(c.at, c.place)
  <2>1. p = Pointer(p.at, p.place)
    BY <1>6, RefsArePointers
  <2>2. PICK c \in Frees(objects[q].type, q, objects[q]) :
                c.at = p.at /\ c.place = p.place
    BY <1>6, <1>7, <2>1, RefsAre
  <2> QED BY <2>1, <2>2 DEF Of
<1>8. ASSUME NEW q \in DOMAIN objects, NEW c \in Of(objects, q)
      PROVE  \E p \in Refs(q, objects[q]) : p.at = c.at
  <2>1. c.at # NULL
    BY <1>6
  <2>2. Pointer(c.at, c.place) \in Refs(q, objects[q])
    BY <1>6, <2>1, RefsAre DEF Of
  <2> QED BY <2>2 DEF Pointer
<1>9. ASSUME NEW p \in owning PROVE p.at \in DOMAIN objects
  <2>1. CASE p \in Roots
    BY <1>4, <1>6, <2>1
  <2>2. ASSUME NEW q \in DOMAIN objects, p \in Refs(q, objects[q])
        PROVE  p.at \in DOMAIN objects
    BY <1>6, <1>7, <2>2 DEF Pointer
  <2> QED BY <1>5, <2>1, <2>2
<1>10. ASSUME NEW x \in DOMAIN objects PROVE \E p \in owning : p.at = x
  <2>0. x # NULL
    BY <1>6
  <2>1. CASE x \in roots
    BY <1>4, <1>5, <2>0, <2>1
  <2>2. ASSUME NEW q \in DOMAIN objects, NEW c \in Of(objects, q), c.at = x
        PROVE  \E p \in owning : p.at = x
    BY <1>5, <1>8, <2>0, <2>2
  <2> QED BY <1>6, <2>1, <2>2
<1>11. ASSUME NEW p \in owning, NEW q \in owning, p.at = q.at PROVE p = q
  <2>1. CASE p \in Roots /\ q \in Roots
    BY <1>4, <1>11, <2>1
  <2>2. ASSUME NEW a \in owning, a \in Roots,
               NEW x \in DOMAIN objects, NEW b \in Refs(x, objects[x])
        PROVE  a.at # b.at
    <3>1. a.at \in roots /\ a.at # NULL
      BY <1>4, <2>2
    <3> SUFFICES ASSUME b.at # NULL PROVE b.at \notin roots
      BY <3>1
    <3> QED BY <1>6, <1>7 DEF Pointer
  <2>3. ASSUME NEW x \in DOMAIN objects, p \in Refs(x, objects[x]),
               NEW y \in DOMAIN objects, q \in Refs(y, objects[y])
        PROVE  p = q
    <3>1. PICK c \in Of(objects, x) : p = Pointer(c.at, c.place)
      BY <1>7, <2>3
    <3>2. PICK d \in Of(objects, y) : q = Pointer(d.at, d.place)
      BY <1>7, <2>3
    <3>3. c.at = d.at
      BY <1>11, <3>1, <3>2 DEF Pointer
    <3> QED BY <1>6, <3>1, <3>2, <3>3
  <2> QED BY <1>5, <1>11, <2>1, <2>2, <2>3
<1>12. {p.at : p \in owning} = DOMAIN objects
  BY <1>9, <1>10
<1> QED BY <1>2, <1>11, <1>12 DEF objects

\* Nothing of the parse tree leaks, is freed twice or used after its free:
\* whatever the lines are, wherever they go wrong, whichever callbacks are set
\* and however they nest, and whichever allocation fails, what is allocated is
\* what is pointed to, from one place, until the program dereferences NULL.
THEOREM EverythingIsOwnedOnce == Spec => []OneOwner
BY TreeInvariance, TreeIsOwnedOnce, PTL

\* A forest without a root is empty: its objects do not own each other in a
\* circle.
LEMMA TreeIsFreed == TreeInv => AllIsFreed
<1> SUFFICES ASSUME TreeInv, ~heap.crashed, ~inLine, Resynced,
                    pending = << >>, lost = {}
             PROVE  DOMAIN heap.objects = {}
  BY DEF AllIsFreed
<1>1. Tree(stack, values, heap, out, pending, lost) /\ out = NULL
  BY DEF TreeInv
<1>2. Others(out, pending, lost) = {}
  BY <1>1 DEF Others
<1>3. Taken(stack, values) = {}
  <2>1. \A i \in 1..Len(stack) : stack[i] \notin Owning
    BY DEF Resynced, Owning
  <2>2. Len(values) = Len(stack)
    BY <1>1 DEF Tree, Values
  <2> QED BY <2>1, <2>2 DEF Taken
<1>4. Rooted(heap.objects, {})
  BY <1>1, <1>2, <1>3 DEF Tree, Good, Sound
<1>5. \A T \in SUBSET DOMAIN heap.objects :
         T # {} => \E q \in T : \E r \in DOMAIN heap.objects \ T :
                      \E c \in Of(heap.objects, r) : c.at = q
  BY <1>4 DEF Rooted
<1> QED BY <1>5

\* Between two lines that the parser has seen the end of, whatever they were,
\* everything that was built for them has been freed.
THEOREM NothingIsKept == Spec => []AllIsFreed
BY TreeInvariance, TreeIsFreed, PTL

-----------------------------------------------------------------------------
(* What a step leaves alone.                                               *)

\* K holds some of the roots, and of what is owned by what it holds.
Reached(objects, roots, K) ==
    /\ K \subseteq DOMAIN objects
    /\ \A x \in K :
          x \in roots \/ \E q \in K : \E c \in Of(objects, q) : c.at = x

\* The objects in K are the same in h and in g.
Same(h, g, K) ==
    \A x \in K : x \in DOMAIN g.objects /\ g.objects[x] = h.objects[x]

\* What is reached from the roots is left alone.
Stays(h, g, roots) == \A K : Reached(h.objects, roots, K) => Same(h, g, K)

\* A root is reached from no other.
LEMMA RootIsNotReached ==
    ASSUME NEW objects, NEW roots, Forest(objects, roots), NEW p \in roots,
           NEW kept, p \notin kept, NEW K, Reached(objects, kept, K)
    PROVE  p \notin K
<1> SUFFICES ASSUME p \in K PROVE FALSE
  OBVIOUS
<1>1. PICK q \in K : \E c \in Of(objects, q) : c.at = p
  BY DEF Reached
<1>2. q \in DOMAIN objects
  BY DEF Reached
<1> QED BY <1>1, <1>2 DEF Forest

\* Two steps that leave the same alone.
LEMMA StaysTwice ==
    ASSUME NEW h, NEW m, NEW g, NEW kept, Stays(h, m, kept), Stays(m, g, kept)
    PROVE  Stays(h, g, kept)
<1> SUFFICES ASSUME NEW K, Reached(h.objects, kept, K) PROVE Same(h, g, K)
  BY DEF Stays
<1>1. Same(h, m, K)
  BY DEF Stays
<1>2. \A q \in K : Of(m.objects, q) = Of(h.objects, q)
  BY <1>1 DEF Same, Of
<1>3. Reached(m.objects, kept, K)
  BY <1>1, <1>2 DEF Reached, Same
<1>4. Same(m, g, K)
  BY <1>3 DEF Stays
<1> QED BY <1>1, <1>4 DEF Same

\* Less is reached from fewer roots.
LEMMA StaysLess ==
    ASSUME NEW h, NEW g, NEW roots, Stays(h, g, roots), NEW kept,
           kept \subseteq roots
    PROVE  Stays(h, g, kept)
BY DEF Stays, Reached

\* The roots themselves are left alone.
LEMMA StaysRoots ==
    ASSUME NEW h, NEW g, NEW roots, Stays(h, g, roots),
           roots \subseteq DOMAIN h.objects
    PROVE  Same(h, g, roots)
<1>1. Reached(h.objects, roots, roots)
  BY DEF Reached
<1> QED BY <1>1 DEF Stays

\* A change of roots changes nothing that is reached from the others.
LEMMA OthersStay ==
    ASSUME NEW h, NEW roots, Forest(h.objects, roots), NEW g, NEW C, NEW kept,
           C \cap DOMAIN h.objects \subseteq roots \ kept,
           Same(h, g, DOMAIN h.objects \ C)
    PROVE  Stays(h, g, kept)
<1> SUFFICES ASSUME NEW K, Reached(h.objects, kept, K) PROVE Same(h, g, K)
  BY DEF Stays
<1>1. K \subseteq DOMAIN h.objects
  BY DEF Reached
<1>2. \A p \in C \cap DOMAIN h.objects : p \notin K
  BY RootIsNotReached
<1> QED BY <1>1, <1>2 DEF Same

\* The heap as it was.
LEMMA NothingChanges ==
    ASSUME NEW h, NEW g, g.objects = h.objects, NEW kept
    PROVE  Stays(h, g, kept)
BY DEF Stays, Same, Reached

\* An allocation changes nothing that there was.
LEMMA MallocStays ==
    ASSUME NEW h, DOMAIN h = HeapFields, IsFiniteSet(DOMAIN h.objects), NEW o,
           NEW kept
    PROVE  /\ Stays(h, Malloc(h, o).heap, kept)
           /\ Same(h, Malloc(h, o).heap, DOMAIN h.objects)
<1> DEFINE m == Malloc(h, o)
<1>1. \A q \in DOMAIN h.objects :
         q \in DOMAIN m.heap.objects /\ m.heap.objects[q] = h.objects[q]
  <2>1. /\ m.at = NULL => m.heap.objects = h.objects
        /\ m.at # NULL =>
              /\ DOMAIN m.heap.objects = DOMAIN h.objects \cup {m.at}
              /\ \A q \in DOMAIN h.objects : m.heap.objects[q] = h.objects[q]
    BY MallocFacts
  <2> HIDE DEF m
  <2> QED BY <2>1
<1> HIDE DEF m
<1> QED BY <1>1 DEF Stays, Same, Reached, m

\* So does one that is not looked at.
LEMMA StructStays ==
    ASSUME NEW h, DOMAIN h = HeapFields, IsFiniteSet(DOMAIN h.objects), NEW o,
           NEW kept
    PROVE  /\ Stays(h, Struct(h, o).heap, kept)
           /\ Same(h, Struct(h, o).heap, DOMAIN h.objects)
<1> DEFINE made == Malloc(h, o)
           m == Struct(h, o)
<1>1. DOMAIN made = {"at", "heap"} /\ DOMAIN made.heap = HeapFields
  BY MallocFacts
<1>2. m = IF made.at = NULL THEN [made EXCEPT !.heap.crashed = TRUE] ELSE made
  BY DEF Struct
<1>3. Stays(h, made.heap, kept) /\ Same(h, made.heap, DOMAIN h.objects)
  BY MallocStays
<1> HIDE DEF made, m
<1>4. m.heap.objects = made.heap.objects
  <2>1. CASE made.at = NULL
    <3>1. m.heap = [made.heap EXCEPT !.crashed = TRUE]
      BY <1>1, <1>2, <2>1
    <3> QED BY <1>1, <3>1 DEF HeapFields
  <2> QED BY <1>2, <2>1
<1>5. Stays(h, m.heap, kept) /\ Same(h, m.heap, DOMAIN h.objects)
  BY <1>3, <1>4 DEF Stays, Same
<1> QED BY <1>5 DEF m

\* A free changes nothing but what is freed.
LEMMA FreeChanges ==
    ASSUME NEW h, DOMAIN h = HeapFields, NEW p
    PROVE  Same(h, Free(h, p), DOMAIN h.objects \ {p})
<1> DEFINE g == Free(h, p)
           less == Restrict(h.objects, DOMAIN h.objects \ {p})
<1>1. CASE p = NULL \/ p \notin DOMAIN h.objects
  <2>1. g.objects = h.objects
    BY <1>1 DEF Free, HeapFields
  <2> HIDE DEF g
  <2> QED BY <2>1 DEF Same, g
<1>2. CASE p # NULL /\ p \in DOMAIN h.objects
  <2>1. g.objects = less
    BY <1>2, FreeFacts
  <2>2. /\ DOMAIN less = DOMAIN h.objects \ {p}
        /\ \A q \in DOMAIN less : less[q] = h.objects[q]
    BY DEF Restrict
  <2> HIDE DEF g, less
  <2> QED BY <2>1, <2>2 DEF Same, g
<1> QED BY <1>1, <1>2

\* What is put at the end of a list changes the list and its end: neither is
\* reached from another root.
LEMMA PushBackStays ==
    ASSUME NEW h, DOMAIN h = HeapFields, NEW roots, Sound(h.objects, roots),
           NEW list \in roots, h.objects[list].type = "result_list",
           NEW result, NEW kept, kept \subseteq roots \ {list}
    PROVE  Stays(h, PushBack(h, list, result), kept)
<1> DEFINE objects == h.objects
           tail == objects[list].tail
           linked == [objects EXCEPT ![tail] = IF tail = list
                                               THEN [@ EXCEPT !.head = result]
                                               ELSE [@ EXCEPT !.next = result]]
           more == [linked EXCEPT ![list].tail = result]
           g == PushBack(h, list, result)
<1>1. Forest(objects, roots) /\ Rooted(objects, roots)
  BY DEF Sound
<1>2. list \in ListsOf(objects)
  BY <1>1 DEF ListsOf, Forest
<1>3. PICK S : Reaches(objects, list, S)
  BY <1>2 DEF Sound, Lists, Tailed
<1>4. \A x \in DOMAIN objects \ {list, tail} :
         x \in DOMAIN g.objects /\ g.objects[x] = objects[x]
  <2>1. g = [h EXCEPT !.objects = more]
    BY DEF PushBack
  <2>2. \A x \in DOMAIN objects \ {list, tail} :
           x \in DOMAIN more /\ more[x] = objects[x]
    OBVIOUS
  <2> HIDE DEF more, g
  <2> QED BY <2>1, <2>2 DEF HeapFields
<1> HIDE DEF g
<1> SUFFICES ASSUME NEW K, Reached(objects, kept, K) PROVE Same(h, g, K)
  BY DEF Stays, g
<1>5. list \notin K
  <2>1. list \notin kept
    OBVIOUS
  <2> HIDE DEF objects
  <2> QED BY <1>1, <2>1, RootIsNotReached
<1> HIDE DEF objects, tail
<1>6. ASSUME tail \in K PROVE FALSE
  <2> DEFINE T == S \cap K
  <2>1. /\ S \subseteq DOMAIN objects /\ tail \in S
        /\ \A q \in S \ {list} : \E r \in S : \E c \in Of(objects, r) : c.at = q
    BY <1>3 DEF Reaches, tail, objects
  <2>2. T \in SUBSET DOMAIN objects /\ T # {}
    BY <1>6, <2>1
  <2>3. PICK q \in T : \/ q \in roots
                       \/ \E r \in DOMAIN objects \ T :
                             \E c \in Of(objects, r) : c.at = q
    BY <1>1, <2>2 DEF Rooted
  <2>4. PICK s \in S : \E c \in Of(objects, s) : c.at = q
    BY <1>5, <2>1, <2>3
  <2>5. PICK c \in Of(objects, s) : c.at = q
    BY <2>4
  <2>6. q \notin roots
    BY <1>1, <2>1, <2>5 DEF Forest
  <2>7. PICK r \in DOMAIN objects \ T : \E d \in Of(objects, r) : d.at = q
    BY <2>3, <2>6
  <2>8. PICK d \in Of(objects, r) : d.at = q
    BY <2>7
  <2>9. PICK k \in K : \E e \in Of(objects, k) : e.at = q
    BY <2>3, <2>6 DEF Reached
  <2>10. PICK e \in Of(objects, k) : e.at = q
    BY <2>9
  <2>11. k \in DOMAIN objects /\ s \in DOMAIN objects
    BY <2>1 DEF Reached
  <2>12. c = d /\ e = d
    BY <1>1, <2>5, <2>7, <2>8, <2>10, <2>11 DEF Forest
  <2>13. c.place[1] = s /\ d.place[1] = r /\ e.place[1] = k
    BY <1>1, <2>7, <2>11, OfFacts DEF Forest
  <2> QED BY <2>7, <2>4, <2>9, <2>12, <2>13
<1> QED BY <1>4, <1>5, <1>6 DEF Same, Reached, objects

\* An empty result list is allocated.
LEMMA ResultListAllocStays ==
    ASSUME NEW h, NEW roots, Good(h, roots), NEW kept
    PROVE  Stays(h, ResultListAlloc(h).heap, kept)
<1> DEFINE made == Struct(h, ResultList(NULL))
           p == made.at
           more == [q \in DOMAIN made.heap.objects |->
                       IF q = p THEN ResultList(p) ELSE made.heap.objects[q]]
           m == ResultListAlloc(h)
<1>1. /\ DOMAIN made = {"at", "heap"} /\ DOMAIN made.heap = HeapFields
      /\ p \notin DOMAIN h.objects
      /\ Same(h, made.heap, DOMAIN h.objects)
  <2>1. /\ DOMAIN made = {"at", "heap"} /\ DOMAIN made.heap = HeapFields
        /\ p # NULL => p \notin DOMAIN h.objects
    BY StructFacts, GoodHeap DEF Good
  <2>2. Same(h, made.heap, DOMAIN h.objects)
    BY StructStays, GoodHeap DEF Good
  <2>3. NULL \notin DOMAIN h.objects
    BY GoodHeap DEF NULL
  <2> HIDE DEF made
  <2> QED BY <2>1, <2>2, <2>3
<1>2. m = [made EXCEPT !.heap.objects = more]
  BY DEF ResultListAlloc
<1> HIDE DEF made, m
<1>3. m.heap.objects = more
  <2> HIDE DEF more
  <2> QED BY <1>1, <1>2 DEF HeapFields
<1>4. \A x \in DOMAIN h.objects :
         x \in DOMAIN m.heap.objects /\ m.heap.objects[x] = h.objects[x]
  BY <1>1, <1>3 DEF Same
<1> QED BY <1>4 DEF Stays, Same, Reached, m

\* One call of a free function leaves alone what is reached from what is kept.
LEMMA FreeOneStays ==
    ASSUME NEW s, DOMAIN s = {"objects", "todo", "undefined"}, NEW keep,
           Freeing(s.objects, keep, s.todo), s.todo # {}
    PROVE  Stays(s, FreeOne(s), keep)
<1> DEFINE call == CHOOSE c \in s.todo : TRUE
           rest == s.todo \ {call}
           p == call.at
           roots == keep \cup {c.at : c \in s.todo}
           left == Restrict(s.objects, DOMAIN s.objects \ {p})
           more == rest \cup Frees(call.type, p, s.objects[p])
           t == FreeOne(s)
<1>1. call \in s.todo
  OBVIOUS
<1> HIDE DEF call
<1>2. p \in roots \ keep /\ p \in DOMAIN s.objects
  BY <1>1 DEF Freeing, Sound, Forest
<1>3. t = [s EXCEPT !.todo = more, !.objects = left]
  BY <1>2 DEF FreeOne, call
<1>4. t.objects = left
  <2> HIDE DEF t, more, left
  <2> QED BY <1>3
<1>5. /\ DOMAIN left = DOMAIN s.objects \ {p}
      /\ \A q \in DOMAIN left : left[q] = s.objects[q]
  BY DEF Restrict
<1> HIDE DEF t, left
<1>6. Same(s, t, DOMAIN s.objects \ {p})
  BY <1>4, <1>5 DEF Same
<1>7. Forest(s.objects, roots) /\ {p} \cap DOMAIN s.objects \subseteq roots \ keep
  BY <1>2 DEF Freeing, Sound
<1> HIDE DEF roots, p
<1>8. Stays(s, t, keep)
  BY <1>6, <1>7, OthersStay
<1> QED BY <1>8 DEF t

\* What is freed is not reached from what is kept.
LEMMA FreeAllStays ==
    ASSUME NEW h, DOMAIN h = HeapFields, ~h.undefined, NEW keep, NEW calls,
           Freeing(h.objects, keep, calls)
    PROVE  Stays(h, FreeAll(h, calls), keep)
<1> DEFINE rounds == Cardinality(DOMAIN h.objects)
           F == Freed(h, calls, rounds)
           Holds(n) ==
              /\ DOMAIN F[n] = {"objects", "todo", "undefined"}
              /\ Freeing(F[n].objects, keep, F[n].todo)
              /\ Stays(h, F[n], keep)
           T == {n \in Nat : n <= rounds /\ ~Holds(n)}
<1>1. rounds \in Nat
  BY FS_CardinalityType DEF Freeing, Sound, Forest
<1> HIDE DEF rounds
<1>2. Holds(0)
  <2>1. F[0] = [objects |-> h.objects, todo |-> calls, undefined |-> h.undefined]
    BY <1>1, FreedIs
  <2> HIDE DEF F
  <2>2. Stays(h, F[0], keep)
    BY <2>1, NothingChanges
  <2> QED BY <2>1, <2>2
<1>3. ASSUME NEW n \in Nat, n + 1 <= rounds, Holds(n) PROVE Holds(n + 1)
  <2>1. F[n + 1] = FreeOne(F[n])
    <3> DEFINE k == n + 1
    <3>1. k \in 0..rounds /\ k # 0 /\ k - 1 = n
      BY <1>1, <1>3
    <3> HIDE DEF k
    <3>2. F[k] = FreeOne(F[k - 1])
      <4>1. \A i \in 0..rounds :
               F[i] = IF i = 0
                      THEN [objects |-> h.objects, todo |-> calls,
                            undefined |-> h.undefined]
                      ELSE FreeOne(F[i - 1])
        BY <1>1, FreedIs
      <4> HIDE DEF F
      <4> QED BY <3>1, <4>1
    <3> QED BY <3>1, <3>2 DEF k
  <2> HIDE DEF F
  <2>2. CASE F[n].todo = {}
    <3>1. F[n + 1] = F[n]
      BY <2>1, <2>2 DEF FreeOne
    <3> QED BY <1>3, <3>1
  <2>3. CASE F[n].todo # {}
    <3> DEFINE s == F[n]
               t == FreeOne(s)
    <3>1. /\ DOMAIN t = {"objects", "todo", "undefined"}
          /\ Freeing(t.objects, keep, t.todo)
      BY <1>3, <2>3, FreeOneIsSound
    <3>2. Stays(s, t, keep)
      BY <1>3, <2>3, FreeOneStays
    <3> HIDE DEF t
    <3>3. Stays(h, t, keep)
      <4>1. Stays(h, s, keep)
        BY <1>3
      <4> HIDE DEF s
      <4> QED BY <3>2, <4>1, StaysTwice
    <3>4. F[n + 1] = t
      BY <2>1 DEF t
    <3> QED BY <3>1, <3>3, <3>4
  <2> QED BY <2>2, <2>3
<1>4. Holds(rounds)
  <2>1. SUFFICES ASSUME T # {} PROVE FALSE
    <3> HIDE DEF Holds
    <3> QED BY <1>1
  <2>2. PICK m \in T : \A j \in T : m <= j
    <3>1. T \in SUBSET Nat
      OBVIOUS
    <3> HIDE DEF T
    <3> QED BY <2>1, <3>1, LeastOf
  <2> HIDE DEF Holds
  <2>3. m # 0 /\ m \in Nat /\ m <= rounds /\ ~Holds(m)
    BY <1>2, <2>2
  <2>4. m - 1 \in Nat /\ m - 1 \notin T
    <3> HIDE DEF T
    <3> QED BY <2>2, <2>3
  <2>5. Holds(m - 1)
    BY <1>1, <2>3, <2>4
  <2>6. Holds((m - 1) + 1)
    BY <1>3, <2>3, <2>4, <2>5
  <2> QED BY <2>3, <2>6
<1> DEFINE s == F[rounds]
           g == FreeAll(h, calls)
<1>5. g.objects = s.objects
  BY FreeAllIsFreed DEF F, rounds
<1>6. Stays(h, s, keep)
  BY <1>4
<1> HIDE DEF g, s
<1>7. Stays(h, g, keep)
  BY <1>5, <1>6 DEF Stays, Same
<1> QED BY <1>7 DEF g

\* Where nothing changes, nothing that is reached changes.
LEMMA SameStays ==
    ASSUME NEW h, NEW g, Same(h, g, DOMAIN h.objects), NEW kept
    PROVE  Stays(h, g, kept)
BY DEF Stays, Same, Reached

\* The value of a symbol that owns it is a root, or NULL.
LEMMA ValueTaken ==
    ASSUME NEW rhs, NEW v, NEW objects, NEW roots, Values(rhs, v, objects, roots),
           NEW j \in 1..Len(v), rhs[j] \in Owning
    PROVE  /\ v[j] \in Taken(rhs, v) \cup {NULL}
           /\ Taken(rhs, v) \subseteq roots
BY DEF Values, Taken

\* An allocation, and a value that is taken is freed.
LEMMA StructFreeStays ==
    ASSUME NEW h, NEW roots, Good(h, roots), NEW o, NEW p, NEW taken,
           taken \subseteq roots, p \in taken \cup {NULL}
    PROVE  Stays(h, Free(Struct(h, o).heap, p), roots \ taken)
<1> DEFINE m == Struct(h, o).heap
           g == Free(m, p)
<1>1. DOMAIN m = HeapFields
  BY StructFacts, GoodHeap DEF Good
<1>2. Same(h, m, DOMAIN h.objects)
  BY StructStays, GoodHeap DEF Good
<1>3. Same(m, g, DOMAIN m.objects \ {p})
  <2> HIDE DEF m
  <2> QED BY <1>1, FreeChanges
<1> HIDE DEF m, g
<1>4. Same(h, g, DOMAIN h.objects \ {p})
  BY <1>2, <1>3 DEF Same
<1>5. Forest(h.objects, roots)
  BY DEF Good, Sound
<1>6. {p} \cap DOMAIN h.objects \subseteq roots \ (roots \ taken)
  <2>1. NULL \notin DOMAIN h.objects
    BY GoodHeap DEF NULL
  <2> QED BY <2>1
<1>7. Stays(h, g, roots \ taken)
  BY <1>4, <1>5, <1>6, OthersStay
<1> QED BY <1>7 DEF m, g

\* A value that is taken is freed.
LEMMA FreeStays ==
    ASSUME NEW h, NEW roots, Good(h, roots), NEW p, NEW taken,
           taken \subseteq roots, p \in taken \cup {NULL}
    PROVE  Stays(h, Free(h, p), roots \ taken)
<1> DEFINE g == Free(h, p)
<1>1. Same(h, g, DOMAIN h.objects \ {p})
  BY FreeChanges DEF Good
<1> HIDE DEF g
<1>2. Forest(h.objects, roots)
  BY DEF Good, Sound
<1>3. {p} \cap DOMAIN h.objects \subseteq roots \ (roots \ taken)
  <2>1. NULL \notin DOMAIN h.objects
    BY GoodHeap DEF NULL
  <2> QED BY <2>1
<1>4. Stays(h, g, roots \ taken)
  BY <1>1, <1>2, <1>3, OthersStay
<1> QED BY <1>4 DEF g

\* The actions of the records leave the rest alone.
LEMMA RecordStays ==
    ASSUME NEW h, NEW roots, Good(h, roots), NEW rhs, NEW v,
           Values(rhs, v, h.objects, roots), NEW o,
           Len(rhs) \in {3, 5}, Len(rhs) = 5 => rhs[5] = "result_list"
    PROVE  Stays(h, Record(h, v, o).heap, roots \ Taken(rhs, v))
<1> DEFINE d == Record(h, v, o)
           kept == roots \ Taken(rhs, v)
<1>1. Len(v) = Len(rhs)
  BY DEF Values
<1>2. CASE Len(rhs) = 3
  <2>1. d = Struct(h, o)
    BY <1>1, <1>2 DEF Record
  <2> HIDE DEF d, kept
  <2>2. Stays(h, d.heap, kept)
    BY <2>1, StructStays, GoodHeap DEF Good
  <2> QED BY <2>2 DEF d, kept
<1>3. CASE Len(rhs) = 5
  <2> DEFINE p == [o EXCEPT !.result = h.objects[v[5]].head]
             made == Struct(h, p)
  <2>1. d = [made EXCEPT !.heap = Free(made.heap, v[5])]
    BY <1>1, <1>3 DEF Record
  <2>2. DOMAIN made = {"at", "heap"}
    BY StructFacts, GoodHeap DEF Good
  <2>3. d.heap = Free(made.heap, v[5])
    <3> HIDE DEF made, d
    <3> QED BY <2>1, <2>2
  <2>4. v[5] \in Taken(rhs, v) \cup {NULL} /\ Taken(rhs, v) \subseteq roots
    <3>1. 5 \in 1..Len(v) /\ rhs[5] \in Owning
      BY <1>1, <1>3 DEF Owning
    <3> QED BY <3>1, ValueTaken
  <2> HIDE DEF p, d
  <2>5. Stays(h, Free(made.heap, v[5]), kept)
    BY <2>4, StructFreeStays
  <2> QED BY <2>3, <2>5 DEF d
<1> QED BY <1>2, <1>3

\* So do those of output_variant.
LEMMA OutputVariantStays ==
    ASSUME NEW h, NEW roots, Good(h, roots), NEW r \in Rules,
           r.lhs = "output_variant", NEW v, Values(r.rhs, v, h.objects, roots)
    PROVE  Stays(h, OutputVariant(r, v, h).heap, roots \ Taken(r.rhs, v))
<1> DEFINE d == OutputVariant(r, v, h)
           kept == roots \ Taken(r.rhs, v)
           o == Output(KindOf(r), IF Len(v) = 1 THEN v[1] ELSE NULL, NULL)
           made == Struct(h, o)
<1>1. Len(v) = Len(r.rhs)
  BY DEF Values
<1>2. d = IF Len(v) = 1 THEN made
          ELSE [made EXCEPT !.heap = Free(made.heap, v[2])]
  BY DEF OutputVariant
<1> HIDE DEF o, d
<1>3. CASE r.rhs \in {<<"oob_record">>, <<"result_record">>}
  <2>1. d = made
    BY <1>1, <1>2, <1>3
  <2> HIDE DEF kept
  <2>2. Stays(h, made.heap, kept)
    BY StructStays, GoodHeap DEF Good
  <2> QED BY <2>1, <2>2 DEF d, kept
<1>4. CASE r.rhs = <<"OPEN_PAREN", "variable", "check", "CLOSED_PAREN">>
  <2>1. Len(v) = 4 /\ r.rhs[2] = "variable" /\ 2 \in 1..Len(v)
    BY <1>1, <1>4
  <2>2. DOMAIN made = {"at", "heap"}
    BY StructFacts, GoodHeap DEF Good
  <2>3. d.heap = Free(made.heap, v[2])
    <3> HIDE DEF made
    <3> QED BY <1>2, <2>1, <2>2
  <2>4. v[2] \in Taken(r.rhs, v) \cup {NULL} /\ Taken(r.rhs, v) \subseteq roots
    BY <2>1, ValueTaken DEF Owning
  <2>5. Stays(h, Free(made.heap, v[2]), kept)
    BY <2>4, StructFreeStays
  <2> QED BY <2>3, <2>5 DEF d
<1> QED BY <1>3, <1>4, TreeRules

\* So do those of result_list.
LEMMA ResultListStays ==
    ASSUME NEW h, NEW roots, Good(h, roots), NEW r \in Rules,
           r.lhs = "result_list", NEW v, Values(r.rhs, v, h.objects, roots)
    PROVE  Stays(h, ResultListOf(v, h).heap, roots \ Taken(r.rhs, v))
<1> DEFINE d == ResultListOf(v, h)
           kept == roots \ Taken(r.rhs, v)
<1>1. Len(v) = Len(r.rhs)
  BY DEF Values
<1>2. CASE r.rhs = <<"result">>
  <2> DEFINE made == ResultListAlloc(h)
             list == made.at
             g == PushBack(made.heap, list, v[1])
  <2>1. d = Unchanged(list, IF made.heap.crashed THEN made.heap ELSE g)
    BY <1>1, <1>2 DEF ResultListOf
  <2>2. Becomes(h, made.heap, roots, list, ResultList(list))
    BY ResultListAllocIsSound
  <2>3. Stays(h, made.heap, kept)
    <3> HIDE DEF kept
    <3> QED BY ResultListAllocStays
  <2> HIDE DEF d, made
  <2>4. d.heap = IF made.heap.crashed THEN made.heap ELSE g
    <3> HIDE DEF g, list
    <3> QED BY <2>1 DEF Unchanged
  <2>5. CASE made.heap.crashed
    BY <2>3, <2>4, <2>5 DEF d
  <2>6. CASE ~made.heap.crashed
    <3> DEFINE all == roots \cup {list}
    <3>1. /\ list \notin roots /\ Good(made.heap, all)
          /\ made.heap.objects[list] = ResultList(list)
      BY <2>2, <2>6 DEF Becomes
    <3>2. made.heap.objects[list].type = "result_list"
      BY <3>1 DEF ResultList
    <3>3. /\ DOMAIN made.heap = HeapFields /\ Sound(made.heap.objects, all)
          /\ list \in all /\ kept \subseteq all \ {list}
      BY <3>1 DEF Good
    <3> HIDE DEF all, list, kept
    <3>4. Stays(made.heap, g, kept)
      BY <3>2, <3>3, PushBackStays
    <3> HIDE DEF g
    <3>5. Stays(h, g, kept)
      BY <2>3, <3>4, StaysTwice
    <3> QED BY <2>4, <2>6, <3>5 DEF d, kept
  <2> QED BY <2>5, <2>6
<1>3. CASE r.rhs = <<"result_list", "COMMA", "result">>
  <2> DEFINE list == v[1]
             g == PushBack(h, list, v[3])
  <2>1. Len(v) = 3 /\ r.rhs[1] = "result_list" /\ 1 \in 1..Len(v)
    BY <1>1, <1>3
  <2>2. d.heap = g
    <3>1. d = Unchanged(list, g)
      BY <2>1 DEF ResultListOf
    <3> HIDE DEF d, g, list
    <3> QED BY <3>1 DEF Unchanged
  <2>3. /\ list \in roots /\ h.objects[list].type = "result_list"
        /\ list \in Taken(r.rhs, v)
    <3>1. Fits("result_list", v[1], h.objects) /\ (v[1] # NULL => v[1] \in roots)
      BY <2>1 DEF Values, Owning
    <3>2. v[1] # NULL /\ h.objects[v[1]].type = "result_list"
      BY <3>1 DEF Fits, Nullable, TypeOf
    <3>3. v[1] \in Taken(r.rhs, v)
      BY <2>1, <3>2 DEF Taken, Owning
    <3> QED BY <3>1, <3>2, <3>3
  <2>4. DOMAIN h = HeapFields /\ Sound(h.objects, roots)
    BY DEF Good
  <2>5. kept \subseteq roots \ {list}
    BY <2>3
  <2> HIDE DEF list, kept
  <2>6. Stays(h, g, kept)
    BY <2>3, <2>4, <2>5, PushBackStays
  <2> QED BY <2>2, <2>6 DEF d, kept
<1> QED BY <1>2, <1>3, TreeRules

\* A semantic action leaves alone what the values it does not take own.
LEMMA ActionStays ==
    ASSUME NEW r \in Rules, NEW v, NEW h, NEW roots, NEW text,
           Good(h, roots), Values(r.rhs, v, h.objects, roots)
    PROVE  Stays(h, Action(r, v, h, text).heap, roots \ Taken(r.rhs, v))
<1> DEFINE d == Action(r, v, h, text)
           kept == roots \ Taken(r.rhs, v)
<1> SUFFICES Stays(h, d.heap, kept)
  OBVIOUS
<1>0. Len(v) = Len(r.rhs) /\ DOMAIN h = HeapFields /\ IsFiniteSet(DOMAIN h.objects)
  BY GoodHeap DEF Values, Good
<1>1. CASE r.lhs = "output_variant"
  <2>1. d = OutputVariant(r, v, h)
    BY <1>1 DEF Action
  <2> HIDE DEF d
  <2> QED BY <1>1, <2>1, OutputVariantStays
<1>2. CASE r.lhs \in {"result_record", "async_record"}
  <2>1. \E o : d = Record(h, v, o)
    <3>1. CASE r.lhs = "result_record"
      BY <3>1 DEF Action
    <3>2. CASE r.lhs = "async_record"
      BY <3>2 DEF Action
    <3> QED BY <1>2, <3>1, <3>2
  <2>2. PICK o : d = Record(h, v, o)
    BY <2>1
  <2>3. Len(r.rhs) \in {3, 5} /\ (Len(r.rhs) = 5 => r.rhs[5] = "result_list")
    BY <1>2, TreeRules
  <2> HIDE DEF d
  <2> QED BY <2>2, <2>3, RecordStays
<1>3. CASE r.lhs \in {"oob_record", "stream_record", "result", "cstring"}
  <2>1. \E o : d = Struct(h, o)
    <3>1. CASE r.lhs = "oob_record"
      BY <3>1 DEF Action
    <3>2. CASE r.lhs = "stream_record"
      BY <3>2 DEF Action
    <3>3. CASE r.lhs = "result"
      BY <3>3 DEF Action
    <3>4. CASE r.lhs = "cstring"
      BY <3>4 DEF Action
    <3> QED BY <1>3, <3>1, <3>2, <3>3, <3>4
  <2>2. PICK o : d = Struct(h, o)
    BY <2>1
  <2> HIDE DEF d, kept
  <2> QED BY <1>0, <2>2, StructStays
<1>4. CASE r.lhs \in {"variable", "token"}
  <2>1. d = Malloc(h, Text(text))
    BY <1>4 DEF Action
  <2> HIDE DEF d, kept
  <2> QED BY <1>0, <2>1, MallocStays
<1>5. CASE r.lhs = "result_list"
  <2>1. d = ResultListOf(v, h)
    BY <1>5 DEF Action
  <2> HIDE DEF d
  <2> QED BY <1>5, <2>1, ResultListStays
<1>6. CASE r.lhs \in {"tuple", "list"}
  <2>1. Len(r.rhs) = 2 \/ Len(r.rhs) = 3
    BY <1>6, TreeRules
  <2>2. CASE Len(r.rhs) = 2
    <3>1. d = Unchanged(NULL, h)
      BY <1>0, <1>6, <2>2 DEF Action
    <3> HIDE DEF d, kept
    <3>2. d.heap = h
      BY <3>1 DEF Unchanged
    <3> QED BY <3>2, NothingChanges
  <2>3. CASE Len(r.rhs) = 3
    <3>1. d = TakeHead(h, v[2])
      BY <1>0, <1>6, <2>3 DEF Action
    <3>2. d.heap = Free(h, v[2])
      BY <3>1 DEF TakeHead
    <3>3. 2 \in 1..Len(v) /\ r.rhs[2] = "result_list"
      <4>1. r.rhs \in {<<"OPEN_BRACE", "result_list", "CLOSED_BRACE">>,
                       <<"OPEN_BRACKET", "result_list", "CLOSED_BRACKET">>}
        BY <1>6, <2>3, TreeRules
      <4>2. r.rhs[2] = "result_list"
        BY <4>1
      <4>3. Len(v) = 3
        BY <1>0, <2>3
      <4> HIDE DEF d, kept
      <4> QED BY <4>2, <4>3
    <3>4. v[2] \in Taken(r.rhs, v) \cup {NULL} /\ Taken(r.rhs, v) \subseteq roots
      BY <3>3, ValueTaken DEF Owning
    <3>5. Stays(h, Free(h, v[2]), kept)
      BY <3>4, FreeStays
    <3> QED BY <3>2, <3>5
  <2> QED BY <2>1, <2>2, <2>3
<1>7. CASE r.lhs \in {"opt_variable", "opt_token"}
  <2>1. \E p : d = Unchanged(p, h)
    BY <1>7 DEF Action
  <2> HIDE DEF d, kept
  <2>2. d.heap = h
    BY <2>1 DEF Unchanged
  <2> QED BY <2>2, NothingChanges
<1>8. CASE r.lhs \notin Owning
  <2>1. \E p : d = Unchanged(p, h)
    BY <1>8 DEF Action, Owning
  <2> HIDE DEF d, kept
  <2>2. d.heap = h
    BY <2>1 DEF Unchanged
  <2> QED BY <2>2, NothingChanges
<1> HIDE DEF d, kept
<1> QED BY <1>1, <1>2, <1>3, <1>4, <1>5, <1>6, <1>7, <1>8 DEF Owning

\* What is destroyed is not reached from what is left on the stack, nor from the
\* outputs.
LEMMA DestroyedStays ==
    ASSUME NEW h, NEW o, NEW pend, NEW l,
           Tree(stack, values, h, o, pend, l),
           NEW n \in 1..Len(stack), Unfreed(stack, n) = {}
    PROVE  Stays(h, Destroyed(h, n),
                 Taken(SubSeq(stack, 1, n), SubSeq(values, 1, n))
                 \cup Others(o, pend, l))
BY DestructsFree, FreeAllStays

\* The parse error that is reported is a new one.
LEMMA ReportStays ==
    ASSUME NEW h, NEW roots, Good(h, roots), NEW kept
    PROVE  Stays(h, Report(h).heap, kept)
<1> DEFINE made == Struct(h, Output("PARSE_ERROR", NULL, lexed.pos))
           q == made.at
           m == made.heap
           token == Malloc(m, Text(lexed.text))
           t == token.heap
           g == [t EXCEPT !.objects[q].variant = token.at]
           f == Report(h).heap
<1>1. /\ DOMAIN m = HeapFields /\ m.undefined = h.undefined
      /\ q = NULL => m.crashed
      /\ q # NULL => /\ q \notin DOMAIN h.objects
                     /\ DOMAIN m.objects = DOMAIN h.objects \cup {q}
  BY StructFacts, GoodHeap DEF Good
<1>2. Same(h, m, DOMAIN h.objects)
  BY StructStays, GoodHeap DEF Good
<1>3. f = IF m.crashed THEN m ELSE g
  BY DEF Report, Unchanged
<1> HIDE DEF made, f
<1>4. CASE m.crashed
  BY <1>2, <1>3, <1>4, SameStays DEF f
<1>5. CASE ~m.crashed
  <2>1. q # NULL /\ IsFiniteSet(DOMAIN m.objects)
    <3>1. q # NULL
      BY <1>1, <1>5
    <3>2. IsFiniteSet(DOMAIN h.objects)
      BY GoodHeap
    <3> QED BY <1>1, <3>1, <3>2, FS_AddElement
  <2>2. Same(m, t, DOMAIN m.objects) /\ DOMAIN t = HeapFields
    BY <1>1, <2>1, MallocStays, MallocFacts
  <2> HIDE DEF token
  <2> DEFINE n == [t.objects[q] EXCEPT !.variant = token.at]
             objects == [t.objects EXCEPT ![q] = n]
  <2>3. g = [t EXCEPT !.objects = objects]
    OBVIOUS
  <2>4. /\ DOMAIN objects = DOMAIN t.objects
        /\ \A x \in DOMAIN t.objects \ {q} : objects[x] = t.objects[x]
    OBVIOUS
  <2> HIDE DEF objects, g
  <2>5. g.objects = objects
    BY <2>2, <2>3 DEF HeapFields
  <2>6. Same(h, g, DOMAIN h.objects)
    BY <1>1, <1>2, <2>1, <2>2, <2>4, <2>5 DEF Same
  <2> QED BY <1>3, <1>5, <2>6, SameStays DEF f
<1> QED BY <1>4, <1>5

\* The line is put into the output, and nothing else.
LEMMA GivenStays ==
    ASSUME NEW h, NEW roots, Good(h, roots), NEW o \in roots
    PROVE  Stays(h, Given(h, o), roots \ {o})
<1> DEFINE line == Malloc(h, Text("line"))
           t == line.heap
           g == Given(h, o)
           n == [t.objects[o] EXCEPT !.line = line.at]
           objects == [t.objects EXCEPT ![o] = n]
<1>1. Same(h, t, DOMAIN h.objects) /\ DOMAIN t = HeapFields
  BY MallocStays, MallocFacts, GoodHeap DEF Good
<1>2. g = [t EXCEPT !.objects = objects]
  BY DEF Given
<1>3. /\ DOMAIN objects = DOMAIN t.objects
      /\ \A x \in DOMAIN t.objects \ {o} : objects[x] = t.objects[x]
  OBVIOUS
<1> HIDE DEF line, objects, g
<1>4. g.objects = objects
  BY <1>1, <1>2 DEF HeapFields
<1>5. Same(h, g, DOMAIN h.objects \ {o})
  BY <1>1, <1>3, <1>4 DEF Same
<1>6. Forest(h.objects, roots)
  BY DEF Good, Sound
<1>7. {o} \cap DOMAIN h.objects \subseteq roots \ (roots \ {o})
  OBVIOUS
<1>8. Stays(h, g, roots \ {o})
  BY <1>5, <1>6, <1>7, OthersStay
<1> QED BY <1>8 DEF g

\* An output is freed with all it owns, and nothing else.
LEMMA OutputFreedStays ==
    ASSUME NEW h, NEW roots, NEW p, p # NULL, p \in roots,
           Good(h, roots), h.objects[p].type = "output", NEW place
    PROVE  Stays(h, FreeAll(h, Call("output", p, place)), roots \ {p})
<1> DEFINE calls == Call("output", p, place)
           c == [type |-> "output", at |-> p, place |-> place]
           keep == roots \ {p}
<1>1. calls = {c}
  BY DEF Call
<1>2. c.at = p /\ c.type = "output"
  OBVIOUS
<1> HIDE DEF calls, c
<1>3. keep \cup {d.at : d \in calls} = roots
  BY <1>1, <1>2
<1>4. /\ DOMAIN h = HeapFields /\ ~h.undefined
      /\ Sound(h.objects, keep \cup {d.at : d \in calls})
  BY <1>3 DEF Good
<1>5. Freeing(h.objects, keep, calls)
  BY <1>1, <1>2, <1>4 DEF Freeing
<1> HIDE DEF keep
<1>6. Stays(h, FreeAll(h, calls), keep)
  BY <1>4, <1>5, FreeAllStays
<1> QED BY <1>6 DEF keep, calls

\* The outputs of the callbacks that run before and after the step.
Lasting == {pending[i].out : i \in DOMAIN pending \cap DOMAIN pending'}

\* The invariant gives a forest, its roots and their outputs.
LEMMA TreeFacts ==
    ASSUME TreeInv, ~heap.crashed
    PROVE  /\ Good(heap, Taken(stack, values) \cup Others(out, pending, lost))
           /\ Taken(stack, values) \cap Others(out, pending, lost) = {}
           /\ OthersFit(out, pending, lost, heap.objects)
           /\ DOMAIN pending = 1..Len(pending)
           /\ Len(pending) \in Nat
           /\ {pending[i].out : i \in 1..Len(pending)} \subseteq Others(out, pending, lost)
           /\ out # NULL => out \in Others(out, pending, lost)
<1>1. TreeOf
  BY LiveFacts
<1>2. IsSequence(pending)
  BY <1>1 DEF TreeOf, Tree, OthersFit
<1>3. DOMAIN pending = 1..Len(pending) /\ Len(pending) \in Nat
  BY <1>2 DEF IsSequence
<1>4. {pending[i].out : i \in 1..Len(pending)} \subseteq Others(out, pending, lost)
  BY <1>1 DEF TreeOf, Tree, OthersFit, Others
<1>5. out # NULL => out \in Others(out, pending, lost)
  BY DEF Others
<1> QED BY <1>1, <1>3, <1>4, <1>5 DEF TreeOf, Tree

\* A reduction leaves alone what it does not pop.
LEMMA ReduceStays ==
    ASSUME TreeInv, ~heap.crashed, NEW r \in Rules, ReduceBy(r), ~heap'.crashed
    PROVE  LET n == Len(values) - Len(r.rhs)
           IN /\ n \in 0..Len(stack)
              /\ SubSeq(stack, n + 1, Len(stack)) = r.rhs
              /\ Stays(heap, heap',
                       Taken(SubSeq(stack, 1, n), SubSeq(values, 1, n))
                       \cup Others(out, pending, lost))
<1> DEFINE n == Len(values) - Len(r.rhs)
           v == SubSeq(values, n + 1, Len(values))
           h == Compared(r, heap)
           d == Action(r, v, h, lexed.text)
           lows == SubSeq(stack, 1, n)
           low == SubSeq(values, 1, n)
           highs == SubSeq(stack, n + 1, Len(stack))
           others == Others(out, pending, lost)
           roots == Taken(stack, values) \cup others
<1>1. /\ Stack(stack) /\ TreeOf /\ Len(values) = Len(stack)
      /\ IsHandle(r, stack) /\ heap' = d.heap
  BY LiveFacts DEF ReduceBy, Reduce, Reducible
<1>2. n \in 0..Len(stack) /\ highs = r.rhs
  <2>1. Len(r.rhs) \in Nat /\ Len(stack) \in Nat /\ Len(r.rhs) < Len(stack)
    BY <1>1, RuleFacts DEF Stack, IsHandle
  <2>2. n \in 0..Len(stack)
    BY <1>1, <2>1
  <2> QED BY <1>1, <2>2 DEF IsHandle
<1> HIDE DEF n
<1>3. h = heap
  <2>1. r.lhs = "check" => d.heap = h
    BY CheckAction
  <2> QED BY <1>1, <2>1, ComparedFacts
<1>4. /\ IsSequence(stack) /\ Good(heap, roots)
      /\ Values(stack, values, heap.objects, Taken(stack, values))
      /\ Taken(stack, values) \cap others = {}
  BY <1>1 DEF TreeOf, Tree
<1>5. /\ Values(highs, v, heap.objects, Taken(stack, values))
      /\ Taken(stack, values) = Taken(lows, low) \cup Taken(highs, v)
      /\ Taken(lows, low) \cap Taken(highs, v) = {}
  BY <1>2, <1>4, SplitValues
<1> HIDE DEF h, highs, lows, low, v, others
<1>6. Values(r.rhs, v, heap.objects, roots)
  BY <1>2, <1>5, ValuesAgain
<1> DEFINE g == Action(r, v, heap, lexed.text).heap
<1>7. Stays(heap, g, roots \ Taken(r.rhs, v))
  <2> HIDE DEF roots
  <2> QED BY <1>4, <1>6, ActionStays
<1>8. heap' = g
  BY <1>1, <1>3
<1>9. roots \ Taken(r.rhs, v) = Taken(lows, low) \cup others
  BY <1>2, <1>4, <1>5
<1> HIDE DEF g, d
<1>10. Stays(heap, heap', Taken(lows, low) \cup others)
  BY <1>7, <1>8, <1>9
<1> QED BY <1>2, <1>10 DEF n, highs, lows, low, others

\* A report, and the destructors of what is popped, leave the outputs alone.
LEMMA ReportedStays ==
    ASSUME TreeInv, ~heap.crashed, out = NULL,
           NEW n \in 1..Len(stack), Unfreed(stack, n) = {},
           ~Destroyed(Report(heap).heap, n).crashed
    PROVE  Stays(heap, Destroyed(Report(heap).heap, n), Others(out, pending, lost))
<1> DEFINE m == Report(heap)
           g == Destroyed(m.heap, n)
           others == Others(out, pending, lost)
<1>1. TreeOf
  BY LiveFacts
<1>2. Stays(heap, m.heap, others)
  BY <1>1, ReportStays DEF TreeOf, Tree
<1>3. DOMAIN m.heap = HeapFields
  BY <1>1, ReportEnds DEF TreeOf, Tree, Ends
<1>4. Tree(stack, values, m.heap, m.at, pending, lost)
  <2>1. \/ m.heap.crashed
        \/ Tree(stack, values, m.heap, m.at, pending, lost)
    BY <1>1, TreeReported DEF TreeOf
  <2>2. g.crashed = m.heap.crashed
    BY <1>3, FreeAllIsFreed DEF Destroyed
  <2> QED BY <2>1, <2>2
<1>5. others \subseteq Others(m.at, pending, lost)
  BY DEF Others
<1> HIDE DEF m
<1>6. Stays(m.heap, g, Taken(SubSeq(stack, 1, n), SubSeq(values, 1, n))
                       \cup Others(m.at, pending, lost))
  BY <1>4, DestroyedStays
<1> HIDE DEF g, others
<1>7. Stays(m.heap, g, others)
  BY <1>5, <1>6, StaysLess
<1>8. Stays(heap, g, others)
  BY <1>2, <1>7, StaysTwice
<1> QED BY <1>8 DEF m, g, others

\* A prompt that is not gdb's: where the stack is cut.
LEMMA RejectFacts ==
    ASSUME TreeInv, NEW r \in Rules, RejectName(r)
    PROVE  LET n == RecoveryPoint(stack)
           IN n \in 1..Len(stack) /\ Unfreed(stack, n) = {}
<1>1. PushInv /\ Stack(stack) /\ r.lhs = "check" /\ IsHandle(r, stack)
  BY TypeStack DEF TreeInv, RejectName, RejectPrompt, Reducible, ChecksPrompt
<1>2. Top(stack) = "variable"
  BY <1>1, ReduceFacts
<1>3. Len(stack) >= 2 /\ Top(stack) \notin Owning \ Destructors
  <2>1. Len(stack) # 1
    BY <1>1, <1>2, OutermostSymbols DEF Top
  <2> QED BY <1>1, <1>2, <2>1, StackLength DEF Owning, Destructors
<1> QED BY <1>1, <1>3, RecoveryFacts

\* A syntax error: where the stack is cut.
LEMMA SyntaxFacts ==
    ASSUME TreeInv, ReportOrDrop
    PROVE  LET n == RecoveryPoint(stack)
           IN n \in 1..Len(stack) /\ Unfreed(stack, n) = {}
<1>1. PushInv /\ Stack(stack) /\ NeedsLookahead(stack)
  BY TypeStack DEF TreeInv, ReportOrDrop, SyntaxError
<1>2. Top(stack) \notin Owning \ Destructors
  BY <1>1, WaitingStack
<1>3. Len(stack) >= 2
  <2>1. Len(stack) = 1 => Expects(stack) = {"output_list"}
    BY <1>1, ExpectsIsAbove, AboveOutermost, OutermostSymbols
  <2>2. Len(stack) # 1
    BY <1>1, <2>1, TokenSymbols DEF NeedsLookahead
  <2> QED BY <1>1, <2>2, StackLength
<1> QED BY <1>1, <1>2, <1>3, RecoveryFacts

\* What is reported, once in a line, finds no output there.
LEMMA RejectStays ==
    ASSUME TreeInv, ~heap.crashed, NEW r \in Rules, RejectName(r),
           ~heap'.crashed
    PROVE  /\ ReportError /\ out = NULL
           /\ Stays(heap, heap', Others(out, pending, lost))
<1>1. PushInv' /\ TreeOf
  BY RejectPromptInv, LiveFacts DEF TreeInv, RejectName
<1>2. out = NULL
  BY <1>1, EmitsFacts DEF RejectName, RejectPrompt
<1>3. Top(values) # NULL
  <2>1. SUFFICES ASSUME Top(values) = NULL PROVE heap'.crashed
    OBVIOUS
  <2>2. heap' = [heap EXCEPT !.crashed = TRUE]
    BY <2>1 DEF RejectName, RejectPrompt, Compared, ChecksPrompt
  <2> QED BY <1>1, <2>2 DEF TreeOf, Tree, Good, HeapFields
<1>4. ReportError
  BY <1>3 DEF RejectName
<1> DEFINE n == RecoveryPoint(stack)
<1>5. n \in 1..Len(stack) /\ Unfreed(stack, n) = {}
  BY RejectFacts
<1>6. heap' = Destroyed(Report(heap).heap, n)
  BY <1>4 DEF ReportError, Recovered
<1> HIDE DEF n
<1> QED BY <1>2, <1>4, <1>5, <1>6, ReportedStays

\* So does a syntax error, whether it is reported or not.
LEMMA ReportOrDropStays ==
    ASSUME TreeInv, ~heap.crashed, ReportOrDrop, ~heap'.crashed
    PROVE  /\ errstatus = 0 => ReportError /\ out = NULL
           /\ Stays(heap, heap', Others(out, pending, lost))
<1> DEFINE n == RecoveryPoint(stack)
<1>1. n \in 1..Len(stack) /\ Unfreed(stack, n) = {}
  BY SyntaxFacts
<1>2. PushInv' /\ TreeOf
  BY SyntaxErrorInv, LiveFacts DEF TreeInv, ReportOrDrop
<1>3. CASE errstatus = 0
  <2>1. Emits(ParseError(lexed), Popped) /\ ReportError
    BY <1>3 DEF ReportOrDrop, SyntaxError
  <2>2. out = NULL
    BY <1>2, <2>1, EmitsFacts
  <2>3. heap' = Destroyed(Report(heap).heap, n)
    BY <2>1 DEF ReportError, Recovered
  <2> HIDE DEF n
  <2> QED BY <1>1, <2>1, <2>2, <2>3, ReportedStays
<1>4. CASE errstatus # 0
  <2>1. heap' = Destroyed(heap, n)
    BY <1>4 DEF ReportOrDrop, Recovered
  <2> HIDE DEF n
  <2>2. Stays(heap, heap', Taken(SubSeq(stack, 1, n), SubSeq(values, 1, n))
                           \cup Others(out, pending, lost))
    BY <1>1, <1>2, <2>1, DestroyedStays DEF TreeOf
  <2> QED BY <1>4, <2>2, StaysLess
<1> QED BY <1>3, <1>4

\* And a stack that is exhausted.
LEMMA ExhaustStays ==
    ASSUME TreeInv, ~heap.crashed, ExhaustStack, ~heap'.crashed
    PROVE  out = NULL /\ Stays(heap, heap', Others(out, pending, lost))
<1>1. PushInv /\ PushInv' /\ Stack(stack)
  BY ExhaustedInv, TypeStack DEF TreeInv, ExhaustStack
<1>2. out = NULL
  BY <1>1, EmitsFacts DEF ExhaustStack, Exhausted
<1>3. 1 \in 1..Len(stack) /\ Unfreed(stack, 1) = {}
  <2>1. Top(stack) \notin Owning \ Destructors
    BY <1>1 DEF ExhaustStack, Exhausted, PushInv, StackInv
  <2> QED BY <1>1, <2>1, NothingUnfreed DEF Stack
<1>4. heap' = Destroyed(Report(heap).heap, 1)
  BY DEF ExhaustStack
<1> QED BY <1>2, <1>3, <1>4, ReportedStays

\* The line that is delivered goes into its output; with no callback set, that
\* is freed.  The rest is left alone.
LEMMA DeliverStays ==
    ASSUME TreeInv, ~heap.crashed, Deliver
    PROVE  Stays(heap, heap', (Taken(stack, values) \cup Others(out, pending, lost))
                              \ {out})
<1> DEFINE g == Given(heap, out)
           roots == Taken(stack, values) \cup Others(out, pending, lost)
<1>1. /\ Good(heap, roots) /\ out # NULL /\ out \in roots
      /\ heap.objects[out].type = "output" /\ heap.objects[out].line = NULL
  BY TreeFacts DEF Deliver, OthersFit
<1>2. heap' = g \/ heap' = FreeAll(g, Call("output", out, <<0, "out">>))
  BY DEF Deliver, Given
<1> HIDE DEF roots
<1>3. Stays(heap, g, roots \ {out})
  BY <1>1, GivenStays
<1>4. Good(g, roots) /\ g.objects[out].type = "output"
  BY <1>1, GivenIsGood
<1> HIDE DEF g
<1>5. Stays(g, FreeAll(g, Call("output", out, <<0, "out">>)), roots \ {out})
  BY <1>1, <1>4, OutputFreedStays
<1> DEFINE f == FreeAll(g, Call("output", out, <<0, "out">>))
<1>6. Stays(heap, f, roots \ {out})
  <2> HIDE DEF f
  <2> QED BY <1>3, <1>5, StaysTwice DEF f
<1> QED BY <1>2, <1>3, <1>6 DEF roots

\* The output of the innermost callback is freed.  The rest is left alone.
LEMMA CallbackReturnsStays ==
    ASSUME TreeInv, ~heap.crashed, CallbackReturns
    PROVE  Stays(heap, heap', (Taken(stack, values) \cup Others(out, pending, lost))
                              \ {Top(pending).out})
<1> DEFINE p == Top(pending).out
           roots == Taken(stack, values) \cup Others(out, pending, lost)
<1>1. Good(heap, roots) /\ p # NULL /\ p \in roots
      /\ heap.objects[p].type = "output"
  <2>1. Len(pending) \in 1..Len(pending)
    BY TreeFacts DEF CallbackReturns
  <2> QED BY <2>1, TreeFacts DEF OthersFit, Top
<1>2. heap' = FreeAll(heap, Call("output", p, <<Len(pending), "pending">>))
  BY DEF CallbackReturns
<1> HIDE DEF roots, p
<1> QED BY <1>1, <1>2, OutputFreedStays DEF roots, p

\* A step that leaves the callbacks as they are.
LEMMA LastingAll ==
    ASSUME TreeInv, ~heap.crashed, pending' = pending,
           Stays(heap, heap', Others(out, pending, lost))
    PROVE  Stays(heap, heap', Lasting)
<1>1. Lasting \subseteq Others(out, pending, lost)
  BY TreeFacts DEF Lasting
<1> QED BY <1>1, StaysLess

\* A step of the program leaves alone what the outputs own whose callbacks run.
LEMMA StepStays ==
    ASSUME TreeInv, [Next]_vars, ~heap'.crashed
    PROVE  Stays(heap, heap', Lasting)
<1>1. CASE heap' = heap
  BY <1>1, NothingChanges
<1>2. CASE UNCHANGED vars
  BY <1>1, <1>2 DEF vars, treeVars
<1>3. CASE Next
  <2>0. ~heap.crashed
    BY <1>3 DEF Next
  <2>1. CASE ParseLine
    BY <1>1, <2>1 DEF ParseLine
  <2>2. ASSUME NEW x \in Lexemes, NEW p \in Positions, Token(x, p)
        PROVE  Stays(heap, heap', Lasting)
    BY <1>1, <2>2 DEF Token
  <2>3. CASE ShiftToken
    BY <1>1, <2>3 DEF ShiftToken
  <2>4. ASSUME NEW r \in Rules, ReduceBy(r) PROVE Stays(heap, heap', Lasting)
    <3>1. Stays(heap, heap', Others(out, pending, lost))
      BY <2>0, <2>4, ReduceStays, StaysLess
    <3>2. pending' = pending
      BY <2>4 DEF ReduceBy
    <3> QED BY <2>0, <3>1, <3>2, LastingAll
  <2>5. ASSUME NEW r \in Rules, RejectName(r) PROVE Stays(heap, heap', Lasting)
    <3>1. Stays(heap, heap', Others(out, pending, lost))
      BY <2>0, <2>5, RejectStays
    <3>2. pending' = pending
      BY <2>5 DEF RejectName
    <3> QED BY <2>0, <3>1, <3>2, LastingAll
  <2>6. CASE ReportOrDrop
    <3>1. Stays(heap, heap', Others(out, pending, lost))
      BY <2>0, <2>6, ReportOrDropStays
    <3>2. pending' = pending
      BY <2>6 DEF ReportOrDrop
    <3> QED BY <2>0, <3>1, <3>2, LastingAll
  <2>7. CASE PushReturns
    BY <1>1, <2>7 DEF PushReturns, treeVars
  <2>8. CASE ExhaustStack
    <3>1. Stays(heap, heap', Others(out, pending, lost))
      BY <2>0, <2>8, ExhaustStays
    <3>2. pending' = pending
      BY <2>8 DEF ExhaustStack
    <3> QED BY <2>0, <3>1, <3>2, LastingAll
  <2>9. CASE Deliver
    <3> DEFINE roots == Taken(stack, values) \cup Others(out, pending, lost)
    <3>1. Lasting \subseteq roots \ {out}
      <4>1. Lasting \subseteq {pending[i].out : i \in 1..Len(pending)}
        BY <2>0, TreeFacts DEF Lasting
      <4>2. out \notin {pending[i].out : i \in 1..Len(pending)}
        BY <2>0, TreeFacts DEF OthersFit
      <4>3. {pending[i].out : i \in 1..Len(pending)} \subseteq roots
        BY <2>0, TreeFacts
      <4> QED BY <4>1, <4>2, <4>3
    <3>2. Stays(heap, heap', roots \ {out})
      BY <2>0, <2>9, DeliverStays
    <3> HIDE DEF roots
    <3> QED BY <3>1, <3>2, StaysLess
  <2>10. CASE FailLine
    BY <1>1, <2>10 DEF FailLine
  <2>11. CASE CallbackReturns
    <3> DEFINE roots == Taken(stack, values) \cup Others(out, pending, lost)
               n == Len(pending)
    <3>1. n \in Nat \ {0} /\ DOMAIN pending = 1..n /\ IsSequence(pending)
      <4>1. n \in Nat /\ DOMAIN pending = 1..n /\ IsSequence(pending)
        BY <2>0, TreeFacts DEF OthersFit
      <4>2. n # 0
        BY <2>11, <4>1 DEF CallbackReturns, IsSequence
      <4> QED BY <4>1, <4>2
    <3>2. DOMAIN pending' = 1..(n - 1)
      <4>1. pending' = SubSeq(pending, 1, n - 1)
        BY <2>11 DEF CallbackReturns, Pop
      <4>2. n - 1 \in Nat
        BY <3>1
      <4> HIDE DEF n
      <4> QED BY <4>1, <4>2
    <3>3. /\ \A i \in 1..(n - 1) : i \in 1..n /\ i # n
          /\ n \in 1..n
      <4> HIDE DEF n
      <4> QED BY <3>1
    <3>4. \A i, j \in 1..n : pending[i].out = pending[j].out => i = j
      BY <2>0, TreeFacts DEF OthersFit
    <3>5. {pending[i].out : i \in 1..n} \subseteq roots
      BY <2>0, TreeFacts
    <3>6. Top(pending).out = pending[n].out
      BY DEF Top
    <3> HIDE DEF roots, n
    <3>7. Lasting \subseteq roots \ {Top(pending).out}
      BY <3>1, <3>2, <3>3, <3>4, <3>5, <3>6 DEF Lasting
    <3>8. Stays(heap, heap', roots \ {Top(pending).out})
      BY <2>0, <2>11, CallbackReturnsStays DEF roots
    <3> QED BY <3>7, <3>8, StaysLess
  <2> QED BY <1>3, <2>1, <2>2, <2>3, <2>4, <2>5, <2>6, <2>7, <2>8, <2>9, <2>10,
             <2>11 DEF Next, ParseStep
<1> QED BY <1>2, <1>3

\* What an output owns is reached from it by the program's pointers.
LEMMA TreesAreReached ==
    ASSUME TreeInv, [Next]_vars, ~heap'.crashed,
           NEW K \in SUBSET DOMAIN heap.objects, InCallbacks(K)
    PROVE  Reached(heap.objects, Lasting, K)
<1>1. ~heap.crashed
  <2>1. CASE UNCHANGED vars
    BY <2>1 DEF vars, treeVars
  <2> QED BY <2>1 DEF Next
<1>2. Forest(heap.objects, Taken(stack, values) \cup Others(out, pending, lost))
  BY <1>1, TreeFacts DEF Good, Sound
<1>3. ASSUME NEW p \in K, NEW q \in K, NEW ref \in Refs(q, heap.objects[q]),
             ref.at = p
      PROVE  \E c \in Of(heap.objects, q) : c.at = p
  <2>1. WellFormed(heap.objects[q]) /\ p # NULL
    BY <1>2 DEF Forest, NULL
  <2>2. ref = Pointer(p, ref.place)
    BY <1>3, <2>1, RefsArePointers
  <2>3. Pointer(p, ref.place) \in Refs(q, heap.objects[q])
    BY <2>2
  <2> QED BY <2>1, <2>3, RefsAre DEF Of
<1> QED BY <1>3 DEF InCallbacks, Lasting, Reached

\* The output that a callback was given, and all that it owns, are there and
\* stay the same for as long as the callback runs, whatever lines it pushes and
\* whatever becomes of them.
THEOREM CallbacksKeepTheirOutputs == Spec => TreesAreLeftAlone
<1> DEFINE Leaves ==
              ~heap'.crashed =>
                 \A K \in SUBSET DOMAIN heap.objects :
                    InCallbacks(K) => \A p \in K : /\ p \in DOMAIN heap'.objects
                                                   /\ heap'.objects[p] = heap.objects[p]
<1>1. TreeInv /\ [Next]_vars => Leaves
  BY StepStays, TreesAreReached DEF Stays, Same
<1> QED BY <1>1, TreeInvariance, PTL DEF Spec, TreesAreLeftAlone

-----------------------------------------------------------------------------
(* What the outputs are.                                                   *)

\* The value of an output_variant is an output of the kind that was reduced.
VariantAgrees ==
    ~heap.crashed /\ Len(stack) >= 3 /\ stack[3] = "output_variant" =>
        heap.objects[values[3]].kind = variant

AgreeInv == OutputsAgree /\ VariantAgrees

\* What is left alone says what it said.
LEMMA SaysStays ==
    ASSUME NEW h, NEW g, NEW roots, Good(h, roots), NEW p \in roots,
           h.objects[p].type = "output", NEW o, Says(h.objects, p, o),
           NEW kept, p \in kept, Stays(h, g, kept)
    PROVE  Says(g.objects, p, o)
<1> DEFINE q == h.objects[p].variant
           K == {p} \cup (IF o.kind = "PARSE_ERROR" THEN {q} \ {NULL} ELSE {})
<1>1. Forest(h.objects, roots)
  BY DEF Good, Sound
<1>2. p \in DOMAIN h.objects
  BY <1>1 DEF Forest
<1>3. ASSUME o.kind = "PARSE_ERROR", q # NULL
      PROVE  /\ q \in DOMAIN h.objects
             /\ \E c \in Of(h.objects, p) : c.at = q
  <2>1. h.objects[p].kind = "PARSE_ERROR"
    BY <1>3 DEF Says
  <2> DEFINE c == [type |-> "text", at |-> q, place |-> <<p, "variant">>]
  <2>2. c \in Of(h.objects, p)
    BY <1>3, <2>1 DEF Of, Frees, OutputFree, Call
  <2>3. c.at = q
    OBVIOUS
  <2> HIDE DEF c, q
  <2>4. c.at \in DOMAIN h.objects
    BY <1>1, <1>2, <2>2 DEF Forest
  <2> QED BY <2>2, <2>3, <2>4
<1>4. Reached(h.objects, kept, K)
  <2> HIDE DEF q
  <2> QED BY <1>2, <1>3 DEF Reached
<1>5. Same(h, g, K)
  BY <1>4 DEF Stays
<1>6. g.objects[p] = h.objects[p]
  BY <1>5 DEF Same
<1>7. o.kind = "PARSE_ERROR" /\ q # NULL => g.objects[q] = h.objects[q]
  BY <1>5 DEF Same
<1> QED BY <1>6, <1>7 DEF Says

\* The error that is reported has the position and the text of the last token.
LEMMA ReportSays ==
    ASSUME NEW h, NEW roots, Good(h, roots), ~Report(h).heap.crashed
    PROVE  Says(Report(h).heap.objects, Report(h).at, ParseError(lexed))
<1> DEFINE o == Output("PARSE_ERROR", NULL, lexed.pos)
           made == Struct(h, o)
           q == made.at
           m == made.heap
           token == Malloc(m, Text(lexed.text))
           p == token.at
           t == token.heap
           n == [t.objects[q] EXCEPT !.variant = p]
           objects == [t.objects EXCEPT ![q] = n]
           g == [t EXCEPT !.objects[q].variant = p]
<1>0. DOMAIN h = HeapFields /\ IsFiniteSet(DOMAIN h.objects)
  BY GoodHeap DEF Good
<1>1. /\ DOMAIN m = HeapFields
      /\ q = NULL => m.crashed
      /\ q # NULL => /\ DOMAIN m.objects = DOMAIN h.objects \cup {q}
                     /\ m.objects[q] = o
  <2> HIDE DEF o
  <2> QED BY <1>0, StructFacts
<1>2. Report(h) = IF m.crashed THEN made ELSE Unchanged(q, g)
  BY DEF Report
<1>3. /\ o.kind = "PARSE_ERROR" /\ o.pos = lexed.pos
      /\ DOMAIN o = {"type", "kind", "variant", "pos", "line", "next"}
  BY DEF Output
<1> HIDE DEF o, made
<1>4. ~m.crashed /\ q # NULL
  BY <1>1, <1>2
<1>5. Report(h).at = q /\ Report(h).heap = g
  BY <1>2, <1>4 DEF Unchanged
<1>6. /\ q \in DOMAIN m.objects /\ IsFiniteSet(DOMAIN m.objects)
  BY <1>0, <1>1, <1>4, FS_AddElement
<1>7. /\ DOMAIN t = HeapFields
      /\ p = NULL => t.objects = m.objects
      /\ p # NULL =>
            /\ p \notin DOMAIN m.objects
            /\ DOMAIN t.objects = DOMAIN m.objects \cup {p}
            /\ t.objects[p] = Text(lexed.text)
            /\ t.objects[q] = m.objects[q]
  BY <1>1, <1>6, MallocFacts
<1> HIDE DEF token
<1>8. q \in DOMAIN t.objects /\ t.objects[q] = o
  BY <1>1, <1>4, <1>6, <1>7
<1>9. n.kind = "PARSE_ERROR" /\ n.pos = lexed.pos /\ n.variant = p
  BY <1>3, <1>8
<1>10. g = [t EXCEPT !.objects = objects]
  OBVIOUS
<1>11. objects[q] = n /\ \A x \in DOMAIN t.objects \ {q} : objects[x] = t.objects[x]
  BY <1>8
<1> HIDE DEF n, objects, g
<1>12. g.objects = objects
  BY <1>7, <1>10 DEF HeapFields
<1>13. p # NULL => objects[p].text = lexed.text
  <2> SUFFICES ASSUME p # NULL PROVE objects[p].text = lexed.text
    OBVIOUS
  <2>1. p \in DOMAIN t.objects \ {q}
    BY <1>6, <1>7
  <2>2. objects[p] = Text(lexed.text)
    BY <1>7, <1>11, <2>1
  <2> QED BY <2>2 DEF Text
<1>14. Says(objects, q, ParseError(lexed))
  BY <1>9, <1>11, <1>13 DEF Says, ParseError
<1> QED BY <1>5, <1>12, <1>14

\* An output_variant is made with the kind of its rule.
LEMMA VariantIsOfItsRule ==
    ASSUME NEW r \in Rules, r.lhs = "output_variant", NEW v, NEW h, NEW roots,
           Good(h, roots), Values(r.rhs, v, h.objects, roots),
           ~OutputVariant(r, v, h).heap.crashed
    PROVE  LET d == OutputVariant(r, v, h)
           IN d.heap.objects[d.at].kind = KindOf(r)
<1> DEFINE d == OutputVariant(r, v, h)
           o == Output(KindOf(r), IF Len(v) = 1 THEN v[1] ELSE NULL, NULL)
           made == Struct(h, o)
<1>0. DOMAIN h = HeapFields /\ IsFiniteSet(DOMAIN h.objects)
  BY GoodHeap DEF Good
<1>1. /\ DOMAIN made = {"at", "heap"} /\ DOMAIN made.heap = HeapFields
      /\ made.at = NULL => made.heap.crashed
      /\ made.at # NULL =>
            /\ made.at \notin DOMAIN h.objects
            /\ made.at \in DOMAIN made.heap.objects
            /\ made.heap.objects[made.at] = o
  <2> HIDE DEF o
  <2> QED BY <1>0, StructFacts
<1>2. o.kind = KindOf(r)
  BY DEF Output
<1>3. d = IF Len(v) = 1 THEN made
          ELSE [made EXCEPT !.heap = Free(made.heap, v[2])]
  BY DEF OutputVariant
<1> HIDE DEF made, o
<1>4. CASE Len(v) = 1
  <2>1. d = made
    BY <1>3, <1>4
  <2> HIDE DEF d
  <2>2. made.at # NULL
    BY <1>1, <2>1 DEF d
  <2> QED BY <1>1, <1>2, <2>1, <2>2 DEF d
<1>5. CASE Len(v) # 1
  <2>1. r.rhs = <<"OPEN_PAREN", "variable", "check", "CLOSED_PAREN">>
    <3>1. Len(v) = Len(r.rhs)
      BY DEF Values
    <3> QED BY <1>5, <3>1, TreeRules
  <2>2. v[2] # NULL => v[2] \in DOMAIN h.objects
    <3>1. Len(v) = 4 /\ r.rhs[2] = "variable"
      BY <2>1 DEF Values
    <3>2. v[2] # NULL => v[2] \in roots
      BY <3>1 DEF Values, Owning
    <3> QED BY <3>2, GoodHeap
  <2>3. d.at = made.at /\ d.heap = Free(made.heap, v[2])
    BY <1>1, <1>3, <1>5
  <2> HIDE DEF d
  <2>4. Free(made.heap, v[2]).crashed = made.heap.crashed
    BY <1>1, FreeFacts
  <2>5. made.at # NULL
    BY <1>1, <2>3, <2>4 DEF d
  <2>6. made.at # v[2]
    BY <1>1, <2>2, <2>5
  <2>7. Same(made.heap, d.heap, DOMAIN made.heap.objects \ {v[2]})
    BY <1>1, <2>3, FreeChanges
  <2>8. d.heap.objects[d.at] = o
    BY <1>1, <2>3, <2>5, <2>6, <2>7 DEF Same
  <2> QED BY <1>2, <2>8 DEF d
<1> QED BY <1>4, <1>5

\* Without a kind there is no output_variant.
LEMMA NoVariantAgrees ==
    ASSUME PushInv', variant' = "none"
    PROVE  VariantAgrees'
BY DEF PushInv, StackInv, Kinds, VariantAgrees

\* The value of an output_variant is its output, and no callback's.
LEMMA VariantIsHeld ==
    ASSUME TreeInv, ~heap.crashed, Len(stack) >= 3, stack[3] = "output_variant"
    PROVE  /\ values[3] \in Taken(stack, values) \ Others(out, pending, lost)
           /\ values[3] # NULL
<1>1. TreeOf /\ Len(values) = Len(stack) /\ Stack(stack)
  BY LiveFacts
<1>2. 3 \in 1..Len(values) /\ stack[3] \in Owning
  BY <1>1 DEF Stack, Owning
<1>3. Fits("output_variant", values[3], heap.objects)
  BY <1>1, <1>2 DEF TreeOf, Tree, Values
<1>4. values[3] # NULL
  BY <1>3 DEF Fits, Nullable
<1> QED BY <1>1, <1>2, <1>4 DEF TreeOf, Tree, Taken

\* A root that is left alone keeps its kind.
LEMMA KindStays ==
    ASSUME NEW h, NEW g, NEW kept, Stays(h, g, kept),
           NEW p \in kept, p \in DOMAIN h.objects
    PROVE  g.objects[p].kind = h.objects[p].kind
<1>1. Stays(h, g, {p})
  BY StaysLess
<1>2. Same(h, g, {p})
  BY <1>1, StaysRoots
<1> QED BY <1>2 DEF Same

\* A step that leaves the stack, its values and what they own alone.
LEMMA VariantStays ==
    ASSUME TreeInv, ~heap.crashed, VariantAgrees, NEW kept,
           Stays(heap, heap', kept),
           Taken(stack, values) \subseteq kept,
           UNCHANGED <<stack, values, variant>>
    PROVE  VariantAgrees'
<1> SUFFICES ASSUME Len(stack) >= 3, stack[3] = "output_variant"
             PROVE  heap'.objects[values[3]].kind = variant
  BY DEF VariantAgrees
<1>1. values[3] \in Taken(stack, values)
  BY VariantIsHeld
<1>2. values[3] \in DOMAIN heap.objects
  BY <1>1, TreeFacts, GoodHeap
<1>3. heap'.objects[values[3]].kind = heap.objects[values[3]].kind
  BY <1>1, <1>2, KindStays
<1> QED BY <1>3 DEF VariantAgrees

\* The output of the line is left alone with the others, and says what it said.
LEMMA OutputStays ==
    ASSUME TreeInv, ~heap.crashed, OutputsAgree, inLine,
           Stays(heap, heap', Others(out, pending, lost)),
           UNCHANGED <<out, output>>
    PROVE  OutputsAgree'
<1>1. output = NoOutput <=> out = NULL
  BY DEF OutputsAgree
<1>2. CASE out = NULL
  BY <1>1, <1>2 DEF OutputsAgree
<1>3. CASE out # NULL
  <2> DEFINE roots == Taken(stack, values) \cup Others(out, pending, lost)
  <2>1. Good(heap, roots) /\ out \in roots /\ out \in Others(out, pending, lost)
    BY <1>3, TreeFacts
  <2>2. Says(heap.objects, out, output) /\ heap.objects[out].type = "output"
    BY <1>3, TreeFacts DEF OutputsAgree, OthersFit
  <2> HIDE DEF roots
  <2>3. Says(heap'.objects, out, output)
    BY <2>1, <2>2, SaysStays
  <2> QED BY <1>1, <2>3 DEF OutputsAgree
<1> QED BY <1>2, <1>3

\* What is destroyed leaves what is reported as it is.
LEMMA ReportedSays ==
    ASSUME TreeInv, ~heap.crashed, out = NULL,
           NEW n \in 1..Len(stack), Unfreed(stack, n) = {},
           ~Destroyed(Report(heap).heap, n).crashed
    PROVE  /\ Report(heap).at # NULL
           /\ Says(Destroyed(Report(heap).heap, n).objects, Report(heap).at,
                   ParseError(lexed))
<1> DEFINE m == Report(heap)
           g == Destroyed(m.heap, n)
           others == Others(m.at, pending, lost)
           low == Taken(SubSeq(stack, 1, n), SubSeq(values, 1, n))
<1>1. TreeOf
  BY LiveFacts
<1>2. DOMAIN m.heap = HeapFields
  BY <1>1, ReportEnds DEF TreeOf, Tree, Ends
<1>3. ~m.heap.crashed
  BY <1>2, FreeAllIsFreed DEF Destroyed
<1>4. m.at # NULL /\ Tree(stack, values, m.heap, m.at, pending, lost)
  BY <1>1, <1>3, TreeReported DEF TreeOf
<1>5. Says(m.heap.objects, m.at, ParseError(lexed))
  BY <1>1, <1>3, ReportSays DEF TreeOf, Tree
<1>6. m.at \in others
  BY <1>4 DEF Others
<1> HIDE DEF m
<1>7. Stays(m.heap, g, low \cup others)
  BY <1>4, DestroyedStays
<1>8. /\ Good(m.heap, Taken(stack, values) \cup others)
      /\ m.heap.objects[m.at].type = "output"
  BY <1>4 DEF Tree, OthersFit
<1> HIDE DEF g, others, low
<1>9. Says(g.objects, m.at, ParseError(lexed))
  BY <1>5, <1>6, <1>7, <1>8, SaysStays
<1> QED BY <1>4, <1>9 DEF m, g

\* An error that is reported becomes the output.
LEMMA ReportErrorAgrees ==
    ASSUME TreeInv, ~heap.crashed, out = NULL, lexed \in Lexed,
           NEW n \in 1..Len(stack), Unfreed(stack, n) = {},
           heap' = Destroyed(Report(heap).heap, n), out' = Report(heap).at,
           output' = ParseError(lexed)
    PROVE  OutputsAgree'
<1> SUFFICES ASSUME ~heap'.crashed PROVE OutputsAgree'
  BY DEF OutputsAgree
<1>1. out' # NULL /\ Says(heap'.objects, out', ParseError(lexed))
  BY ReportedSays
<1>2. output' # NoOutput
  BY VariantFacts
<1> QED BY <1>1, <1>2 DEF OutputsAgree

\* The stacks and values of a reduction.
LEMMA ReducedFacts ==
    ASSUME TreeInv, ~heap.crashed, NEW r \in Rules, ReduceBy(r), ~heap'.crashed
    PROVE  LET n == Len(values) - Len(r.rhs)
               v == SubSeq(values, n + 1, Len(values))
           IN /\ n \in 0..Len(stack) /\ IsSequence(stack) /\ IsSequence(values)
              /\ SubSeq(stack, n + 1, Len(stack)) = r.rhs
              /\ stack' = Append(SubSeq(stack, 1, n), r.lhs)
              /\ values' = Append(SubSeq(values, 1, n),
                                  Action(r, v, heap, lexed.text).at)
              /\ heap' = Action(r, v, heap, lexed.text).heap
              /\ Values(r.rhs, v, heap.objects,
                        Taken(stack, values) \cup Others(out, pending, lost))
<1> DEFINE n == Len(values) - Len(r.rhs)
           v == SubSeq(values, n + 1, Len(values))
           h == Compared(r, heap)
           d == Action(r, v, h, lexed.text)
           highs == SubSeq(stack, n + 1, Len(stack))
           others == Others(out, pending, lost)
           roots == Taken(stack, values) \cup others
<1>1. /\ TreeOf /\ heap' = d.heap
      /\ values' = Append(SubSeq(values, 1, n), d.at)
      /\ Len(values) = Len(stack)
      /\ stack' = Append(Pop(stack, Len(r.rhs)), r.lhs)
  BY LiveFacts DEF ReduceBy, Reduce
<1>2. n \in 0..Len(stack) /\ highs = r.rhs
  BY ReduceStays
<1>3. stack' = Append(SubSeq(stack, 1, n), r.lhs)
  BY <1>1 DEF Pop
<1>4. /\ IsSequence(stack) /\ IsSequence(values)
      /\ Values(stack, values, heap.objects, Taken(stack, values))
  BY <1>1 DEF TreeOf, Tree, Values
<1> HIDE DEF n
<1>5. h = heap
  <2>1. r.lhs = "check" => d.heap = h
    BY CheckAction
  <2> QED BY <1>1, <2>1, ComparedFacts
<1>6. /\ Values(highs, v, heap.objects, Taken(stack, values))
      /\ Taken(highs, v) \subseteq Taken(stack, values)
  BY <1>2, <1>4, SplitValues
<1> HIDE DEF highs, v, h, others
<1>7. Values(r.rhs, v, heap.objects, roots)
  BY <1>2, <1>6, ValuesAgain
<1> QED BY <1>1, <1>2, <1>3, <1>4, <1>5, <1>7 DEF n, highs, v, d, h, others

\* The end of a line makes the output of the kind that was reduced.
LEMMA HandedOverAgrees ==
    ASSUME TreeInv, AgreeInv, ~heap.crashed, ~heap'.crashed,
           ReduceBy(VariantRule), VariantRule \in Rules
    PROVE  AgreeInv'
<1> DEFINE r == VariantRule
           n == Len(values) - Len(r.rhs)
           v == SubSeq(values, n + 1, Len(values))
<1>1. /\ PushInv /\ PushInv' /\ Stack(stack) /\ IsHandle(r, stack)
      /\ Len(values) = Len(stack)
  BY ReduceInv, LiveFacts DEF TreeInv, ReduceBy, Reduce, Reducible
<1>2. r.rhs = <<"output_variant", "NEWLINE">> /\ r.lhs = "output"
  BY VariantFacts
<1>3. /\ n \in 0..Len(stack) /\ IsSequence(stack) /\ IsSequence(values)
      /\ SubSeq(stack, n + 1, Len(stack)) = r.rhs
      /\ heap' = Action(r, v, heap, lexed.text).heap
  BY ReducedFacts
<1>4. heap' = heap
  BY <1>2, <1>3, EndAction
<1>5. /\ out' = v[1] /\ output' = [kind |-> variant] /\ variant' = "none"
  BY <1>2 DEF ReduceBy, Reduce, Emits
<1>6. Len(stack) >= 3 /\ stack[3] = "output_variant"
  BY <1>1, ReduceFacts
<1>7. v[1] = values[3]
  <2>1. Len(stack) - n = 2
    <3>1. Len(SubSeq(stack, n + 1, Len(stack))) = Len(stack) - n
      BY <1>3, SuffixOf
    <3>2. Len(r.rhs) = 2
      BY <1>2
    <3> QED BY <1>3, <3>1, <3>2
  <2>0. r.rhs[1] = "output_variant"
    BY <1>2
  <2> HIDE DEF n, r
  <2>2. 1 \in 1..(Len(stack) - n) /\ n + 1 \in 1..Len(stack)
    BY <1>3, <2>1
  <2>3. stack[n + 1] = SubSeq(stack, n + 1, Len(stack))[1] /\ v[1] = values[n + 1]
    BY <1>1, <1>3, <2>2, SuffixOf
  <2>4. stack[n + 1] = "output_variant"
    BY <1>3, <2>0, <2>3
  <2>5. n + 1 = 3
    BY <1>1, <2>2, <2>4, OutermostSymbols
  <2> QED BY <2>3, <2>5
<1> HIDE DEF v, n, r
<1>8. variant \in Kinds /\ values[3] # NULL
  BY <1>1, <1>6, VariantIsHeld DEF PushInv, StackInv
<1>9. heap.objects[values[3]].kind = variant
  BY <1>6 DEF AgreeInv, VariantAgrees
<1>10. output' # NoOutput /\ output'.kind = variant /\ variant # "PARSE_ERROR"
  BY <1>5, <1>8, VariantFacts DEF Kinds
<1>11. Says(heap'.objects, out', output')
  BY <1>4, <1>5, <1>7, <1>9, <1>10 DEF Says
<1>12. OutputsAgree'
  BY <1>5, <1>7, <1>8, <1>10, <1>11 DEF OutputsAgree
<1>13. VariantAgrees'
  BY <1>1, <1>5, NoVariantAgrees
<1> QED BY <1>12, <1>13 DEF AgreeInv

\* Any other reduction leaves the output alone, and an output_variant but for
\* the one that it makes.
LEMMA ReducedAgrees ==
    ASSUME TreeInv, AgreeInv, ~heap.crashed, inLine, NEW r \in Rules,
           ReduceBy(r), ~heap'.crashed, r # VariantRule
    PROVE  AgreeInv'
<1> DEFINE n == Len(values) - Len(r.rhs)
           v == SubSeq(values, n + 1, Len(values))
           low == SubSeq(values, 1, n)
           lows == SubSeq(stack, 1, n)
           d == Action(r, v, heap, lexed.text)
           roots == Taken(stack, values) \cup Others(out, pending, lost)
<1>1. PushInv' /\ Stack(stack) /\ Stack(stack)' /\ Len(values) = Len(stack)
  <2>1. PushInv'
    BY ReduceInv DEF TreeInv, ReduceBy
  <2>2. Stack(stack)'
    BY <2>1 DEF PushInv, PushTypeOK, StackInv, Stack
  <2> QED BY <2>1, <2>2, LiveFacts
<1>2. /\ n \in 0..Len(stack) /\ IsSequence(stack) /\ IsSequence(values)
      /\ stack' = Append(lows, r.lhs)
      /\ values' = Append(low, d.at) /\ heap' = d.heap
      /\ Values(r.rhs, v, heap.objects, roots)
  BY ReducedFacts
<1>3. Stays(heap, heap', Taken(lows, low) \cup Others(out, pending, lost))
  BY ReduceStays
<1>4. /\ out' = out /\ output' = output
      /\ variant' = CASE r.lhs = "output_variant" -> KindOf(r)
                      [] r.lhs = "output" -> "none"
                      [] OTHER -> variant
  BY VariantFacts DEF ReduceBy, Reduce
<1>5. Good(heap, roots)
  BY TreeFacts
<1> HIDE DEF n, v
<1>6. /\ Len(lows) = n /\ IsSequence(lows) /\ \A i \in 1..n : lows[i] = stack[i]
      /\ Len(low) = n /\ IsSequence(low) /\ \A i \in 1..n : low[i] = values[i]
  BY <1>1, <1>2, PrefixOf
<1> HIDE DEF low, lows
<1>7. n \in Nat
  BY <1>1, <1>2 DEF Stack
<1>8. /\ Len(stack') = n + 1 /\ stack'[n + 1] = r.lhs
      /\ values'[n + 1] = d.at
      /\ \A i \in 1..n : stack'[i] = stack[i] /\ values'[i] = values[i]
  <2> HIDE DEF d, roots
  <2>1. /\ Len(stack') = n + 1 /\ stack'[n + 1] = r.lhs
        /\ \A i \in 1..n : stack'[i] = stack[i]
    BY <1>2, <1>6, AppendTo
  <2>2. /\ values'[n + 1] = d.at
        /\ \A i \in 1..n : values'[i] = values[i]
    BY <1>2, <1>6, AppendTo
  <2> QED BY <2>1, <2>2
<1>9. OutputsAgree'
  <2>1. Stays(heap, heap', Others(out, pending, lost))
    BY <1>3, StaysLess
  <2> QED BY <1>4, <2>1, OutputStays DEF AgreeInv
<1>10. VariantAgrees'
  <2>1. CASE r.lhs = "output_variant"
    <3>1. n + 1 = 3
      <4>1. n + 1 \in 1..Len(stack')
        BY <1>7, <1>8
      <4> QED BY <1>1, <1>8, <2>1, <4>1, OutermostSymbols
    <3>2. d = OutputVariant(r, v, heap)
      BY <2>1 DEF Action
    <3> HIDE DEF d, roots
    <3>3. d.heap.objects[d.at].kind = KindOf(r)
      BY <1>2, <1>5, <2>1, <3>2, VariantIsOfItsRule
    <3> QED BY <1>2, <1>4, <1>8, <2>1, <3>1, <3>3 DEF VariantAgrees
  <2>2. CASE r.lhs = "output"
    BY <1>1, <1>4, <2>2, NoVariantAgrees
  <2>3. CASE r.lhs \notin {"output_variant", "output"}
    <3> HIDE DEF d
    <3> SUFFICES ASSUME Len(stack') >= 3, stack'[3] = "output_variant"
                 PROVE  heap'.objects[values'[3]].kind = variant'
      BY DEF VariantAgrees
    <3>1. 3 \in 1..n
      BY <1>7, <1>8, <2>3
    <3>2. stack[3] = "output_variant" /\ values'[3] = values[3] /\ Len(stack) >= 3
      <4>1. stack'[3] = stack[3] /\ values'[3] = values[3]
        BY <1>8, <3>1
      <4>2. Len(stack) >= 3
        BY <1>1, <1>2, <3>1 DEF Stack
      <4> QED BY <4>1, <4>2
    <3>3. values[3] # NULL /\ heap.objects[values[3]].kind = variant
      BY <3>2, VariantIsHeld DEF AgreeInv, VariantAgrees
    <3>4. values[3] \in Taken(lows, low)
      BY <1>6, <3>1, <3>2, <3>3 DEF Taken, Owning
    <3>5. values[3] \in DOMAIN heap.objects
      BY <1>5, <3>2, VariantIsHeld, GoodHeap
    <3>6. heap'.objects[values[3]].kind = heap.objects[values[3]].kind
      BY <1>3, <3>4, <3>5, KindStays
    <3> QED BY <1>4, <2>3, <3>2, <3>3, <3>6
  <2> QED BY <2>1, <2>2, <2>3
<1> QED BY <1>9, <1>10 DEF AgreeInv

\* A prompt that is not gdb's.
LEMMA RejectAgrees ==
    ASSUME TreeInv, AgreeInv, ~heap.crashed, NEW r \in Rules, RejectName(r),
           ~heap'.crashed
    PROVE  AgreeInv'
<1> DEFINE n == RecoveryPoint(stack)
<1>1. PushInv' /\ lexed \in Lexed
  BY RejectPromptInv DEF TreeInv, PushInv, PushTypeOK, RejectName
<1>2. variant' = "none" /\ output' = ParseError(lexed)
  BY DEF RejectName, RejectPrompt, Emits
<1>3. ReportError /\ out = NULL
  BY RejectStays
<1>4. out' = Report(heap).at /\ heap' = Destroyed(Report(heap).heap, n)
  BY <1>3 DEF ReportError, Recovered
<1>5. n \in 1..Len(stack) /\ Unfreed(stack, n) = {}
  BY RejectFacts
<1> HIDE DEF n
<1>6. OutputsAgree'
  BY <1>1, <1>2, <1>3, <1>4, <1>5, ReportErrorAgrees
<1>7. VariantAgrees'
  BY <1>1, <1>2, NoVariantAgrees
<1> QED BY <1>6, <1>7 DEF AgreeInv

\* A syntax error: the first one of a line is its output, whatever follows.
LEMMA SyntaxErrorAgrees ==
    ASSUME TreeInv, AgreeInv, ~heap.crashed, inLine, ReportOrDrop,
           ~heap'.crashed
    PROVE  AgreeInv'
<1> DEFINE n == RecoveryPoint(stack)
<1>1. PushInv' /\ lexed \in Lexed
  BY SyntaxErrorInv DEF TreeInv, PushInv, PushTypeOK, ReportOrDrop
<1>2. variant' = "none"
  BY DEF ReportOrDrop, SyntaxError
<1>3. n \in 1..Len(stack) /\ Unfreed(stack, n) = {}
  BY SyntaxFacts
<1>4. OutputsAgree'
  <2>1. CASE errstatus = 0
    <3>1. output' = ParseError(lexed)
      BY <2>1 DEF ReportOrDrop, SyntaxError, Emits
    <3>2. ReportError /\ out = NULL
      BY <2>1, ReportOrDropStays
    <3>3. out' = Report(heap).at /\ heap' = Destroyed(Report(heap).heap, n)
      BY <3>2 DEF ReportError, Recovered
    <3> HIDE DEF n
    <3> QED BY <1>1, <1>3, <3>1, <3>2, <3>3, ReportErrorAgrees
  <2>2. CASE errstatus # 0
    <3>1. UNCHANGED <<out, output>>
      BY <2>2 DEF ReportOrDrop, SyntaxError
    <3>2. Stays(heap, heap', Others(out, pending, lost))
      BY ReportOrDropStays
    <3> QED BY <3>1, <3>2, OutputStays DEF AgreeInv
  <2> QED BY <2>1, <2>2
<1>5. VariantAgrees'
  BY <1>1, <1>2, NoVariantAgrees
<1> QED BY <1>4, <1>5 DEF AgreeInv

\* A stack that is exhausted.
LEMMA ExhaustAgrees ==
    ASSUME TreeInv, ~heap.crashed, ExhaustStack, ~heap'.crashed
    PROVE  AgreeInv'
<1>1. PushInv' /\ lexed \in Lexed /\ Stack(stack)
  BY ExhaustedInv, TypeStack DEF TreeInv, PushInv, PushTypeOK, ExhaustStack
<1>2. variant' = "none" /\ output' = ParseError(lexed)
  BY DEF ExhaustStack, Exhausted, Emits
<1>3. out = NULL
  BY ExhaustStays
<1>4. out' = Report(heap).at /\ heap' = Destroyed(Report(heap).heap, 1)
  BY DEF ExhaustStack
<1>5. 1 \in 1..Len(stack) /\ Unfreed(stack, 1) = {}
  <2>1. Top(stack) \notin Owning \ Destructors
    BY DEF ExhaustStack, Exhausted, TreeInv, PushInv, StackInv
  <2> QED BY <1>1, <2>1, NothingUnfreed DEF Stack
<1>6. OutputsAgree'
  BY <1>1, <1>2, <1>3, <1>4, <1>5, ReportErrorAgrees
<1>7. VariantAgrees'
  BY <1>1, <1>2, NoVariantAgrees
<1> QED BY <1>6, <1>7 DEF AgreeInv

\* A token is shifted onto the stack.
LEMMA ShiftAgrees ==
    ASSUME TreeInv, AgreeInv, ~heap.crashed, ShiftToken
    PROVE  AgreeInv'
<1>1. /\ TreeOf /\ Stack(stack) /\ Len(values) = Len(stack)
      /\ UNCHANGED <<heap, out, output, inLine, variant>>
      /\ stack' = Append(stack, lookahead) /\ values' = Append(values, NULL)
      /\ lookahead # "output_variant"
  <2>1. lookahead \in Tokens
    BY DEF ShiftToken, Shift, TreeInv, PushInv, PushTypeOK
  <2> QED BY <2>1, LiveFacts, TokenSymbols DEF ShiftToken, Shift
<1>2. IsSequence(stack) /\ IsSequence(values) /\ Len(stack) \in Nat
  BY <1>1 DEF TreeOf, Tree, Values, Stack
<1>3. /\ Len(stack') = Len(stack) + 1 /\ stack'[Len(stack) + 1] = lookahead
      /\ \A i \in 1..Len(stack) : stack'[i] = stack[i] /\ values'[i] = values[i]
  BY <1>1, <1>2, AppendTo
<1>4. VariantAgrees'
  <2> SUFFICES ASSUME Len(stack') >= 3, stack'[3] = "output_variant"
               PROVE  heap'.objects[values'[3]].kind = variant'
    BY DEF VariantAgrees
  <2>1. 3 \in 1..Len(stack)
    BY <1>1, <1>2, <1>3
  <2>2. stack'[3] = stack[3] /\ values'[3] = values[3]
    BY <1>3, <2>1
  <2> QED BY <1>1, <1>2, <2>1, <2>2 DEF AgreeInv, VariantAgrees
<1>5. OutputsAgree'
  BY <1>1 DEF AgreeInv, OutputsAgree
<1> QED BY <1>4, <1>5 DEF AgreeInv

\* The call of parse_line is over, or a callback has returned: what the stack
\* holds is left alone.
LEMMA OutsideAgrees ==
    ASSUME TreeInv, AgreeInv, ~heap.crashed, NEW p,
           p \in Others(out, pending, lost),
           Stays(heap, heap', (Taken(stack, values) \cup Others(out, pending, lost))
                              \ {p}),
           UNCHANGED <<stack, values, variant>>, ~inLine'
    PROVE  AgreeInv'
<1>1. Taken(stack, values)
         \subseteq (Taken(stack, values) \cup Others(out, pending, lost)) \ {p}
  BY TreeFacts
<1>2. VariantAgrees'
  BY <1>1, VariantStays DEF AgreeInv
<1> QED BY <1>2 DEF AgreeInv, OutputsAgree

\* The steps that leave the stack and the heap as they are.
LEMMA SameAgrees ==
    ASSUME AgreeInv, UNCHANGED <<stack, values, variant, heap>>,
           inLine' => \/ UNCHANGED <<out, output, inLine>>
                      \/ out' = NULL /\ output' = NoOutput
    PROVE  AgreeInv'
BY DEF AgreeInv, OutputsAgree, VariantAgrees

\* Every step of the program keeps the agreement.
LEMMA AgreeInvStep == TreeInv /\ AgreeInv /\ [Next]_vars => AgreeInv'
<1> SUFFICES ASSUME TreeInv, AgreeInv, [Next]_vars, ~heap'.crashed
             PROVE  AgreeInv'
  BY DEF AgreeInv, OutputsAgree, VariantAgrees
<1>1. CASE UNCHANGED vars
  BY <1>1, SameAgrees DEF vars, pushVars, treeVars
<1>2. CASE Next
  <2>0. ~heap.crashed
    BY <1>2 DEF Next
  <2>1. CASE ParseLine
    BY <2>1, SameAgrees DEF ParseLine, BeginLine
  <2>2. ASSUME NEW x \in Lexemes, NEW p \in Positions, Token(x, p)
        PROVE  AgreeInv'
    BY <2>2, SameAgrees DEF Token, GiveToken
  <2>3. CASE ShiftToken
    BY <2>0, <2>3, ShiftAgrees
  <2>4. ASSUME NEW r \in Rules, inLine, ReduceBy(r) PROVE AgreeInv'
    <3>1. CASE r = VariantRule
      BY <2>0, <2>4, <3>1, HandedOverAgrees
    <3>2. CASE r # VariantRule
      BY <2>0, <2>4, <3>2, ReducedAgrees
    <3> QED BY <3>1, <3>2
  <2>5. ASSUME NEW r \in Rules, RejectName(r) PROVE AgreeInv'
    BY <2>0, <2>5, RejectAgrees
  <2>6. CASE inLine /\ ReportOrDrop
    BY <2>0, <2>6, SyntaxErrorAgrees
  <2>7. CASE PushReturns
    BY <2>7, SameAgrees DEF PushReturns, NeedToken, treeVars
  <2>8. CASE ExhaustStack
    BY <2>0, <2>8, ExhaustAgrees
  <2>9. CASE Deliver
    <3>1. out \in Others(out, pending, lost)
      BY <2>0, <2>9, TreeFacts DEF Deliver
    <3> QED BY <2>0, <2>9, <3>1, DeliverStays, OutsideAgrees DEF Deliver, pushVars
  <2>10. CASE FailLine
    BY <2>10, SameAgrees DEF FailLine, pushVars
  <2>11. CASE CallbackReturns
    <3>1. Len(pending) \in 1..Len(pending)
      BY <2>0, <2>11, TreeFacts DEF CallbackReturns
    <3>2. Top(pending).out \in Others(out, pending, lost)
      BY <2>0, <3>1, TreeFacts DEF Top
    <3> QED BY <2>0, <2>11, <3>2, CallbackReturnsStays, OutsideAgrees
            DEF CallbackReturns, pushVars
  <2> QED BY <1>2, <2>1, <2>2, <2>3, <2>4, <2>5, <2>6, <2>7, <2>8, <2>9, <2>10,
             <2>11 DEF Next, ParseStep
<1> QED BY <1>1, <1>2

\* What parse_line hands over is what was parsed, whatever the line, the
\* callbacks at work and the allocations that fail: there is an output exactly
\* when the push parser has emitted one, of that kind, and a parse error names
\* the token and the position at which the parser found it.
THEOREM OutputsAreWhatWasParsed == Spec => []OutputsAgree
<1>1. Init => AgreeInv
  <2> SUFFICES ASSUME Init PROVE AgreeInv
    OBVIOUS
  <2>1. ~inLine /\ Len(stack) = 1
    BY DEF Init, PushInit
  <2> QED BY <2>1 DEF AgreeInv, OutputsAgree, VariantAgrees
<1>2. AgreeInv => OutputsAgree
  BY DEF AgreeInv
<1> QED BY <1>1, <1>2, TreeInvariance, AgreeInvStep, PTL DEF Spec
=============================================================================
