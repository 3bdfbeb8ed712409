------------------------------- MODULE MiTree -------------------------------
(***************************************************************************)
(* The structures of gdbwire_mi_pt.h on a heap: their allocation and       *)
(* recursive free in gdbwire_mi_pt_alloc.c, and the list with a tail that  *)
(* gdbwire_mi_grammar.y builds results in.                                 *)
(*                                                                         *)
(* A pointer is an address, or NULL.  A heap is a function from addresses  *)
(* to objects, the number of the allocation that will fail (0: none will), *)
(* and whether it has failed, the program has used memory it does not have *)
(* (undefined), or has dereferenced NULL (crashed).                        *)
(***************************************************************************)
EXTENDS Naturals, FiniteSets, SequencesExt

NULL == 0

EmptyHeap(fault) ==
    [objects |-> << >>, left |-> fault, failed |-> FALSE, undefined |-> FALSE,
     crashed |-> FALSE]

-----------------------------------------------------------------------------
(* The structures.  The union of a parse error is its token and position.  *)

Text(text) == [type |-> "text", text |-> text]

Output(kind, variant, pos) ==
    [type |-> "output", kind |-> kind, variant |-> variant, pos |-> pos,
     line |-> NULL, next |-> NULL]

OobRecord(kind, variant) ==
    [type |-> "oob_record", kind |-> kind, variant |-> variant]

ResultRecord(token, class, result) ==
    [type |-> "result_record", token |-> token, class |-> class,
     result |-> result]

AsyncRecord(token, kind, class, result) ==
    [type |-> "async_record", token |-> token, kind |-> kind, class |-> class,
     result |-> result]

StreamRecord(kind, cstring) ==
    [type |-> "stream_record", kind |-> kind, cstring |-> cstring]

Result(variable, kind, variant) ==
    [type |-> "result", variable |-> variable, kind |-> kind,
     variant |-> variant, next |-> NULL]

\* A result list: tail is the list itself while it is empty, then the result
\* whose next field it points to.
ResultList(tail) == [type |-> "result_list", head |-> NULL, tail |-> tail]

\* A pointer, with the place that holds it: a field of the object at an address,
\* or one of the places of its kind in the program.
Pointer(at, place) == [at |-> at, place |-> place]

\* The pointers of the object o at p that own what they point to.
Refs(p, o) ==
    LET fields == CASE o.type = "text" -> {}
                    [] o.type = "output" -> {"variant", "line", "next"}
                    [] o.type = "oob_record" -> {"variant"}
                    [] o.type \in {"result_record", "async_record"} ->
                          {"token", "result"}
                    [] o.type = "stream_record" -> {"cstring"}
                    [] o.type = "result" -> {"variable", "variant", "next"}
                    [] o.type = "result_list" -> {"head"}
    IN {Pointer(o[f], <<p, f>>) : f \in fields}

-----------------------------------------------------------------------------
(* Allocation.  What allocates returns the address and the heap.           *)

\* gdbwire_strdup, calloc and malloc.
Malloc(h, object) ==
    IF h.left = 1
    THEN [at |-> NULL, heap |-> [h EXCEPT !.left = 0, !.failed = TRUE]]
    ELSE LET p == Min(1..(Cardinality(DOMAIN h.objects) + 1)
                      \ DOMAIN h.objects)
         IN [at |-> p,
             heap |-> [h EXCEPT !.objects = [q \in DOMAIN @ \cup {p} |->
                                                IF q = p THEN object ELSE @[q]],
                                !.left = IF @ > 0 THEN @ - 1 ELSE 0]]

\* An allocation that is used without looking.
Struct(h, object) ==
    LET made == Malloc(h, object)
    IN IF made.at = NULL THEN [made EXCEPT !.heap.crashed = TRUE] ELSE made

Free(h, p) ==
    IF p = NULL THEN h
    ELSE IF p \in DOMAIN h.objects
         THEN [h EXCEPT !.objects = Restrict(@, DOMAIN @ \ {p})]
         ELSE [h EXCEPT !.undefined = TRUE]

-----------------------------------------------------------------------------
(* The recursive free functions.  Each frees what its object owns and then *)
(* the object.  Which of two calls is made first makes no difference to    *)
(* what is freed, so the calls that are still to be made are a set.        *)

\* A call of the free function of a type, unless its argument is NULL: that
\* of "text" is free itself.
Call(type, at, place) ==
    IF at = NULL THEN {} ELSE {[type |-> type, at |-> at, place |-> place]}

\* Mutant: the variable of a result is not freed.
ResultFreeButItsName(p, o) ==
    Call(IF o.kind = "CSTRING" THEN "text" ELSE "result",
         o.variant, <<p, "variant">>) \cup
    Call("result", o.next, <<p, "next">>)

ResultFree(p, o) ==
    Call("text", o.variable, <<p, "variable">>) \cup
    Call(IF o.kind = "CSTRING" THEN "text" ELSE "result",
         o.variant, <<p, "variant">>) \cup
    Call("result", o.next, <<p, "next">>)

StreamRecordFree(p, o) == Call("text", o.cstring, <<p, "cstring">>)

\* gdbwire_mi_result_record_free and gdbwire_mi_async_record_free.
RecordFree(p, o) ==
    Call("text", o.token, <<p, "token">>) \cup
    Call("result", o.result, <<p, "result">>)

OobRecordFree(p, o) ==
    Call(IF o.kind = "ASYNC" THEN "async_record" ELSE "stream_record",
         o.variant, <<p, "variant">>)

OutputFree(p, o) ==
    (CASE o.kind = "OOB" -> Call("oob_record", o.variant, <<p, "variant">>)
       [] o.kind = "RESULT" ->
             Call("result_record", o.variant, <<p, "variant">>)
       [] o.kind = "PROMPT" -> {}
       [] o.kind = "PARSE_ERROR" -> Call("text", o.variant, <<p, "variant">>))
    \cup Call("text", o.line, <<p, "line">>)
    \cup Call("output", o.next, <<p, "next">>)

\* The calls that the free function of a type makes on the object o at p.  A
\* result list has only the %destructor of its symbol.
Frees(type, p, o) ==
    CASE type = "text" -> {}
      [] type = "output" -> OutputFree(p, o)
      [] type = "oob_record" -> OobRecordFree(p, o)
      [] type \in {"result_record", "async_record"} -> RecordFree(p, o)
      [] type = "stream_record" -> StreamRecordFree(p, o)
      [] type = "result" -> ResultFree(p, o)
      [] type = "result_list" -> Call("result", o.head, <<p, "head">>)

\* One of the calls to be made, if there is any: its object goes, and what it
\* owns is freed.
FreeOne(s) ==
    LET call == CHOOSE c \in s.todo : TRUE
        rest == s.todo \ {call}
    IN IF s.todo = {} THEN s
       ELSE IF call.at \notin DOMAIN s.objects
       THEN [s EXCEPT !.todo = rest, !.undefined = TRUE]
       ELSE [s EXCEPT !.todo = rest \cup Frees(call.type, call.at,
                                               s.objects[call.at]),
                      !.objects = Restrict(@, DOMAIN @ \ {call.at})]

\* All the calls, and those they make.  Each frees an object, or one that is
\* not there: so does any call left when there are no objects left.
FreeAll(h, calls) ==
    LET rounds == Cardinality(DOMAIN h.objects)
        freed[n \in 0..rounds] ==
            IF n = 0
            THEN [objects |-> h.objects, todo |-> calls,
                  undefined |-> h.undefined]
            ELSE FreeOne(freed[n - 1])
        all == freed[rounds]
    IN [h EXCEPT !.objects = all.objects,
                 !.undefined = all.undefined \/ all.todo # {}]

-----------------------------------------------------------------------------
(* Lists of results.                                                       *)

\* gdbwire_mi_result_list_alloc.
ResultListAlloc(h) ==
    LET made == Struct(h, ResultList(NULL))
    IN [made EXCEPT !.heap.objects =
            [p \in DOMAIN @ |-> IF p = made.at THEN ResultList(p) ELSE @[p]]]

\* gdbwire_mi_result_list_push_back: *list->tail = result, and the tail moves on.
PushBack(h, list, result) ==
    LET tail == h.objects[list].tail
        linked == [h.objects EXCEPT ![tail] = IF tail = list
                                              THEN [@ EXCEPT !.head = result]
                                              ELSE [@ EXCEPT !.next = result]]
    IN [h EXCEPT !.objects = [linked EXCEPT ![list].tail = result]]
=============================================================================
