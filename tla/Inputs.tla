------------------------------- MODULE Inputs -------------------------------
(* The form inputs of a request (urweb.c, uw_set_input to uw_next_entry):   *)
(* uw_set_input stores what the browser sends in ctx->inputs and, for       *)
(* subforms and entries of lists, in ctx->subinputs, a block that grows by  *)
(* realloc and whose cells point at each other; the handler that cjr_print  *)
(* generates then walks over them, and an attempt may fail at any point and *)
(* start over.                                                              *)
EXTENDS Naturals, Sequences, FiniteSets, SequencesExt

CONSTANTS Fields, Shape, Values,   \* see Forms
          MaxSubinputs,    \* cells of subforms and entries in one request
          MaxMoves,        \* times the block of subinputs moves
          Fitting,         \* a browser sends the fields of the application's own forms
          Closed           \* and closes what it opens, before it submits

ASSUME InputsAssumption ==
  /\ Fields \in Nat \ {0} /\ MaxSubinputs \in Nat /\ MaxMoves \in Nat
  /\ Shape \in [1 .. Fields -> {"value", "file", "subform", "subforms"}]
  /\ Fitting \in BOOLEAN /\ Closed \in BOOLEAN

VARIABLES
  ctx,      \* the fields of uw_context named below
  phase,    \* "send": uw_set_input; "handle": the handler runs
  got,      \* what uw_get_input, uw_get_file_input returned last in this attempt
  paths     \* ghost: the path in the form of each cell of ctx->subinputs

vars == <<ctx, phase, got, paths>>

None  == "none"
Start == "start"      \* nothing asked yet
Names == 1 .. Fields

(* A pointer: a block (0 is ctx->inputs, the others are the addresses that  *)
(* ctx->subinputs has had) and an index.  A cell: its kind and the fields   *)
(* of the union, ptr being fields of a SUBFORM or an ENTRY and entries of   *)
(* SUBFORMS.                                                                *)
NULL  == [block |-> 0, i |-> 0]
Cell(kind, val, ptr, next, parent) ==
  [kind |-> kind, val |-> val, ptr |-> ptr, next |-> next, parent |-> parent]
Unset == Cell("UNSET", None, NULL, NULL, NULL)
Wild  == Cell("WILD", None, NULL, NULL, NULL)    \* what a dangling pointer finds

At(c, p) == CASE p.block = 0 /\ p.i \in Names -> c.inputs[p.i]
              [] p.block = c.block /\ p.i \in DOMAIN c.subinputs -> c.subinputs[p.i]
              [] OTHER -> Wild
Set(c, p, x) == IF p.block = 0 THEN [c EXCEPT !.inputs[p.i] = x]
                               ELSE [c EXCEPT !.subinputs[p.i] = x]
Here(c) == At(c, c.cur_container)

(* INP: the record the container holds; only a subform, an entry and the    *)
(* form itself are records.                                                 *)
IsRecord(c) == c.cur_container = NULL \/ Here(c).kind \in {"SUBFORM", "ENTRY"}
Field(p, n) == [p EXCEPT !.i = @ + n - 1]
INP(c, n)   == Field(IF c.cur_container = NULL THEN [block |-> 0, i |-> 1] ELSE Here(c).ptr, n)

(* adjust_pointer, adjust_input: a pointer into the old block follows it.   *)
AdjustPointer(p, old, new, len) == IF p.block = old /\ p.i \in 1 .. len THEN [p EXCEPT !.block = new] ELSE p
AdjustInputNoNext(x, old, new, len) ==      \* mutant: the list is forgotten
  IF x.kind = "UNSET" THEN x
  ELSE [x EXCEPT !.ptr = AdjustPointer(@, old, new, len), !.parent = AdjustPointer(@, old, new, len)]
AdjustInput(x, old, new, len) ==
  CASE x.kind \in {"SUBFORM", "SUBFORMS"} ->
         [x EXCEPT !.ptr = AdjustPointer(@, old, new, len), !.parent = AdjustPointer(@, old, new, len)]
    [] x.kind = "ENTRY" ->
         [x EXCEPT !.ptr = AdjustPointer(@, old, new, len), !.parent = AdjustPointer(@, old, new, len),
                   !.next = AdjustPointer(@, old, new, len)]
    [] OTHER -> x

(* The contexts check_input_space may leave: len new cells, in a block that *)
(* was large enough, was extended in place or has moved (n_subinputs, which *)
(* decides between the first and the others, is left out).                  *)
Grow(c, len) == [c EXCEPT !.subinputs = @ \o [i \in 1 .. len |-> Unset]]
Moved(c) ==
  LET used == Len(c.subinputs)
      new  == c.block + 1
      Adj(x) == AdjustInput(x, c.block, new, used)
  IN [c EXCEPT !.subinputs = [i \in 1 .. used |-> Adj(@[i])],
               !.inputs = [n \in Names |-> Adj(@[n])],
               !.cur_container = AdjustPointer(@, c.block, new, used),
               !.block = new]
CheckInputSpace(c, len) ==
  {Grow(c, len)} \cup
  IF c.block <= MaxMoves THEN {Grow(Moved(c), len)} ELSE {}
Fresh(c, len) == [block |-> c.block, i |-> Len(c.subinputs) - len + 1]

(* The path of a cell, as Forms has them; of a dangling pointer there is    *)
(* none.  The form that the cells hold.                                     *)
PathOf(p) == CASE p = NULL -> <<>>
               [] p.block = 0 /\ p # NULL -> <<p.i>>
               [] p.block = ctx.block /\ p.i \in DOMAIN paths -> paths[p.i]
               [] OTHER -> <<0>>
What(x) == IF x.kind \in {"UNSET", "NORMAL", "FIL"} THEN x.val
           ELSE [SUBFORM |-> "subform", SUBFORMS |-> "subforms", ENTRY |-> "entry"][x.kind]
Cells == {[block |-> 0, i |-> n] : n \in Names} \cup {[block |-> ctx.block, i |-> k] : k \in DOMAIN ctx.subinputs}
Form == {[path |-> PathOf(p), what |-> What(At(ctx, p))] : p \in {q \in Cells : At(ctx, q).kind # "UNSET"}}
Record(path) == [n \in Names |-> Append(path, n)]      \* the paths of its fields

Init ==
  /\ ctx = [inputs |-> [n \in Names |-> Unset], subinputs |-> <<>>, block |-> 1, cur_container |-> NULL]
  /\ phase = "send" /\ got = Start /\ paths = <<>>
-----------------------------------------------------------------------------
(* uw_set_input.  A form that fits sends the fields of a record once, in    *)
(* the order of the page and as what they are; the code checks none of it.  *)
(* Left out: a field where no record is open, for which INP calls uw_error  *)
(* before uw_begin, that is, jumps into the frame of an earlier request.    *)
Fits(n, shape)  == Shape[n] = shape /\ \A m \in n .. Fields : At(ctx, INP(ctx, m)).kind = "UNSET"
Sends(n, shape) == phase = "send" /\ IsRecord(ctx) /\ (Fitting => Fits(n, shape))

SetInput(n, v) ==
  /\ Sends(n, "value")
  /\ ctx' = Set(ctx, INP(ctx, n), Cell("NORMAL", v, NULL, NULL, NULL))
  /\ UNCHANGED <<phase, got, paths>>

(* uw_set_file_input: always a field of the form itself, which may be the   *)
(* container that is open.                                                  *)
SetFileInput(n, v) ==
  /\ phase = "send" /\ (Fitting => ctx.cur_container = NULL /\ Fits(n, "file"))
  /\ ctx' = [ctx EXCEPT !.inputs[n] = Cell("FIL", v, NULL, NULL, NULL)]
  /\ UNCHANGED <<phase, got, paths>>

(* ".b"                                                                     *)
SubformCell(c, fields) == Cell("SUBFORM", None, fields, NULL, c.cur_container)
BeginSubform(n) ==
  /\ Sends(n, "subform") /\ Len(ctx.subinputs) + Fields <= MaxSubinputs
  /\ \E c \in CheckInputSpace(ctx, Fields) :
       ctx' = [Set(c, INP(c, n), SubformCell(c, Fresh(c, Fields))) EXCEPT !.cur_container = INP(c, n)]
  /\ paths' = paths \o Record(PathOf(INP(ctx, n)))
  /\ UNCHANGED <<phase, got>>

(* ".s"                                                                     *)
BeginSubforms(n) ==
  /\ Sends(n, "subforms")
  /\ ctx' = [Set(ctx, INP(ctx, n), Cell("SUBFORMS", None, NULL, NULL, ctx.cur_container))
             EXCEPT !.cur_container = INP(ctx, n)]
  /\ UNCHANGED <<phase, got, paths>>

(* ".i": the new entry becomes the head of the list.                        *)
EntryCell(c, e) == Cell("ENTRY", None, Field(e, 2), Here(c).ptr, c.cur_container)
BeginEntry ==
  /\ phase = "send" /\ ctx.cur_container # NULL /\ Here(ctx).kind = "SUBFORMS"
  /\ Len(ctx.subinputs) + Fields + 1 <= MaxSubinputs
  /\ \E c \in CheckInputSpace(ctx, Fields + 1) :
       LET e == Fresh(c, Fields + 1)
       IN ctx' = [Set(Set(c, e, EntryCell(c, e)), c.cur_container, [Here(c) EXCEPT !.ptr = e])
                  EXCEPT !.cur_container = e]
  /\ LET head  == Here(ctx).ptr
         entry == Append(PathOf(ctx.cur_container), IF head = NULL THEN 1 ELSE Last(PathOf(head)) + 1)
     IN  paths' = Append(paths, entry) \o Record(entry)
  /\ UNCHANGED <<phase, got>>

(* ".e"                                                                     *)
EndContainer ==
  /\ phase = "send" /\ ctx.cur_container # NULL /\ Here(ctx).kind \in {"SUBFORM", "SUBFORMS", "ENTRY"}
  /\ ctx' = [(IF Here(ctx).kind = "ENTRY" THEN ctx
              ELSE Set(ctx, ctx.cur_container, [Here(ctx) EXCEPT !.parent = NULL]))
             EXCEPT !.cur_container = Here(ctx).parent]
  /\ UNCHANGED <<phase, got, paths>>

(* uw_reset: the cells of the next request are blank.  (The cells of        *)
(* ctx->subinputs beyond used_subinputs are set when they are handed out.)  *)
Reset(c) == [c EXCEPT !.inputs = [n \in Names |-> Unset], !.subinputs = <<>>, !.cur_container = NULL]
NewRequest == ctx' = Reset(ctx) /\ phase' = "send" /\ got' = Start /\ paths' = <<>>

(* An unmatched ".e", one where a file is, ".i" outside a list, a name that *)
(* is no input of the application: the request is refused.                  *)
Refuse == phase = "send" /\ NewRequest

(* uw_begin: the first attempt begins where the last field has left it.     *)
Submit == /\ phase = "send" /\ (Closed => ctx.cur_container = NULL)
          /\ phase' = "handle" /\ UNCHANGED <<ctx, got, paths>>
-----------------------------------------------------------------------------
(* The handler: the code getInput generates asks each field in the way its  *)
(* type says.  What is not there in that way, or asked where no record is,  *)
(* ends the request (uw_error with FATAL).                                  *)
Asks(n, shape) == phase = "handle" /\ Shape[n] = shape /\ IsRecord(ctx)
Asked(n)       == At(ctx, INP(ctx, n))

(* uw_get_input and uw_get_optional_input: None stands for NULL and "".     *)
GetInput(n) ==
  /\ Asks(n, "value") /\ Asked(n).kind \in {"UNSET", "NORMAL"}
  /\ got' = Asked(n).val /\ UNCHANGED <<ctx, phase, paths>>
GetFileInput(n) ==
  /\ Asks(n, "file") /\ Asked(n).kind \in {"UNSET", "FIL"}
  /\ got' = Asked(n).val /\ UNCHANGED <<ctx, phase, paths>>

EnterSubform(n) ==
  /\ Asks(n, "subform") /\ Asked(n).kind = "SUBFORM"
  /\ ctx' = [Set(ctx, INP(ctx, n), [Asked(n) EXCEPT !.parent = ctx.cur_container])
             EXCEPT !.cur_container = INP(ctx, n)]
  /\ UNCHANGED <<phase, got, paths>>
LeaveSubform ==
  /\ phase = "handle" /\ ctx.cur_container # NULL /\ Here(ctx).kind = "SUBFORM"
  /\ ctx' = [Set(ctx, ctx.cur_container, [Here(ctx) EXCEPT !.parent = NULL])
             EXCEPT !.cur_container = Here(ctx).parent]
  /\ UNCHANGED <<phase, got, paths>>

EnterSubforms(n) ==
  /\ Asks(n, "subforms") /\ Asked(n).kind = "SUBFORMS"
  /\ ctx' = IF Asked(n).ptr = NULL THEN ctx
            ELSE [Set(ctx, INP(ctx, n), [Asked(n) EXCEPT !.parent = ctx.cur_container])
                  EXCEPT !.cur_container = Asked(n).ptr]
  /\ UNCHANGED <<phase, got, paths>>
NextEntry ==
  /\ phase = "handle" /\ ctx.cur_container # NULL /\ Here(ctx).kind = "ENTRY"
  /\ ctx' = [ctx EXCEPT !.cur_container = IF Here(ctx).next # NULL THEN Here(ctx).next
                                          ELSE At(ctx, Here(ctx).parent).parent]
  /\ UNCHANGED <<phase, got, paths>>

(* An attempt fails to be repeated: uw_reset_keep_request leaves the inputs *)
(* as they are, with the parents the failed attempt has set.                *)
ResetKeepPlace(c) == c                      \* mutant: cur_container is left
ResetKeepRequest(c) == [c EXCEPT !.cur_container = NULL]
Retry == phase = "handle" /\ ctx' = ResetKeepRequest(ctx) /\ got' = Start /\ UNCHANGED <<phase, paths>>

Next ==
  \/ \E n \in Names :
       \/ \E v \in Values : SetInput(n, v) \/ SetFileInput(n, v)
       \/ BeginSubform(n) \/ BeginSubforms(n)
       \/ GetInput(n) \/ GetFileInput(n) \/ EnterSubform(n) \/ EnterSubforms(n)
  \/ BeginEntry \/ EndContainer \/ Refuse \/ Submit
  \/ LeaveSubform \/ NextEntry \/ Retry \/ (phase = "handle" /\ NewRequest)
Spec == Init /\ [][Next]_vars
-----------------------------------------------------------------------------
(* Every attempt of the handler finds, field by field, entry by entry, the  *)
(* form the browser has sent: no move of the block, no attempt that ended   *)
(* inside a subform and no earlier request shows.  For forms that fit and   *)
(* close what they open: of others the first attempt begins inside what is  *)
(* open, and a retry at the root.                                           *)
F == INSTANCE Forms WITH form <- Form, place <- PathOf(ctx.cur_container)
SameForm == F!Spec

(* Every pointer that may still be followed leads to a cell: none is left   *)
(* pointing into a block that realloc has freed (adjust_pointer), whatever  *)
(* fields are sent, repeated, overwritten and left open.                    *)
Pointers(x) == CASE x.kind = "SUBFORM"  -> {x.ptr, x.parent}
                 [] x.kind = "SUBFORMS" -> {x.ptr, x.parent}
                 [] x.kind = "ENTRY"    -> {x.ptr, x.next, x.parent}
                 [] OTHER -> {}
AllPointers == {ctx.cur_container} \cup (UNION {Pointers(ctx.inputs[n]) : n \in Names})
               \cup (UNION {Pointers(ctx.subinputs[i]) : i \in DOMAIN ctx.subinputs})
NoDangling == \A p \in AllPointers : p = NULL \/ At(ctx, p) # Wild
=============================================================================
