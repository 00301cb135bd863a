------------------------------- MODULE Forms -------------------------------
(* What a form is to the two programs that use it: the browser writes a     *)
(* tree, field by field, and the handler walks over that very tree, each    *)
(* attempt from its root, however the server stores it.                     *)
EXTENDS Naturals, FiniteSets, Sequences, SequencesExt

CONSTANTS Fields,      \* the names of an application's inputs are numbered from 1
          Shape,       \* Shape[n] in {"value", "file", "subform", "subforms"}
          Values

VARIABLES form,        \* the nodes: a path, of fields and numbers of entries, and what is there
          place,       \* where the browser writes or the handler reads
          phase,       \* "send", then "handle"
          got          \* the last answer the handler got

None  == "none"
Start == "start"
Names == 1 .. Fields

What(p)    == IF \E x \in form : x.path = p THEN (CHOOSE x \in form : x.path = p).what ELSE None
Count(p)   == Cardinality({x \in form : x.path # <<>> /\ Front(x.path) = p})
In(what)   == place # <<>> /\ What(place) = what
Put(p, w)  == form' = {x \in form : x.path # p} \cup {[path |-> p, what |-> w]}

Init == form = {} /\ place = <<>> /\ phase = "send" /\ got = Start

Write(n, v) == /\ phase = "send" /\ ~In("subforms")
               /\ Put(Append(place, n), v) /\ UNCHANGED <<place, phase, got>>
Open(n)     == /\ phase = "send" /\ ~In("subforms")
               /\ Put(Append(place, n), Shape[n]) /\ place' = Append(place, n)
               /\ UNCHANGED <<phase, got>>
Item        == /\ phase = "send" /\ In("subforms")
               /\ LET p == Append(place, Count(place) + 1)
                  IN  Put(p, "entry") /\ place' = p
               /\ UNCHANGED <<phase, got>>
Close       == /\ phase = "send" /\ place # <<>> /\ place' = Front(place)
               /\ UNCHANGED <<form, phase, got>>
Submit      == phase = "send" /\ place = <<>> /\ phase' = "handle" /\ UNCHANGED <<form, place, got>>

Read(n)     == /\ phase = "handle" /\ got' = What(Append(place, n)) /\ UNCHANGED <<form, place, phase>>
Enter(n)    == /\ phase = "handle" /\ What(Append(place, n)) = "subform"
               /\ place' = Append(place, n) /\ UNCHANGED <<form, phase, got>>
Leave       == /\ phase = "handle" /\ place # <<>> /\ What(place) = "subform"
               /\ place' = Front(place) /\ UNCHANGED <<form, phase, got>>
(* A list is read from its last entry to its first.                         *)
EnterList(n) == LET p == Append(place, n)
                IN /\ phase = "handle" /\ What(p) = "subforms"
                   /\ place' = IF Count(p) = 0 THEN place ELSE Append(p, Count(p))
                   /\ UNCHANGED <<form, phase, got>>
NextEntry   == /\ phase = "handle" /\ In("entry")
               /\ place' = IF Last(place) > 1 THEN Append(Front(place), Last(place) - 1)
                                              ELSE Front(Front(place))
               /\ UNCHANGED <<form, phase, got>>
Again       == phase = "handle" /\ place' = <<>> /\ got' = Start /\ UNCHANGED <<form, phase>>
End         == form' = {} /\ place' = <<>> /\ phase' = "send" /\ got' = Start

Next == \/ \E n \in Names : \/ \E v \in Values : Write(n, v)
                            \/ Open(n) \/ Read(n) \/ Enter(n) \/ EnterList(n)
        \/ Item \/ Close \/ Submit \/ Leave \/ NextEntry \/ Again \/ End
Spec == Init /\ [][Next]_<<form, place, phase, got>>
=============================================================================
