------------------------------- MODULE Visitor -------------------------------
(***************************************************************************)
(* The nested visitors of examples/visitor.go.  A Visitor's Visit(fn) runs *)
(* fn wrapped in its own before/after code: Visitorl prints around fn,     *)
(* Visitor2 hands a wrapped fn to the VisitorList it holds, Visitor3 hands *)
(* a wrapped fn to the visitor it holds, and VisitorList.Visitor visits    *)
(* every element with fn wrapped once more.                                *)
(*                                                                         *)
(* The program is sequential; its call stack is modelled as a stack of     *)
(* continuations, one action per function body.  A closure is the         *)
(* sequence of labels of the wrappers around main's visitFunc, outermost   *)
(* first: calling it prints the first label's "before", calls the rest     *)
(* and prints the label's "after".  A printed line is <<label, where>> or  *)
(* the string "visitFunc".                                                 *)
(***************************************************************************)
EXTENDS Naturals, Sequences

CONSTANTS
    Visitors,   \* the visitor values the program builds
    Kind,       \* Kind[v]: "Visitorl", "Visitor2" or "Visitor3"
    Elems,      \* Elems[v]: the VisitorList a Visitor2 holds
    Inner,      \* Inner[v]: the visitor a Visitor3 holds
    Roots       \* the visitors main may call Visit on

Kinds == {"Visitorl", "Visitor2", "Visitor3"}

ASSUME VisitorAssumption ==
    /\ Kind \in [Visitors -> Kinds]
    /\ Elems \in [Visitors -> Seq(Visitors)]
    /\ Inner \in [Visitors -> Visitors]
    /\ Roots \subseteq Visitors

VARIABLES
    root,    \* the visitor main called Visit on
    stack,   \* continuations still to run, the top first
    out      \* the lines printed so far

vars == <<root, stack, out>>

\* Stack entries: v.Visit(fn), the VisitorList loop at index i, a call fn(),
\* and a fmt.Println of one line.
VisitK(v, fn) == [k |-> "visit", v |-> v, fn |-> fn]
LoopK(l, i, fn) == [k |-> "loop", l |-> l, i |-> i, fn |-> fn]
CallK(fn) == [k |-> "call", fn |-> fn]
PrintK(line) == [k |-> "print", line |-> line]

\* Replace the top of the stack by the sequence s of continuations.
Run(s) == stack' = s \o Tail(stack)

-----------------------------------------------------------------------------
(* main: build the nested visitors and call Visit with the visitFunc       *)
(* closure.                                                                *)
Init ==
    /\ root \in Roots
    /\ stack = <<VisitK(root, <<>>)>>
    /\ out = <<>>

\* Mutant: Visitorl prints under the name "Visitor1" of the header comment.
VisitorlVisitMisnamed ==
    /\ stack # <<>>
    /\ Head(stack).k = "visit" /\ Kind[Head(stack).v] = "Visitorl"
    /\ LET fn == Head(stack).fn IN
         Run(<<PrintK(<<"Visitor1", "before">>), CallK(fn),
               PrintK(<<"Visitor1", "after">>)>>)
    /\ UNCHANGED <<root, out>>

(* Visitorl.Visit: print, call fn, print, return nil. *)
VisitorlVisit ==
    /\ stack # <<>>
    /\ Head(stack).k = "visit" /\ Kind[Head(stack).v] = "Visitorl"
    /\ LET fn == Head(stack).fn IN
         Run(<<PrintK(<<"Visitorl", "before">>), CallK(fn),
               PrintK(<<"Visitorl", "after">>)>>)
    /\ UNCHANGED <<root, out>>

\* Mutant: the Visitor2 wrapper placed inside the closure it wraps.
Visitor2VisitWrapsInside ==
    /\ stack # <<>>
    /\ Head(stack).k = "visit" /\ Kind[Head(stack).v] = "Visitor2"
    /\ LET h == Head(stack) IN
         Run(<<LoopK(Elems[h.v], 1, h.fn \o <<"Visitor2">>)>>)
    /\ UNCHANGED <<root, out>>

(* Visitor2.Visit: v.visitorList.Visitor(fn wrapped by Visitor2).  The     *)
(* error VisitorList.Visitor returns is dropped.                           *)
Visitor2Visit ==
    /\ stack # <<>>
    /\ Head(stack).k = "visit" /\ Kind[Head(stack).v] = "Visitor2"
    /\ LET h == Head(stack) IN
         Run(<<LoopK(Elems[h.v], 1, <<"Visitor2">> \o h.fn)>>)
    /\ UNCHANGED <<root, out>>

(* Visitor3.Visit: v.visitor.Visit(fn wrapped by Visitor3), error dropped. *)
Visitor3Visit ==
    /\ stack # <<>>
    /\ Head(stack).k = "visit" /\ Kind[Head(stack).v] = "Visitor3"
    /\ LET h == Head(stack) IN
         Run(<<VisitK(Inner[h.v], <<"Visitor3">> \o h.fn)>>)
    /\ UNCHANGED <<root, out>>

(* VisitorList.Visitor, one iteration: visit l[i] with fn wrapped by       *)
(* VisitorList, then go on with i + 1.  Every Visit of this program        *)
(* returns nil, so the early return on an error is never taken.            *)
ListStep ==
    /\ stack # <<>>
    /\ Head(stack).k = "loop"
    /\ LET h == Head(stack) IN
         /\ h.i <= Len(h.l)
         /\ Run(<<VisitK(h.l[h.i], <<"VisitorList">> \o h.fn),
                  LoopK(h.l, h.i + 1, h.fn)>>)
    /\ UNCHANGED <<root, out>>

(* VisitorList.Visitor: the loop ends and returns nil. *)
ListReturn ==
    /\ stack # <<>>
    /\ Head(stack).k = "loop"
    /\ Head(stack).i > Len(Head(stack).l)
    /\ Run(<<>>)
    /\ UNCHANGED <<root, out>>

(* Calling a wrapping closure: print its "before", call the closure it    *)
(* wraps, print its "after", return nil.                                   *)
CallWrapped ==
    /\ stack # <<>>
    /\ Head(stack).k = "call" /\ Head(stack).fn # <<>>
    /\ LET fn == Head(stack).fn IN
         Run(<<PrintK(<<Head(fn), "before">>), CallK(Tail(fn)),
               PrintK(<<Head(fn), "after">>)>>)
    /\ UNCHANGED <<root, out>>

(* Calling main's closure: print "In visitFunc", return nil. *)
CallVisitFunc ==
    /\ stack # <<>>
    /\ Head(stack).k = "call" /\ Head(stack).fn = <<>>
    /\ Run(<<PrintK("visitFunc")>>)
    /\ UNCHANGED <<root, out>>

(* fmt.Println *)
PrintLine ==
    /\ stack # <<>>
    /\ Head(stack).k = "print"
    /\ out' = Append(out, Head(stack).line)
    /\ Run(<<>>)
    /\ UNCHANGED root

Next ==
    \/ VisitorlVisit \/ Visitor2Visit \/ Visitor3Visit
    \/ ListStep \/ ListReturn
    \/ CallWrapped \/ CallVisitFunc \/ PrintLine

Spec == Init /\ [][Next]_vars

-----------------------------------------------------------------------------
Labels == Kinds \cup {"VisitorList"}
Lines == (Labels \X {"before", "after"}) \cup {"visitFunc"}
Closures == Seq(Labels)

Entries ==
    [k : {"visit"}, v : Visitors, fn : Closures]
      \cup [k : {"loop"}, l : Seq(Visitors), i : Nat, fn : Closures]
      \cup [k : {"call"}, fn : Closures]
      \cup [k : {"print"}, line : Lines]

TypeOK ==
    /\ root \in Roots
    /\ out \in Seq(Lines)
    /\ stack \in Seq(Entries)

=============================================================================
