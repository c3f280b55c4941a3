------------------------------ MODULE MCVisitor ------------------------------
(* The visitors main builds (v1, v2, v3: Visitor3{Visitor2{VisitorList{   *)
(* Visitorl}}}), a VisitorList of three elements, one of them main's      *)
(* visitor and one an empty VisitorList, under two Visitor3 (l2, w3, x3),  *)
(* and the empty VisitorList alone (e2); main may call Visit on any.      *)
EXTENDS Visitor

MCVisitors == {"v1", "v2", "v3", "l2", "w3", "x3", "e2"}
MCKind == [v \in MCVisitors |->
             CASE v = "v1" -> "Visitorl"
               [] v \in {"v2", "l2", "e2"} -> "Visitor2"
               [] v \in {"v3", "w3", "x3"} -> "Visitor3"]
MCElems == [v \in MCVisitors |->
              CASE v = "v2" -> <<"v1">>
                [] v = "l2" -> <<"v1", "e2", "v3">>
                [] OTHER -> <<>>]
MCInner == [v \in MCVisitors |->
              CASE v = "v3" -> "v2"
                [] v = "w3" -> "l2"
                [] v = "x3" -> "w3"
                [] OTHER -> "v1"]
MCRoots == MCVisitors

(* The visitor main calls Visit on. *)
MainVisitor == "v3"

(* The output the comment at the top of examples/visitor.go gives for      *)
(* main (its lines 4-12).                                                  *)
DocumentedOutput ==
    << <<"Visitorl", "before">>, <<"VisitorList", "before">>,
       <<"Visitor2", "before">>, <<"Visitor3", "before">>, "visitFunc",
       <<"Visitor3", "after">>, <<"Visitor2", "after">>,
       <<"VisitorList", "after">>, <<"Visitorl", "after">> >>

(* main of examples/visitor.go prints exactly the output its header        *)
(* comment documents.                                                      *)
MainOutputDocumented ==
    (root = MainVisitor /\ stack = <<>>) => out = DocumentedOutput
=============================================================================
