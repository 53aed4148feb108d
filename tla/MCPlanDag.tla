----------------------------- MODULE MCPlanDag -----------------------------
(* Every plan of three tasks whose depends_on lists have at most two       *)
(* entries (repeated ones and self-references included), and one plan for  *)
(* each of the other ways to be refused.                                   *)
EXTENDS PlanDag

MCIds == {"a", "b", "c", "x"}

Lists == {<< >>} \cup {<<d>> : d \in {"a", "b", "c"}}
         \cup {<<d, e>> : d, e \in {"a", "b", "c"}}

T(i, ds) == [id |-> i, schema |-> "ok", depends_on |-> ds]

MCRawPlans ==
    {<<T("a", k), T("b", l), T("c", m)>> : k, l, m \in Lists}
    \cup {<< >>,
          <<T("a", << >>), T("a", << >>)>>,
          <<T("a", <<"x">>)>>,
          <<[T("a", << >>) EXCEPT !.schema = "bad"]>>,
          <<T("a", << >>), T("b", << >>), T("c", << >>), T("x", << >>)>>}
=============================================================================
