------------------------- MODULE MCAdmissionPlugins -------------------------
(***************************************************************************)
(* Two plugin names, one of them registered twice with different          *)
(* factories (two plugins that chose the same name), and two builders:    *)
(* b1 with a list that has the empty name between two real ones, b2 with  *)
(* the names in the other order.                                          *)
(***************************************************************************)
EXTENDS AdmissionPlugins

MCNames == {"AlwaysPullImages", "LimitRanger"}
MCFactories == {"fPull", "fPullClash", "fLimit"}
MCRegistrations == {<<"AlwaysPullImages", "fPull">>,
                    <<"LimitRanger", "fLimit">>,
                    <<"AlwaysPullImages", "fPullClash">>}
MCBuilders == {"b1", "b2"}
MCPluginNames == [b \in MCBuilders |->
                    IF b = "b1" THEN <<"AlwaysPullImages", "", "LimitRanger">>
                    ELSE <<"LimitRanger", "AlwaysPullImages">>]

=============================================================================
