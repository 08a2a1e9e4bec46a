--------------------------- MODULE MCActionSteps ----------------------------
(* A script, a composite action of an action and a script, and an action. *)
EXTENDS ActionSteps

MCTop == <<"script", "composite", "action">>
MCChildren == "composite" :> <<"nested", "inner">>
MCKind == ("script" :> "run") @@ ("composite" :> "composite") @@ ("action" :> "action")
          @@ ("nested" :> "action") @@ ("inner" :> "run")
MCCondsOf == ("script" :> {"success"}) @@ ("composite" :> {"success", "always"}) @@ ("action" :> {"success", "always"})
             @@ ("nested" :> {"success"}) @@ ("inner" :> {"success", "failure"})
MCWriters == {<<"main", "script">>, <<"main", "nested">>, <<"main", "inner">>, <<"pre", "action">>}
=============================================================================
