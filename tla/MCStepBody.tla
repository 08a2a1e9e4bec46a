----------------------------- MODULE MCStepBody -----------------------------
(* A first step with a script or a container and a second one after it:    *)
(* their commands print, or they write to the command files.               *)
EXTENDS StepBody

MCSteps == <<"first", "second">>
MCJob(b, k, d, n, e) ==
    [backend |-> b, kind |-> [first |-> k, second |-> "node"], does |-> [first |-> d, second |-> e],
     acts |-> [first |-> n, second |-> 1]]
MCJobs ==
    {MCJob("host", "script", {"stop", "resume", "output"}, 3, {"output"}),
     MCJob("pod", "script", {"stop", "output", "setenv"}, 2, {"output"}),
     MCJob("docker", "script", {"stop", "output", "setenv"}, 1, {"output"}),
     MCJob("docker", "container", {"output", "setenv"}, 2, {}),
     MCJob("docker", "script", {"write"}, 1, {"write"}),
     MCJob("host", "script", {"write"}, 2, {"write"}),
     MCJob("pod", "container", {}, 0, {})}
MCFiles == <<"env", "path">>
=============================================================================
