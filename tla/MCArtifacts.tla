---------------------------- MODULE MCArtifacts -----------------------------
EXTENDS Artifacts

MCSetups == {<<"host", "off">>, <<"docker", "off">>, <<"pod", "off">>, <<"pod", "on">>}

MCBlocksOf == [u \in Uploaders |-> IF u \in Overwrites THEN 1 ELSE 2]
=============================================================================
